----------------------------- MODULE MCQueries ------------------------------
(***************************************************************************)
(* Instances of Joins, SortedQueries and GroupedQueries for TLC, side by   *)
(* side: a behaviour is one query, run by the operator its kind names, and *)
(* leaves the variables of the others alone.                               *)
(***************************************************************************)
EXTENDS Joins, SortedQueries

CONSTANT Numbers

VARIABLE op

G == INSTANCE GroupedQueries WITH
         query <- sorted, out <- returned, phase <- stage, opens <- openings

ASSUME MCJoinConstants == JoinConstants

ASSUME MCSortConstants == SortConstants

\* Two integers, and a field without a value.
MCFields == {IntField(1), IntField(2), NullField}

\* One argument below zero, where the extremes start, one above, and a text.
MCNumbers == {IntField(-1), IntField(2), StrField(1)}

\* The query of a module that has none.
None == [kind |-> "none", type |-> "INNER", op |-> "EQ", outer |-> <<>>, inner |-> <<>>,
         indexed |-> {}]

NoJoin == /\ query = None /\ x = Members /\ merge = MergeMembers
          /\ out = <<>> /\ phase = "new" /\ opens = 0 /\ reopened = FALSE

NoSort == /\ sorted = None /\ sort = NewSort
          /\ returned = <<>> /\ stage = "new" /\ openings = 0

QueryInit == \/ Init /\ NoSort /\ op = G!NoOp
             \/ SortInit /\ NoJoin /\ op = G!NoOp
             \/ G!Init /\ NoJoin

QueryNext == \/ query.kind # "none" /\ Next /\ UNCHANGED <<sortVars, op>>
             \/ SortNext /\ UNCHANGED <<vars, op>>
             \/ sorted.kind # "none" /\ G!Next /\ UNCHANGED vars

QuerySpec == QueryInit /\ [][QueryNext]_<<vars, sortVars, op>>

-----------------------------------------------------------------------------
(* The property of GroupedQueries; the others are named as they are. *)

\* The groups of an aggregation account for every row, once in each opening of
\* the sort below it, and for its value - also where a group is torn apart or
\* two are merged.
GroupsAccount == sorted.kind \in {"sort_agg", "hash_agg"} => G!Account
=============================================================================
