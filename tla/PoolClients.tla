---------------------------- MODULE PoolClients ----------------------------
(***************************************************************************)
(* Callers that keep the pointer fetchPage returned while other callers    *)
(* fetch pages: an executor holds the page it works on (the page that      *)
(* ExternalMergeSort::open fills) across the getNext calls of its child.   *)
(* The program has one thread; the callers interleave because they call    *)
(* each other.  Nothing pins a frame, so the pointer may outlive its page, *)
(* and nothing stops a caller from writing through it then.                *)
(***************************************************************************)
EXTENDS BufferPool

CONSTANT Clients

NotHeld == [page |-> -1, frame |-> -1]

VARIABLES
    held,    \* the page each client fetched, and the frame it was given
    others,  \* history: the pages touched since that fetch
    written  \* history: page id -> the content last written to it, for the
             \* pages that no write through a kept pointer went astray on

clientVars == <<vars, held, others, written>>

\* fetchPage, its pointer kept by client c.
Hold(c, id) ==
    /\ FetchHit(id) \/ FetchMiss(id)
    /\ held' = [held EXCEPT ![c] = [page |-> id, frame |-> page_table'[id]]]
    /\ others' = [d \in Clients |->
                     IF d = c THEN {}
                     ELSE IF held[d].page = id THEN others[d]
                     ELSE others[d] \cup {id}]
    /\ UNCHANGED written

\* Pages the others touch between two steps of a client.
Touch(id) ==
    others' = [d \in Clients |->
                   IF held[d].page = id THEN others[d] ELSE others[d] \cup {id}]

OtherFetch(id) ==
    /\ FetchHit(id) \/ FetchMiss(id)
    /\ Touch(id)
    /\ UNCHANGED <<held, written>>

\* Page id was given the content x.
Given(id, x) == [p \in DOMAIN written |-> IF p = id THEN x ELSE written[p]]

OtherUpdate(id, x) ==
    /\ UpdateHit(id, x) \/ UpdateMiss(id, x)
    /\ Touch(id)
    /\ written' = Given(id, x)
    /\ UNCHANGED held

OtherNewPage ==
    /\ NewPage
    /\ Touch(NextId(dm))
    /\ written' = Put(written, NextId(dm), Blank)
    /\ UNCHANGED held

\* The pool drops a page: a pointer to it is worth nothing from here on.
OtherDelete(id) ==
    /\ DeletePooled(id)
    /\ held' = [d \in Clients |-> IF held[d].page = id THEN NotHeld ELSE held[d]]
    /\ UNCHANGED <<others, written>>

\* markAsDirty(id): the map's operator[] gives an id that is not mapped the
\* frame 0.
MarkAsDirty(id) ==
    LET frame == IF id \in Pooled THEN page_table[id] ELSE 0
    IN  /\ page_table' = Put(page_table, id, frame)
        /\ is_dirty' = [is_dirty EXCEPT ![frame] = TRUE]

\* A write through the kept pointer, whatever is in its frame by now, with or
\* without a markAsDirty(id) after it.
WriteHeld(c, x, marks) ==
    /\ closing = -1
    /\ held[c] # NotHeld
    /\ LET id == held[c].page
           f == held[c].frame
       IN  /\ frames' = [frames EXCEPT ![f] = x]
           /\ IF marks THEN MarkAsDirty(id) ELSE UNCHANGED <<page_table, is_dirty>>
           /\ versions' = [versions EXCEPT ![id] = @ \cup {x}]
           /\ written' = IF marks /\ pages_ids[f] = id
                         THEN Given(id, x)
                         ELSE Erase(Erase(written, id), pages_ids[f])
    /\ UNCHANGED <<dm, pages_ids, free_frames_ids, lru, closing, held, others>>

\* A page that was not pooled was marked: two pages claim one frame.  The
\* behaviour is followed no further.
Mismarked == \E id \in Pooled : pages_ids[page_table[id]] # id

ClientsInit ==
    /\ Init
    /\ held = [c \in Clients |-> NotHeld]
    /\ others = [c \in Clients |-> {}]
    /\ written = [id \in {} |-> Blank]

ClientsNext ==
    /\ ~Mismarked
    /\ \/ \E id \in Pages : \/ OtherFetch(id)
                            \/ \E x \in Data : OtherUpdate(id, x)
                            \/ OtherDelete(id)
                            \/ \E c \in Clients : Hold(c, id)
       \/ OtherNewPage
       \/ \E c \in Clients, x \in Data, marks \in BOOLEAN : WriteHeld(c, x, marks)

ClientsSpec == ClientsInit /\ [][ClientsNext]_clientVars

-----------------------------------------------------------------------------
\* Client c has touched fewer pages than there are frames since its fetch.
InWindow(c) ==
    /\ held[c] # NotHeld
    /\ Cardinality(others[c]) < BUFFER_SIZE

\* The window: for as long as fewer other pages than frames were touched, the
\* pointer still leads to the frame of the page it was fetched for, whatever
\* the other callers write astray meanwhile.  This is all that stands in the
\* place of pins.
WindowIsSafe ==
    \A c \in Clients :
        InWindow(c) => /\ held[c].page \in Pooled
                       /\ page_table[held[c].page] = held[c].frame
                       /\ pages_ids[held[c].frame] = held[c].page

\* A write astray (the frame holds another page by now, or none, or the page is
\* not marked) costs the page that is in the frame and the page that was meant,
\* and no third one: every other page reads back what was last written to it,
\* in or out of the pool, by whichever caller.
AstrayHurtsTwo == \A id \in DOMAIN written : Visible(id) = written[id]

\* What pins would give: a write through a kept pointer changes the page it was
\* fetched for and no other one.
HeldWritesHitTheirPage ==
    [][\A c \in Clients, x \in Data, marks \in BOOLEAN :
           WriteHeld(c, x, marks) =>
               \A id \in Pages :
                   Visible(id)' = IF id = held[c].page THEN x
                                  ELSE Visible(id)]_clientVars
=============================================================================
