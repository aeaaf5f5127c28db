-------------------------------- MODULE Reads --------------------------------
(***************************************************************************)
(* The answers the server puts together from several queries, while other  *)
(* requests write (repository/base.go, repository/security.go): a client   *)
(* that reads a list page by page, and the audit summary, which comes from *)
(* five queries.                                                           *)
(*                                                                         *)
(* A row is its id and the time it is sorted by, which is taken before the *)
(* write commits; so rows may tie, and one may appear below a newer one.   *)
(* Left out: page numbers that overflow, and the total of a page, which is *)
(* counted before its rows are read and so says nothing of them.  To       *)
(* search or to filter by status is to read the rows that match.           *)
(***************************************************************************)
EXTENDS Integers, SequencesExt

CONSTANTS Id,             \* ids of rows
          ActionOf,       \* the action of each id, if it is an audit entry
          ActorOf,        \* its actor
          Asked,          \* page sizes a client may ask for
          DefaultSize,    \* the page size when none is asked for (20)
          MaxSize,        \* the largest page size (100)
          AskedWindow,    \* windows a summary may be asked for
          DefaultWindow,  \* 24 hours
          MaxWindow,      \* 90 days
          MaxClock        \* bound: the last moment

ASSUME ReadsAssumption ==
  /\ Id \subseteq Nat \ {0} /\ IsFiniteSet(Id) /\ Asked \subseteq Int /\ AskedWindow \subseteq Int
  /\ MaxSize \in Nat /\ DefaultSize \in 1..MaxSize
  /\ MaxWindow \in Nat /\ DefaultWindow \in 1..MaxWindow
  /\ MaxClock \in Nat \ {0}

VARIABLES now,      \* the clock of the servers
          stamp,    \* the time each row is sorted by; 0: not in the list
          client,   \* the reading client
          touched,  \* history: rows written since it began
          left      \* history: has a row left the list since it began?

vars == <<now, stamp, client, touched, left>>

Present == {r \in Id : stamp[r] > 0}

-----------------------------------------------------------------------------
(* What is asked for, and in which order it comes. *)

\* Fault: only sizes that are too large are replaced.
bindPageAnySize(size) == IF size > MaxSize THEN DefaultSize ELSE size

\* The handler's idea of the page size ...
bindPage(size) == IF size \in 1..MaxSize THEN size ELSE DefaultSize

\* ... and the repository's.
normalizePage(size) ==
  IF size < 1 THEN DefaultSize ELSE IF size > MaxSize THEN MaxSize ELSE size

Limit == normalizePage(bindPage(client.asked))

\* The page size the answer names: Audits repeats what it asked the repository
\* for, the lists of records what the repository made of it.
Named == IF client.reads = "audits" THEN bindPage(client.asked) ELSE Limit

\* Fault: records are sorted by time alone.
BeforeUntied(r, s) == stamp[r] > stamp[s]

\* updated_at DESC, id DESC for records; created_at DESC alone for audits.
Before(r, s) ==
  \/ stamp[r] > stamp[s]
  \/ client.reads = "records" /\ stamp[r] = stamp[s] /\ r > s

\* The orders the database may return the rows in.
Orders ==
  {o \in SetToSeqs(Present) : \A i, j \in DOMAIN o : Before(o[i], o[j]) => i < j}

PageOf(order) ==
  {order[i] : i \in DOMAIN order \cap ((client.page - 1) * Limit + 1)..(client.page * Limit)}

\* How far back a summary goes.
Window(hours) ==
  IF hours < 1 THEN DefaultWindow ELSE IF hours > MaxWindow THEN MaxWindow ELSE hours

-----------------------------------------------------------------------------
\* The actions a summary may count; a transition is one.
Action == {"transition"} \cup {ActionOf[r] : r \in Id}

ListReader ==
  [reads : {"records", "audits"}, pc : {"find", "done"}, asked : Asked,
   page : 1..(Cardinality(Id) + 1), seen : SUBSET Id]

\* pc is the next query of SummarizeAudits.  Of the counts by entity type the
\* sum is kept; an action that is not listed has been counted 0 times.
SummaryReader ==
  [reads : {"summary"}, pc : {"total", "transitions", "actors", "actions", "entityTypes", "done"},
   since : Int, total : Nat, transitions : Nat, actors : Nat, actions : [Action -> Nat],
   entityTypes : Nat]

TypeOK ==
  /\ now     \in 1..MaxClock
  /\ stamp   \in [Id -> 0..now]
  /\ IF client.reads = "summary" THEN client \in SummaryReader ELSE client \in ListReader
  /\ touched \subseteq Id
  /\ left    \in BOOLEAN

\* A client begins to read whatever is there.
Init ==
  /\ now   \in 1..MaxClock
  /\ stamp \in [Id -> 0..now]
  /\ client \in
       [reads : {"records", "audits"}, pc : {"find"}, asked : Asked, page : {1}, seen : {{}}]
       \cup
       [reads : {"summary"}, pc : {"total"}, since : {now - Window(h) : h \in AskedWindow},
        total : {0}, transitions : {0}, actors : {0}, actions : {[a \in Action |-> 0]},
        entityTypes : {0}]
  /\ touched = {}
  /\ left    = FALSE

\* The next page (List, ListAudits).  The client goes on until one is not full;
\* a page that could not be read it asks for again.
Find ==
  /\ client.pc = "find"
  /\ \E o \in Orders :
       LET listed == client.seen \cup PageOf(o) IN
       client' = IF Cardinality(PageOf(o)) < Named
                 THEN [client EXCEPT !.pc = "done", !.seen = listed]
                 ELSE [client EXCEPT !.seen = listed, !.page = @ + 1]
  /\ UNCHANGED <<now, stamp, touched, left>>

\* Fault: every query computes the start of the window anew.
InWindowMoving == {r \in Present : stamp[r] >= now - 1}

InWindow == {r \in Present : stamp[r] >= client.since}

Having(action) == {r \in InWindow : ActionOf[r] = action}

\* SummarizeAudits, query by query, each into its field of the summary.
Summarize ==
  /\ \/ /\ client.pc = "total"
        /\ client' = [client EXCEPT !.pc = "transitions", !.total = Cardinality(InWindow)]
     \/ /\ client.pc = "transitions"
        /\ client' = [client EXCEPT !.pc = "actors",
                                    !.transitions = Cardinality(Having("transition"))]
     \/ /\ client.pc = "actors"
        /\ client' = [client EXCEPT !.pc = "actions",
                                    !.actors = Cardinality({ActorOf[r] : r \in InWindow})]
     \/ /\ client.pc = "actions"
        /\ client' = [client EXCEPT !.pc = "entityTypes",
                                    !.actions = [a \in Action |-> Cardinality(Having(a))]]
     \/ /\ client.pc = "entityTypes"
        /\ client' = [client EXCEPT !.pc = "done", !.entityTypes = Cardinality(InWindow)]
  /\ UNCHANGED <<now, stamp, touched, left>>

-----------------------------------------------------------------------------
(* Other requests. *)

\* A record is created or changed, or an audit entry is appended.
Write(r) ==
  /\ client.reads # "records" => stamp[r] = 0
  /\ \E t \in 1..now : t >= stamp[r] /\ stamp' = [stamp EXCEPT ![r] = t]
  /\ touched' = touched \cup {r}
  /\ UNCHANGED <<now, client, left>>

\* A record is deleted or no longer matches.
Leave(r) ==
  /\ client.reads = "records" /\ stamp[r] > 0
  /\ stamp' = [stamp EXCEPT ![r] = 0]
  /\ left' = TRUE
  /\ UNCHANGED <<now, client, touched>>

Tick ==
  /\ now < MaxClock
  /\ now' = now + 1
  /\ UNCHANGED <<stamp, client, touched, left>>

Next ==
  \/ Find \/ Summarize \/ Tick
  \/ \E r \in Id : Write(r) \/ Leave(r)

Spec == Init /\ [][Next]_vars

-----------------------------------------------------------------------------
(* Properties. *)

\* Audit entries of the same moment come in any order, in another one for each page.
Placed(r) == client.reads = "records" \/ \A s \in Present \ {r} : stamp[s] # stamp[r]

\* Reading page by page misses no row that was there all the time, however
\* many rows are created or changed (and so move to the front) between two
\* pages and whatever size was asked for; unless a row has left the list
\* (the order of List, with its id for a tie; bindPage, normalizePage).
UntouchedIsListed ==
  client.reads # "summary" /\ client.pc = "done" /\ ~left =>
    \A r \in Present \ touched : Placed(r) => r \in client.seen

\* What numbers add up to: the size of a set that has f[a] elements for each a.
Sum(f) == Cardinality(UNION {{a} \X (1..f[a]) : a \in DOMAIN f})

\* The parts of a summary, read one after the other, only disagree by what was
\* written in between: no part is short of what was counted before it
\* (SummarizeAudits, its order and its fixed start of the window).
SummaryAddsUp ==
  client.reads = "summary" /\ client.pc = "done" =>
    /\ client.total <= Sum(client.actions)
    /\ client.transitions <= client.actions["transition"]
    /\ client.actors <= Sum(client.actions)
    /\ Sum(client.actions) <= client.entityTypes

-----------------------------------------------------------------------------
(* Why they hold. *)

Above(r) == {s \in Present : Before(s, r)}

\* A row not seen yet is below the pages that were read: it was there when they
\* were, and writes only push it down.  When the last page is read there is no
\* place left for it.
UnseenIsAhead ==
  client.reads # "summary" /\ ~left =>
    \A r \in Present \ touched : Placed(r) /\ r \notin client.seen =>
      client.pc = "find" /\ Cardinality(Above(r)) >= (client.page - 1) * Limit

\* The entries in the window only become more, so what was counted of them is
\* never more than there are.
SummaryIsBehind ==
  client.reads = "summary" =>
    /\ client.total <= Cardinality(InWindow) /\ client.actors <= Cardinality(InWindow)
    /\ client.transitions <= Cardinality(Having("transition"))
    /\ Sum(client.actions) <= Cardinality(InWindow)
    /\ client.pc \in {"entityTypes", "done"} =>
         /\ client.total <= Sum(client.actions) /\ client.actors <= Sum(client.actions)
         /\ client.transitions <= client.actions["transition"]
    /\ client.pc = "done" => Sum(client.actions) <= client.entityTypes

IInv == TypeOK /\ UnseenIsAhead /\ SummaryIsBehind
=============================================================================
