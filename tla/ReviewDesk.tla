------------------------------ MODULE ReviewDesk ------------------------------
(***************************************************************************)
(* Reviewers at work: the review page (app/api/review_ui.py) and the JSON  *)
(* API (app/api/review.py) over the queue's read side                      *)
(* (app/review/queries.py), with the pool both take connections from.      *)
(*                                                                         *)
(* A session is a browser tab or an API client, or somebody who uses both: *)
(* it is shown a field, posts a decision on it, however stale, and is      *)
(* answered.  A request that only reads uses a connection for one step; a  *)
(* decision keeps its own until it ends.  An error page of the UI that is  *)
(* rendered before its connection is back, of a refused decision or of a   *)
(* field that does not exist, needs a second one meanwhile.  Routing is    *)
(* one step here: module Review has its detail.                            *)
(***************************************************************************)
EXTENDS Naturals, FiniteSets

CONSTANTS
  Fields,       \* field_reviews rows, each named by its routing rank
  Tabs,         \* sessions that use /ui/review
  Programs,     \* sessions that call /review
  Diligent,     \* tabs that only ask for the next field and go on doing so
  Connections,  \* what the pool can hand out: pool_size + max_overflow
  Configured,   \* which of "user" and "pass" the auth settings give
  Holders,      \* sessions that send the configured credentials
  PageSize,     \* the limit a reader of GET /review/corrections uses
  NoField,
  NoSuchField   \* an id that no row has

Sessions == Tabs \cup Programs

ASSUME DeskAssumption ==
  /\ Fields \subseteq Nat /\ IsFiniteSet(Fields) /\ NoField \notin Fields
  /\ NoSuchField \notin Fields \cup {NoField}
  /\ Diligent \subseteq Tabs \ Programs /\ IsFiniteSet(Sessions)
  /\ Fields \cap Sessions = {}
  /\ Connections \in Nat \ {0} /\ PageSize \in Nat \ {0}
  /\ Configured \subseteq {"user", "pass"} /\ Holders \subseteq Sessions

VARIABLES
  state,     \* review_state of each row
  times,     \* which of these is no later than which: last_skipped_at of the queued
             \* rows, reviewed_at of the reviewed ones, now() of the open transactions
  page,      \* the field each session has in front of it when it is not waiting
  pc,        \* what each session's request waits for
  target,    \* the id its request is about
  intent,    \* the action it posted
  offset,    \* how far a reader of the corrections has come
  owed       \* what there was to read when it began and it has not read

rows == <<state, times>>
requests == <<pc, target, intent>>
feed == <<offset, owed>>
vars == <<rows, page, requests, feed>>

Init ==
  /\ state \in [Fields -> {"unreviewed", "routed"}]
  /\ times = {}
  /\ page = [s \in Sessions |-> NoField]
  /\ pc = [s \in Sessions |-> "idle"]
  /\ target = [s \in Sessions |-> NoField]
  /\ intent = [s \in Sessions |-> "none"]
  /\ offset = 0
  /\ owed = {}

-------------------------------------------------------------------------------
(* Order *)

\* Rows and transactions that have a time.
Stamped == {x \in Fields \cup Sessions : <<x, x>> \in times}

Earlier(x, y) == x # y /\ <<x, y>> \in times

\* x gets the present time, or loses the one it had.
With(x) == times \cup (Stamped \cup {x}) \X {x}

Without(x) == {p \in times : p[1] # x /\ p[2] # x}

Queue == {f \in Fields : state[f] = "routed"}

\* Mutant of Before: skipped fields last, by rank.
BeforeByRank(f, g) ==
  \/ f \notin Stamped /\ g \in Stamped
  \/ (f \in Stamped <=> g \in Stamped) /\ f < g

\* Never skipped before skipped; the former by rank, the latter by when they were
\* skipped.
Before(f, g) ==
  \/ f \notin Stamped /\ g \in Stamped
  \/ f \notin Stamped /\ g \notin Stamped /\ f < g
  \/ Earlier(f, g)

Upcoming ==
  IF Queue = {} THEN NoField
  ELSE CHOOSE f \in Queue : \A g \in Queue \ {f} : Before(f, g)

-------------------------------------------------------------------------------
(* The pool and the gate *)

\* Transactions of decisions.
Open == {s \in Sessions : pc[s] \in {"deciding", "applying", "complaining"}}

\* Requests that wait while they have a connection: these, and those for a page that
\* does not exist.
Connected == Open \cup {s \in Sessions : pc[s] = "missing"}

SomeFree == Cardinality(Connected) < Connections

\* A row is locked by the transaction that has refused to decide it and has an error
\* page to render.
Locked(f) == f \in Fields /\ \E s \in Sessions : pc[s] = "complaining" /\ target[s] = f

Admitted(s) ==
  \/ Configured = {}
  \/ Configured = {"user", "pass"} /\ s \in Holders

\* What a request names, if it exists.
FieldOf(s) == IF target[s] \in Fields THEN target[s] ELSE NoField

\* The request of s ends and s is left with field f in front of it.
Answer(s, f) ==
  /\ page' = [page EXCEPT ![s] = f]
  /\ pc' = [pc EXCEPT ![s] = "idle"]
  /\ target' = [target EXCEPT ![s] = NoField]
  /\ intent' = [intent EXCEPT ![s] = "none"]
  /\ UNCHANGED feed

-------------------------------------------------------------------------------
(* Reading *)

\* Ids that a request may name.
Ids == Fields \cup {NoSuchField}

\* GET /ui/review, and GET /ui/review/{id}.
AskNext(s) ==
  /\ s \in Tabs /\ pc[s] = "idle" /\ Admitted(s)
  /\ pc' = [pc EXCEPT ![s] = "asking"]
  /\ page' = [page EXCEPT ![s] = NoField]
  /\ UNCHANGED <<rows, target, intent, feed>>

AskFor(s, f) ==
  /\ s \in Tabs \ Diligent /\ pc[s] = "idle" /\ Admitted(s)
  /\ pc' = [pc EXCEPT ![s] = "asking"]
  /\ page' = [page EXCEPT ![s] = NoField]
  /\ target' = [target EXCEPT ![s] = f]
  /\ UNCHANGED <<rows, intent, feed>>

\* The field is chosen and loaded on one connection ...
LookUp(s) ==
  /\ pc[s] = "asking" /\ target[s] # NoSuchField /\ SomeFree
  /\ target' = [target EXCEPT ![s] = IF @ = NoField THEN Upcoming ELSE @]
  /\ pc' = [pc EXCEPT ![s] = "rendering"]
  /\ UNCHANGED <<rows, page, intent, feed>>

\* ... and the queue is counted on another, after the first is back in the pool.
Render(s) ==
  /\ pc[s] = "rendering" /\ SomeFree
  /\ Answer(s, FieldOf(s))
  /\ UNCHANGED rows

\* One that is not found is reported while the first connection is still in use.
Miss(s) ==
  /\ pc[s] = "asking" /\ target[s] = NoSuchField /\ SomeFree
  /\ pc' = [pc EXCEPT ![s] = "missing"]
  /\ UNCHANGED <<rows, page, target, intent, feed>>

\* GET /review/queue: some window of the queue, in which a program finds a field.
GetQueue(s, f) ==
  /\ s \in Programs /\ pc[s] = "idle" /\ Admitted(s) /\ SomeFree
  /\ f \in Queue
  /\ Answer(s, f)
  /\ UNCHANGED rows

\* GET /review/fields/{id}: any field; if there is none, 404 and nothing more.
GetField(s, f) ==
  /\ s \in Programs /\ pc[s] = "idle" /\ Admitted(s) /\ SomeFree
  /\ Answer(s, f)
  /\ UNCHANGED rows

\* GET /review/corrections?decision=all: LIMIT and OFFSET of the decisions, newest first.
Reviewed == {f \in Fields : state[f] = "reviewed"}

Newer(f) == {g \in Reviewed : Earlier(f, g)}

Window == {f \in Reviewed : Cardinality(Newer(f)) \in offset..(offset + PageSize - 1)}

\* A client reads it window by window until one is short, then starts again.
GetCorrections ==
  /\ SomeFree
  /\ owed' = (IF offset = 0 THEN Reviewed ELSE owed) \ Window
  /\ offset' = IF Cardinality(Window) < PageSize THEN 0 ELSE offset + PageSize
  /\ UNCHANGED <<rows, page, requests>>

-------------------------------------------------------------------------------
(* Deciding *)

\* "answer" is accept or correct; "bad" is one of them that is refused for what it
\* says: no reviewer, a correction that does not validate or is the model's value.
Actions == {"answer", "skip", "bad"}

\* A decision is about the field the session was shown; a URL that somebody made up names
\* one that does not exist, on which every decision is a bad one.
MayDecide(s, f, a) ==
  \/ f # NoField /\ f = page[s]
  \/ f = NoSuchField /\ s \notin Diligent /\ a = "bad"

\* The form of the page is posted (POST /ui/review/{id}) ...
Post(s, f, a) ==
  /\ s \in Tabs /\ pc[s] = "idle" /\ MayDecide(s, f, a) /\ Admitted(s)
  /\ pc' = [pc EXCEPT ![s] = "posting"]
  /\ page' = [page EXCEPT ![s] = NoField]
  /\ target' = [target EXCEPT ![s] = f]
  /\ intent' = [intent EXCEPT ![s] = a]
  /\ UNCHANGED <<rows, feed>>

\* ... with an action there is none of, which is answered by a page without a field, ...
PostOther(s) ==
  /\ s \in Tabs \ Diligent /\ pc[s] = "idle" /\ Admitted(s)
  /\ pc' = [pc EXCEPT ![s] = "rendering"]
  /\ page' = [page EXCEPT ![s] = NoField]
  /\ UNCHANGED <<rows, target, intent, feed>>

\* ... or a decision sent (POST /review/fields/{id}/decision).
Call(s, f, a) ==
  /\ s \in Programs /\ pc[s] = "idle" /\ MayDecide(s, f, a) /\ Admitted(s)
  /\ pc' = [pc EXCEPT ![s] = "calling"]
  /\ page' = [page EXCEPT ![s] = NoField]
  /\ target' = [target EXCEPT ![s] = f]
  /\ intent' = [intent EXCEPT ![s] = a]
  /\ UNCHANGED <<rows, feed>>

\* engine.begin() and the first statement: now() is this moment from here on.
BeginDecision(s) ==
  /\ pc[s] \in {"posting", "calling"} /\ SomeFree
  /\ times' = With(s)
  /\ pc' = [pc EXCEPT ![s] = IF @ = "posting" THEN "deciding" ELSE "applying"]
  /\ UNCHANGED <<state, page, target, intent, feed>>

\* Mutant of Acceptable: a reviewed field is decided again.
AcceptableAgain(s) ==
  /\ target[s] \in Fields
  /\ intent[s] # "bad"
  /\ intent[s] = "skip" => state[target[s]] = "routed"

Acceptable(s) ==
  /\ target[s] \in Fields /\ state[target[s]] # "reviewed"
  /\ intent[s] # "bad"
  /\ intent[s] = "skip" => state[target[s]] = "routed"

\* The field takes the time of the transaction in place of any it had.
Restamp(s, f) ==
  LET of(x) == IF x = f THEN s ELSE x
      timed == (Stamped \ {s}) \cup {f}
  IN times' = {p \in timed \X timed : <<of(p[1]), of(p[2])>> \in times}

\* The row is read under its lock, updated and committed; a tab is redirected to the
\* next field.
Decide(s) ==
  /\ pc[s] \in {"deciding", "applying"} /\ ~Locked(target[s]) /\ Acceptable(s)
  /\ Restamp(s, target[s])
  /\ state' = IF intent[s] = "skip" THEN state
              ELSE [state EXCEPT ![target[s]] = "reviewed"]
  /\ pc' = [pc EXCEPT ![s] = IF @ = "deciding" THEN "asking" ELSE "idle"]
  /\ target' = [target EXCEPT ![s] = NoField]
  /\ intent' = [intent EXCEPT ![s] = "none"]
  /\ UNCHANGED <<page, feed>>

\* Mutant of RefuseCall: the transaction is left open.
RefuseCallLeaving(s) ==
  /\ pc[s] = "applying" /\ ~Locked(target[s]) /\ ~Acceptable(s)
  /\ Answer(s, FieldOf(s))
  /\ UNCHANGED rows

\* An error of the API rolls back and is answered, and the client has its field still.
RefuseCall(s) ==
  /\ pc[s] = "applying" /\ ~Locked(target[s]) /\ ~Acceptable(s)
  /\ times' = Without(s)
  /\ Answer(s, FieldOf(s))
  /\ UNCHANGED state

\* An error of the UI is rendered inside the transaction, which keeps the row locked if
\* there is one.
RefusePost(s) ==
  /\ pc[s] = "deciding" /\ ~Locked(target[s]) /\ ~Acceptable(s)
  /\ pc' = [pc EXCEPT ![s] = "complaining"]
  /\ UNCHANGED <<rows, page, target, intent, feed>>

\* The second connection counts the queue; the page shows the same field again, if any.
Complain(s) ==
  /\ pc[s] \in {"missing", "complaining"} /\ SomeFree
  /\ times' = Without(s)
  /\ Answer(s, FieldOf(s))
  /\ UNCHANGED state

\* Mutant of TimeOut: an error page waits for its connection for ever.
TimeOutUnlessComplaining(s) ==
  /\ pc[s] \in {"asking", "rendering", "posting", "calling"} /\ ~SomeFree
  /\ times' = Without(s)
  /\ Answer(s, NoField)
  /\ UNCHANGED state

\* No connection for pool_timeout (30 s): the request fails, and with it its
\* transaction.
TimeOut(s) ==
  /\ pc[s] \in {"asking", "missing", "rendering", "posting", "calling", "complaining"}
  /\ ~SomeFree
  /\ times' = Without(s)
  /\ Answer(s, NoField)
  /\ UNCHANGED state

-------------------------------------------------------------------------------

\* A routing pass reaches the row.
Route(f) ==
  /\ state[f] = "unreviewed" /\ ~Locked(f)
  /\ state' = [state EXCEPT ![f] = "routed"]
  /\ UNCHANGED <<times, page, requests, feed>>

Decision(s) == Decide(s) \/ RefuseCall(s) \/ RefusePost(s)

Serve(s) ==
  \/ LookUp(s) \/ Miss(s) \/ Render(s)
  \/ BeginDecision(s) \/ Decision(s) \/ Complain(s) \/ TimeOut(s)

Next ==
  \/ \E s \in Sessions :
       \/ AskNext(s) \/ PostOther(s)
       \/ \E f \in Fields : GetQueue(s, f) \/ GetField(s, f)
       \/ \E f \in Ids : AskFor(s, f) \/ \E a \in Actions : Post(s, f, a) \/ Call(s, f, a)
       \/ Serve(s)
  \/ GetCorrections
  \/ \E f \in Fields : Route(f)

Spec == Init /\ [][Next]_vars

\* The server finishes what it has begun, and the database hands a freed row to a
\* transaction that waits for it.
ServerFairness ==
  \A s \in Sessions : WF_vars(Serve(s)) /\ SF_vars(Decision(s))

\* A diligent reviewer asks and answers again and again, and the pool, which serves
\* its waiters in turn, does not time out every one of their requests.
DiligentFairness ==
  \A s \in Diligent :
    /\ SF_vars(AskNext(s)) /\ SF_vars(\E a \in Actions \ {"bad"} : Post(s, page[s], a))
    /\ SF_vars(LookUp(s)) /\ SF_vars(Render(s)) /\ SF_vars(BeginDecision(s))

FairSpec == Spec /\ ServerFairness /\ DiligentFairness

-------------------------------------------------------------------------------

\* Rows, requests and the reader hold what they are declared to; a session has a
\* transaction while a decision of its own is going on, one at a time, and no more
\* connections are held than the pool has (engine.py; review_ui.py).
TypeOK ==
  /\ state \in [Fields -> {"unreviewed", "routed", "reviewed"}]
  /\ times \subseteq Stamped \X Stamped
  /\ \A x, y \in Stamped : Earlier(x, y) \/ Earlier(y, x) <=> x # y
  /\ Stamped \cap Sessions = Open
  /\ page \in [Sessions -> Fields \cup {NoField}]
  /\ pc \in [Sessions -> {"idle", "asking", "missing", "rendering", "posting", "calling",
                          "deciding", "applying", "complaining"}]
  /\ target \in [Sessions -> Ids \cup {NoField}]
  /\ intent \in [Sessions -> Actions \cup {"none"}]
  /\ offset \in Nat /\ owed \subseteq Fields
  /\ Cardinality(Connected) <= Connections

\* Error pages that wait for a second connection while they hold one, of a field that does
\* not exist or of a refused decision, which holds its row as well, and decisions that wait
\* for that row, all come to an end (review_ui.py: _render called inside engine.connect()
\* and engine.begin()).
RequestsEnd == \A s \in Sessions : pc[s] # "idle" ~> pc[s] = "idle"

\* "Skip means show me everything else first": with a reviewer who keeps working, a
\* queued field is shown to somebody sooner or later, whatever is skipped, routed and
\* decided meanwhile and however stale the pages are it is done from (queries.py).
QueuedFieldsAreShown ==
  \A f \in Fields :
    state[f] = "routed" ~> \/ state[f] = "reviewed"
                           \/ \E s \in Sessions : page[s] = f \/ target[s] = f

\* A reader of the corrections that has come to the end has read every decision there
\* was when it began, although decisions move the windows meanwhile (queries.py:
\* list_reviewed, "every human decision").
CorrectionsAreComplete == offset = 0 => owed = {}
===============================================================================
