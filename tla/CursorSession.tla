---------------------------- MODULE CursorSession ----------------------------
(***************************************************************************)
(* The cursors of one DB API connection (flightsql/dbapi.py) and the       *)
(* prepared statements they run (flightsql/client.py), against a server    *)
(* that keeps the bound parameters on the statement's handle or returns a  *)
(* new handle that carries them.  Each RPC of a call is a step and may     *)
(* fail; a call closes its statement however it ends.                      *)
(*                                                                         *)
(* The connection runs one call at a time.  A statement runs when its      *)
(* ticket is redeemed.                                                     *)
(***************************************************************************)
EXTENDS Naturals, Sequences, SequencesExt

CONSTANTS Cursor,
          Value,        \* nonempty parameter tuples
          Empty,        \* the empty parameter tuple
          NoValue,      \* a handle without bound parameters; a plain statement
          Batches,      \* the parameter lists handed to executemany
          MaxCalls,     \* bound: calls of execute and executemany
          MaxRows       \* bound: rows of a result

ASSUME ConstantsAssumption ==
  /\ Empty \notin Value /\ NoValue \notin Value /\ Empty # NoValue
  /\ Batches \subseteq Seq(Value \cup {Empty})
  /\ MaxCalls \in Nat /\ MaxRows \in Nat

VARIABLES
  rebinds,      \* server: DoPut answers with a new handle
  bound,        \* server: parameters bound to each handle it has issued
  open,         \* server: handles not closed
  ran,          \* server: the parameters this call's statement ran with
  live,         \* the connection is not closed
  made,         \* the connection's list of cursors
  closed,       \* cursors closed
  rows,         \* Cursor._results
  described,    \* Cursor.description is set
  iter,         \* the last iterator made over each cursor: the list it walks,
                \* its position, and whether that is the cursor's own list
  cur, pc,      \* the cursor that executes and its next RPC
  many,         \* executemany
  params,       \* parameters still to run
  handle,       \* PreparedStatement.handle
  failing,      \* an exception is on its way out of the with block
  outcome,      \* how the last operation ended
  calls,        \* history: calls so far
  latest,       \* history: the last call on each cursor
  asked,        \* history: the parameters of the call
  full, taken,  \* history: the rows of a result, and those fetched
  walk,         \* history: what an iterator began with and has handed out, and
                \* whether a fetchone took a row from its list
  unclosed      \* history: a close request failed, or a statement never came back

server  == <<rebinds, bound, open, ran>>
session == <<live, made, closed>>
call    == <<cur, many, params, handle, failing, asked>>
result  == <<rows, described, iter, full, taken, walk>>
vars == <<rebinds, bound, open, ran, live, made, closed, rows, described, iter,
          cur, pc, many, params, handle, failing, outcome, calls, latest, asked,
          full, taken, walk, unclosed>>

Init ==
  /\ rebinds \in BOOLEAN
  /\ bound = <<>> /\ open = {} /\ ran = <<>>
  /\ live = TRUE /\ made = {} /\ closed = {}
  /\ rows = [c \in Cursor |-> <<>>] /\ described = [c \in Cursor |-> FALSE]
  /\ cur \in Cursor /\ pc = "idle" /\ many = FALSE /\ params = <<>>
  /\ handle = 0 /\ failing = FALSE /\ outcome = "none"
  /\ calls = 0 /\ latest = [c \in Cursor |-> 0] /\ asked = <<>>
  /\ full = [c \in Cursor |-> <<>>] /\ taken = [c \in Cursor |-> <<>>]
  /\ iter = [c \in Cursor |-> [list |-> <<>>, pos |-> 0, own |-> FALSE]]
  /\ walk = [c \in Cursor |-> [over |-> <<>>, given |-> <<>>, popped |-> FALSE]]
  /\ unclosed = FALSE

Usable(c) == pc = "idle" /\ c \in made /\ c \notin closed

-----------------------------------------------------------------------------
(* Connection *)

NewCursor(c) ==
  /\ pc = "idle" /\ live /\ c \notin made
  /\ made' = made \cup {c}
  /\ outcome' = "returned"
  /\ UNCHANGED <<server, live, closed, pc, call, result, calls, latest, unclosed>>

CloseCursor(c) ==
  /\ Usable(c)
  /\ closed' = closed \cup {c}
  /\ outcome' = "returned"
  /\ UNCHANGED <<server, live, made, pc, call, result, calls, latest, unclosed>>

\* The cursors that close with the connection: those on its list.
ClosedWithNone == closed
ClosedWith == closed \cup made

CloseConnection ==
  /\ pc = "idle" /\ live
  /\ live' = FALSE /\ closed' = ClosedWith
  /\ outcome' = "returned"
  /\ UNCHANGED <<server, made, pc, call, result, calls, latest, unclosed>>

\* check_closed: any use of a closed cursor raises.
UseClosed(c) ==
  /\ pc = "idle" /\ c \in closed
  /\ outcome' = "raised"
  /\ UNCHANGED <<server, session, pc, call, result, calls, latest, unclosed>>

-----------------------------------------------------------------------------
(* Execution *)

\* The cursor has another list of rows; an iterator keeps the one it walks.
ReplacedInPlace(c, new) ==
  /\ rows' = [rows EXCEPT ![c] = new]
  /\ iter' = [iter EXCEPT ![c].list = IF iter[c].own THEN new ELSE @]
Replaced(c, new) == /\ rows' = [rows EXCEPT ![c] = new]
                    /\ iter' = [iter EXCEPT ![c].own = FALSE]

\* execute and executemany first drop the previous description and rows.
ClearedOnly(c) == described' = [described EXCEPT ![c] = FALSE] /\ UNCHANGED <<rows, iter>>
Cleared(c) == /\ described' = [described EXCEPT ![c] = FALSE]
              /\ Replaced(c, <<>>)

\* A call with the list ps; without parameters it is a plain statement.
Begin(c, ps, m) ==
  /\ Usable(c) /\ calls < MaxCalls
  /\ Cleared(c)
  /\ cur' = c /\ many' = (m /\ ps # <<>>) /\ params' = ps
  /\ pc' = IF ps = <<>> THEN "info" ELSE "prepare"
  /\ handle' = 0 /\ failing' = FALSE /\ outcome' = "none" /\ ran' = <<>>
  /\ calls' = calls + 1 /\ latest' = [latest EXCEPT ![c] = calls + 1]
  /\ asked' = IF ps = <<>> THEN <<NoValue>> ELSE ps
  /\ full' = [full EXCEPT ![c] = <<>>] /\ taken' = [taken EXCEPT ![c] = <<>>]
  /\ UNCHANGED <<rebinds, bound, open, session, walk, unclosed>>

Execute(c) == \/ Begin(c, <<>>, FALSE)
              \/ \E v \in Value : Begin(c, <<v>>, FALSE)
ExecuteMany(c) == \E ps \in Batches : Begin(c, ps, TRUE)

Prepare ==
  /\ pc = "prepare"
  /\ bound' = Append(bound, NoValue)
  /\ handle' = Len(bound')
  /\ open' = open \cup {handle'}
  /\ pc' = "bind"
  /\ UNCHANGED <<rebinds, ran, session, result, cur, many, params, failing, asked,
                 outcome, calls, latest, unclosed>>

\* The statement runs the handle DoPut returned, if it returned one.
NextHandleOld(returned) == handle
NextHandle(returned) == IF returned = 0 THEN handle ELSE returned

\* PreparedStatement.execute: a record without rows is not put.
Bind ==
  /\ pc = "bind"
  /\ LET v == Head(params)  fresh == Len(bound) + 1 IN
     \/ /\ v = Empty
        /\ UNCHANGED <<bound, open, handle>>
     \/ /\ v # Empty /\ ~rebinds
        /\ bound' = [bound EXCEPT ![handle] = v]
        /\ handle' = NextHandle(0)
        /\ UNCHANGED open
     \/ /\ v # Empty /\ rebinds
        /\ bound' = Append(bound, v)
        /\ handle' = NextHandle(fresh)
        /\ open' = open \cup {fresh}
  /\ pc' = "info"
  /\ UNCHANGED <<rebinds, ran, session, result, cur, many, params, failing, asked,
                 outcome, calls, latest, unclosed>>

\* GetFlightInfo.
Info ==
  /\ pc = "info"
  /\ pc' = "get"
  /\ UNCHANGED <<server, session, result, call, outcome, calls, latest, unclosed>>

\* DoGet and read_all; the server runs the statement.  executemany discards
\* the rows and goes on with the next parameters.
Get ==
  /\ pc = "get"
  /\ ran' = Append(ran, IF handle = 0 THEN NoValue ELSE bound[handle])
  /\ \/ /\ many
        /\ params' = Tail(params)
        /\ pc' = IF params' = <<>> THEN "close" ELSE "bind"
        /\ UNCHANGED <<result, outcome>>
     \/ /\ ~many
        /\ \E n \in 0..MaxRows :
             LET new == [k \in 1..n |-> <<calls, k>>] IN
             /\ Replaced(cur, new)
             /\ full' = [full EXCEPT ![cur] = new]
        /\ described' = [described EXCEPT ![cur] = TRUE]
        /\ params' = <<>>
        /\ pc' = IF handle = 0 THEN "idle" ELSE "close"
        /\ outcome' = IF handle = 0 THEN "returned" ELSE outcome
        /\ UNCHANGED <<taken, walk>>
  /\ UNCHANGED <<rebinds, bound, open, session, cur, many, handle, failing, asked,
                 calls, latest, unclosed>>

\* The server did what it was asked, and its answer was lost.
Unanswered ==
  \/ /\ pc = "prepare"
     /\ bound' = Append(bound, NoValue) /\ open' = open \cup {Len(bound')}
     /\ unclosed' = TRUE
     /\ UNCHANGED ran
  \/ /\ pc = "bind" /\ Head(params) # Empty
     /\ IF rebinds THEN /\ bound' = Append(bound, Head(params))
                        /\ open' = open \cup {Len(bound')}
                   ELSE /\ bound' = [bound EXCEPT ![handle] = Head(params)]
                        /\ UNCHANGED open
     /\ UNCHANGED <<ran, unclosed>>
  \/ /\ pc = "get"
     /\ ran' = Append(ran, IF handle = 0 THEN NoValue ELSE bound[handle])
     /\ UNCHANGED <<bound, open, unclosed>>

\* A request, the parameter record or the conversion of a result fails: the
\* statement, if there is one, is closed on the way out.
AfterFailureAbandon == "idle"
AfterFailure == IF handle = 0 THEN "idle" ELSE "close"

Fail ==
  /\ pc \in {"prepare", "bind", "info", "get"}
  /\ failing' = TRUE
  /\ pc' = AfterFailure
  /\ outcome' = IF pc' = "idle" THEN "raised" ELSE outcome
  /\ UNCHANGED <<rebinds, session, result, cur, many, params, handle, asked, calls, latest>>
  /\ \/ UNCHANGED <<bound, open, ran, unclosed>>
     \/ Unanswered

\* PreparedStatement.close, leaving the with block.
CloseStatement ==
  /\ pc = "close"
  /\ pc' = "idle"
  /\ \/ /\ open' = open \ {handle}
        /\ outcome' = IF failing THEN "raised" ELSE "returned"
        /\ UNCHANGED unclosed
     \/ /\ unclosed' = TRUE
        /\ outcome' = "raised"
        /\ UNCHANGED open
  /\ UNCHANGED <<rebinds, bound, ran, session, result, call, calls, latest>>

-----------------------------------------------------------------------------
(* Results *)

\* fetchone takes the first row out of the list.
FetchOne(c) ==
  /\ Usable(c)
  /\ \/ /\ rows[c] = <<>>
        /\ UNCHANGED <<rows, iter, taken, walk>>
     \/ /\ rows[c] # <<>>
        /\ taken' = [taken EXCEPT ![c] = Append(@, Head(rows[c]))]
        /\ rows' = [rows EXCEPT ![c] = Tail(@)]
        /\ iter' = [iter EXCEPT ![c].list = IF iter[c].own THEN Tail(@) ELSE @]
        /\ walk' = [walk EXCEPT ![c].popped = @ \/ iter[c].own]
  /\ outcome' = "returned"
  /\ UNCHANGED <<server, session, pc, call, described, full, calls, latest, unclosed>>

\* fetchmany takes n rows, fetchall all that remain: the cursor has a new list.
LeftAfterOff(s, n) == SubSeq(s, n + 2, Len(s))
LeftAfter(s, n) == SubSeq(s, n + 1, Len(s))

FetchMany(c, n) ==
  /\ Usable(c)
  /\ taken' = [taken EXCEPT ![c] =
                 @ \o SubSeq(rows[c], 1, IF n < Len(rows[c]) THEN n ELSE Len(rows[c]))]
  /\ Replaced(c, LeftAfter(rows[c], n))
  /\ outcome' = "returned"
  /\ UNCHANGED <<server, session, pc, call, described, full, walk, calls, latest, unclosed>>

\* iter(cursor).
Iterate(c) ==
  /\ Usable(c)
  /\ iter' = [iter EXCEPT ![c] = [list |-> rows[c], pos |-> 0, own |-> TRUE]]
  /\ walk' = [walk EXCEPT ![c] = [over |-> rows[c], given |-> <<>>, popped |-> FALSE]]
  /\ outcome' = "returned"
  /\ UNCHANGED <<server, session, pc, call, rows, described, full, taken, calls, latest,
                 unclosed>>

\* The iterator asks nobody whether the cursor is closed or has executed again.
NextRow(c) ==
  /\ pc = "idle" /\ iter[c].pos < Len(iter[c].list)
  /\ iter' = [iter EXCEPT ![c].pos = @ + 1]
  /\ walk' = [walk EXCEPT ![c].given = Append(@, iter[c].list[iter[c].pos + 1])]
  /\ UNCHANGED <<server, session, pc, call, rows, described, full, taken, outcome, calls,
                 latest, unclosed>>

Next ==
  \/ \E c \in Cursor : \/ NewCursor(c) \/ CloseCursor(c) \/ UseClosed(c)
                       \/ Execute(c) \/ ExecuteMany(c)
                       \/ FetchOne(c) \/ Iterate(c) \/ NextRow(c)
                       \/ \E n \in 1..MaxRows : FetchMany(c, n)
  \/ CloseConnection
  \/ Prepare \/ Bind \/ Info \/ Get \/ Fail \/ CloseStatement

Spec == Init /\ [][Next]_vars

-----------------------------------------------------------------------------
(* Properties *)

\* A row of a result: the call that produced it and its number there.
Row == (1..MaxCalls) \X (1..MaxRows)

PCs == {"idle", "prepare", "bind", "info", "get", "close"}

TypeOK ==
  /\ rebinds \in BOOLEAN
  /\ bound \in Seq(Value \cup {NoValue})
  /\ open \subseteq 1..Len(bound)
  /\ ran \in Seq(Value \cup {NoValue})
  /\ live \in BOOLEAN /\ made \subseteq Cursor /\ closed \subseteq made
  /\ rows \in [Cursor -> Seq(Row)] /\ full \in [Cursor -> Seq(Row)]
  /\ taken \in [Cursor -> Seq(Row)]
  /\ iter \in [Cursor -> [list : Seq(Row), pos : Nat, own : BOOLEAN]]
  /\ walk \in [Cursor -> [over : Seq(Row), given : Seq(Row), popped : BOOLEAN]]
  /\ described \in [Cursor -> BOOLEAN]
  /\ cur \in Cursor /\ pc \in PCs /\ many \in BOOLEAN
  /\ params \in Seq(Value \cup {Empty})
  /\ handle \in 0..Len(bound) /\ failing \in BOOLEAN
  /\ outcome \in {"none", "returned", "raised"}
  /\ calls \in 0..MaxCalls /\ latest \in [Cursor -> 0..MaxCalls]
  /\ asked \in Seq(Value \cup {Empty, NoValue})
  /\ unclosed \in BOOLEAN

\* The server runs the statement with the parameters of the call, one tuple
\* after the other, also when every put returns another handle and whichever
\* request fails; all of them if the call returns.
RunsWhatWasAsked ==
  /\ IsPrefix(ran, asked)
  /\ pc = "close" /\ ~failing => ran = asked

\* Fetches hand out the rows of a result once each and in order, however they
\* are mixed.
FetchedInOrder == \A c \in Cursor : pc = "idle" => taken[c] \o rows[c] = full[c]

\* An iterator hands out rows of the list it began with, in order and none
\* twice, also when the cursor is fetched from, executes again or is closed
\* meanwhile; and every one of them, unless fetchone shortens its list.
IteratesInOrder ==
  \A c \in Cursor :
     /\ \A k \in DOMAIN walk[c].given : walk[c].given[k] \in Range(walk[c].over)
     /\ \A j, k \in DOMAIN walk[c].given :
           j < k => walk[c].given[j][2] < walk[c].given[k][2]
     /\ ~walk[c].popped =>
           walk[c].given \o SubSeq(iter[c].list, iter[c].pos + 1, Len(iter[c].list))
             = walk[c].over

\* Rows of an earlier call never survive the next one, also when that fails or
\* only another cursor has executed since.
NoStaleRows ==
  \A c \in Cursor : \A k \in DOMAIN rows[c] : rows[c][k][1] = latest[c]

\* A call leaves no statement behind on a server that binds in place, unless
\* the close request itself fails or the answer to prepare is lost.
StatementsAreClosed == pc = "idle" /\ ~rebinds /\ ~unclosed => open = {}

\* Every use of a closed connection's cursors raises, and only an open
\* connection makes cursors: nothing executes after close.
NothingRunsAfterClose == [][~live => UNCHANGED <<ran, rows, made>>]_vars
=============================================================================
