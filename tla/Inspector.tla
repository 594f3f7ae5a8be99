------------------------------ MODULE Inspector ------------------------------
(***************************************************************************)
(* The battle inspector (battle_inspector.py) between the connection       *)
(* threads and their sockets: while it is armed a reply is queued for the  *)
(* operator instead of being sent, and the operator's HTTP thread sends it *)
(* later on the same socket.  Two locks matter, the inspector's own _lock  *)
(* and the send lock of each connection around its RC4 stream.             *)
(*                                                                         *)
(* A reply is its number on its connection, a frame is the reply it        *)
(* belongs to and the place of the keystream it was encrypted at; a        *)
(* heartbeat is reply 0.  Left out: the history, the views and patch,      *)
(* which changes a payload and nothing of this.                            *)
(***************************************************************************)
EXTENDS Integers, SequencesExt

CONSTANTS
  Conns,       \* connections, each served by one thread
  Operator,    \* the HTTP thread
  Nobody,
  ReplyMax,    \* bound: replies a connection computes
  Frames,      \* messages of a reply
  ArmMax       \* bound: times the operator arms

InspectorAssumption ==
  /\ Operator \notin Conns /\ Nobody \notin Conns \cup {Operator}
  /\ ReplyMax \in Nat /\ Frames \in Nat \ {0} /\ ArmMax \in Nat
ASSUME InspectorAssumption

VARIABLES
  armed,
  pending,   \* _pending: entries not yet released
  lock,      \* who holds _lock
  thread,    \* [connection or operator -> what it is doing]
  open,      \* [connection -> its socket is open]
  cipher,    \* [connection -> place of the server's keystream]
  line,      \* [connection -> who is in its send lock]
  wire,      \* [connection -> frames the client has received]
  computed,  \* [connection -> answers so far]
  arms,
  disarmed   \* history: the operator has disarmed

iVars == <<armed, pending, lock, thread, open, cipher, line, wire, computed, arms,
           disarmed>>
socket == <<cipher, line, wire>>

Threads == Conns \cup {Operator}
Entry(c, n) == [conn |-> c, reply |-> n]

\* `left` frames of the entry are still to be sent, the next one is encrypted
\* when its key is set; `all` is what tells release_all from step.
Resting == [at |-> "rest", entry |-> Entry(Nobody, 0), left |-> 0, key |-> 0,
            all |-> FALSE]
Doing(t, what, e, frames) ==
  [thread[t] EXCEPT !.at = what, !.entry = e, !.left = frames, !.key = 0]
Is(t, what) == thread[t].at = what
Now(t, what) == thread' = [thread EXCEPT ![t] = what]

-----------------------------------------------------------------------------
(* send: header, encryption and sendall in the connection's send lock.     *)

\* Variant: no lock around the stream.
EncryptUnlocked(t) ==
  LET c == thread[t].entry.conn
  IN /\ Is(t, "sending") /\ thread[t].key = 0
     /\ cipher' = [cipher EXCEPT ![c] = @ + 1]
     /\ Now(t, [thread[t] EXCEPT !.key = cipher[c] + 1])
     /\ UNCHANGED <<armed, pending, lock, open, line, wire, computed, arms, disarmed>>

Encrypt(t) ==
  LET c == thread[t].entry.conn
  IN /\ Is(t, "sending") /\ thread[t].key = 0
     /\ line[c] = Nobody
     /\ line' = [line EXCEPT ![c] = t]
     /\ cipher' = [cipher EXCEPT ![c] = @ + 1]
     /\ Now(t, [thread[t] EXCEPT !.key = cipher[c] + 1])
     /\ UNCHANGED <<armed, pending, lock, open, wire, computed, arms, disarmed>>

\* The end of an entry: release_all takes the next one in the same lock.
Done(t) ==
  IF t # Operator THEN Now(t, Resting) /\ UNCHANGED <<pending, lock>>
  ELSE IF thread[t].all /\ pending # <<>>
  THEN /\ Now(t, Doing(t, "sending", Head(pending), Frames))
       /\ pending' = Tail(pending) /\ UNCHANGED lock
  ELSE Now(t, Resting) /\ lock' = Nobody /\ UNCHANGED pending

\* sendall: on a closed socket it raises, and the rest of the entry is lost.
Put(t) ==
  LET e == thread[t].entry
  IN /\ Is(t, "sending") /\ thread[t].key > 0
     /\ wire' = IF open[e.conn]
                THEN [wire EXCEPT ![e.conn] =
                        Append(@, [reply |-> e.reply, key |-> thread[t].key])]
                ELSE wire
     /\ line' = [line EXCEPT ![e.conn] = Nobody]
     /\ IF open[e.conn] /\ thread[t].left > 1
        THEN /\ Now(t, [thread[t] EXCEPT !.left = @ - 1, !.key = 0])
             /\ UNCHANGED <<pending, lock>>
        ELSE Done(t)
     /\ UNCHANGED <<armed, open, cipher, computed, arms, disarmed>>

-----------------------------------------------------------------------------
(* A connection thread.                                                    *)

Reads(c) == Is(c, "rest") /\ open[c] /\ computed[c] < ReplyMax

\* A heartbeat is answered at once, whatever is held.
Heartbeat(c) ==
  /\ Reads(c)
  /\ computed' = [computed EXCEPT ![c] = @ + 1]
  /\ Now(c, Doing(c, "sending", Entry(c, 0), 1))
  /\ UNCHANGED <<armed, pending, lock, open, socket, arms, disarmed>>

\* A battle request: the reply is computed, then offered to the inspector.
Compute(c) ==
  /\ Reads(c)
  /\ computed' = [computed EXCEPT ![c] = @ + 1]
  /\ Now(c, Doing(c, "offer", Entry(c, computed[c] + 1), Frames))
  /\ UNCHANGED <<armed, pending, lock, open, socket, arms, disarmed>>

\* intercept, first line: armed is read outside the lock.
Offer(c) ==
  /\ Is(c, "offer")
  /\ Now(c, [thread[c] EXCEPT !.at = IF armed THEN "queue" ELSE "sending"])
  /\ UNCHANGED <<armed, pending, lock, open, socket, computed, arms, disarmed>>

\* Variant: the thread waits until its reply has been released.
QueueBlocking(c) ==
  /\ \/ /\ Is(c, "queue") /\ lock = Nobody
        /\ pending' = Append(pending, thread[c].entry)
        /\ Now(c, [thread[c] EXCEPT !.at = "held"])
     \/ /\ Is(c, "held") /\ ~Contains(pending, thread[c].entry)
        /\ Now(c, Resting) /\ UNCHANGED pending
  /\ UNCHANGED <<armed, lock, open, socket, computed, arms, disarmed>>

\* intercept, the rest: the reply is appended and the thread reads on.
Queue(c) ==
  /\ Is(c, "queue") /\ lock = Nobody
  /\ pending' = Append(pending, thread[c].entry)
  /\ Now(c, Resting)
  /\ UNCHANGED <<armed, lock, open, socket, computed, arms, disarmed>>

\* The client goes away; what is held for it stays held.
Hangup(c) ==
  /\ Is(c, "rest") /\ open[c]
  /\ open' = [open EXCEPT ![c] = FALSE]
  /\ UNCHANGED <<armed, pending, lock, thread, socket, computed, arms, disarmed>>

-----------------------------------------------------------------------------
(* The operator.                                                           *)

Arm ==
  /\ Is(Operator, "rest") /\ arms < ArmMax
  /\ armed' = TRUE /\ arms' = arms + 1
  /\ UNCHANGED <<pending, lock, thread, open, socket, computed, disarmed>>

\* arm(False): the flag goes down before release_all takes the lock.
Disarm ==
  /\ Is(Operator, "rest") /\ armed
  /\ armed' = FALSE /\ disarmed' = TRUE
  /\ Now(Operator, [Resting EXCEPT !.at = "take", !.all = TRUE])
  /\ UNCHANGED <<pending, lock, open, socket, computed, arms>>

\* "Step" and "Resume".
Release(all) ==
  /\ Is(Operator, "rest") /\ pending # <<>>
  /\ Now(Operator, [Resting EXCEPT !.at = "take", !.all = all])
  /\ UNCHANGED <<armed, pending, lock, open, socket, computed, arms, disarmed>>

\* The lock is kept while the entry is sent.
Take ==
  /\ Is(Operator, "take") /\ lock = Nobody
  /\ IF pending = <<>> THEN Now(Operator, Resting) /\ UNCHANGED <<pending, lock>>
     ELSE /\ lock' = Operator
          /\ pending' = Tail(pending)
          /\ Now(Operator, Doing(Operator, "sending", Head(pending), Frames))
  /\ UNCHANGED <<armed, open, socket, computed, arms, disarmed>>

\* "Drop": the oldest entry is thrown away.
DropHeld ==
  /\ Is(Operator, "rest") /\ lock = Nobody /\ pending # <<>>
  /\ pending' = Tail(pending)
  /\ UNCHANGED <<armed, lock, thread, open, socket, computed, arms, disarmed>>

-----------------------------------------------------------------------------
InspectorInit ==
  /\ armed = FALSE /\ pending = <<>> /\ lock = Nobody
  /\ thread = [t \in Threads |-> Resting]
  /\ open = [c \in Conns |-> TRUE]
  /\ cipher = [c \in Conns |-> 0] /\ line = [c \in Conns |-> Nobody]
  /\ wire = [c \in Conns |-> <<>>] /\ computed = [c \in Conns |-> 0]
  /\ arms = 0 /\ disarmed = FALSE

Sends(t) == Encrypt(t) \/ Put(t)
Works(c) == Offer(c) \/ Queue(c) \/ Sends(c)
Operates == Arm \/ Disarm \/ Release(TRUE) \/ Release(FALSE) \/ DropHeld

InspectorNext ==
  \/ \E c \in Conns : Heartbeat(c) \/ Compute(c) \/ Hangup(c) \/ Works(c)
  \/ Operates \/ Take \/ Sends(Operator)

\* A thread that got somewhere goes on, locks are handed out in the end and
\* sendall returns; the operator need never do anything.
InspectorFairness ==
  /\ \A c \in Conns : SF_iVars(Works(c))
  /\ SF_iVars(Take) /\ SF_iVars(Sends(Operator))

-----------------------------------------------------------------------------
(* Properties.                                                             *)

\* The client decrypts with a keystream of its own: every frame arrives at
\* the place it was encrypted at, though two threads write the socket.
StreamInSync ==
  \A c \in Conns : \A i \in DOMAIN wire[c] : wire[c][i].key = i

\* As long as the inspector stays armed, holding and stepping keeps the order
\* of a connection's battle replies.  Disarming does not: the flag is down
\* before the held replies are out, and a new one may pass them.
OrderKept ==
  ~disarmed =>
    \A c \in Conns : \A i, j \in DOMAIN wire[c] :
      (i < j /\ wire[c][i].reply > 0 /\ wire[c][j].reply > 0)
        => wire[c][i].reply <= wire[c][j].reply

\* What a client reads is decipherable and in the order of its fight.
WireIntact == StreamInSync /\ OrderKept

\* "The handler thread must NOT block": whatever is held, a thread that serves
\* a client comes back to read its heartbeat without the operator's help.
ThreadsReadOn == \A c \in Conns : ~Is(c, "rest") ~> Is(c, "rest")

=============================================================================
