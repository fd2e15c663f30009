---------------------------- MODULE ProofSession ----------------------------
(***************************************************************************)
(* Proof sessions (src/src/pvs-threads.lisp).  A client, that is the       *)
(* thread of one connection of the server, starts the proof of a formula   *)
(* with prover-init; this makes a session with a thread of its own, which  *)
(* runs the prover.  The two talk through an input queue and an output     *)
(* queue: the prover collects what it shows in the slot outputs and pushes *)
(* it when it next reads a command.  prover-step sends a command and waits *)
(* for the output; quit-all-proof-sessions quits or kills every session;   *)
(* interrupt-session asks for an interrupt, which a timer of the session's *)
(* thread delivers.                                                        *)
(*                                                                         *)
(* Operations of the queues are atomic (lparallel.queue).  Nothing guards  *)
(* *all-sessions* and *done-sessions*: a push or a remove is a load and a  *)
(* store, two steps, and what others have stored in between is lost.       *)
(* The prover itself is ProofTree; here a command is answered by showing a *)
(* goal, by the end of the proof, or by both a goal and an error, which is *)
(* the same to the protocol.                                               *)
(***************************************************************************)
EXTENDS Naturals, Sequences

CONSTANTS Clients,      \* connections of the server
          Sessions,     \* the ids get-new-session-id makes
          Starters,     \* the clients that use prover-init
          Shares,       \* does a client step sessions others have started?
          Interrupters, \* the clients that use interrupt-session
          Quitters,     \* the clients that use quit-all-proof-sessions
          Nobody        \* no client, no session

CONSTANTS MaxCalls,     \* bound: calls of prover-step for one session
          MaxInterrupts \* bound: interrupts asked for one session

ASSUME ConfigAssumption == /\ Shares \in BOOLEAN
                           /\ Starters \subseteq Clients
                           /\ Interrupters \subseteq Clients
                           /\ Quitters \subseteq Clients
                           /\ Nobody \notin Clients \cup Sessions
                           /\ MaxCalls \in Nat /\ MaxInterrupts \in Nat

VARIABLES
  allSessions,   \* *all-sessions*, its order left out
  doneSessions,  \* *done-sessions*, newest first
  interrupted,   \* *sessions-to-be-interrupted*
  session,       \* the session objects
  thread,        \* where the thread of a session is
  client         \* where a client is in the function it has called

vars == <<allSessions, doneSessions, interrupted, session, thread, client>>

(***************************************************************************)
(* The data.  A command is "(quit)" or a proof step.  Of a list of outputs *)
(* only the newest matters: the proofstate of the root, one below it, or a *)
(* list that prover-step put back.  An entry of the output queue is a list *)
(* of outputs, stamped with the number of calls begun when it was pushed.  *)
(* The stamp is history; calls and asked count for it and for the bounds.  *)
(* A goal below the root may be closed by the next proof step: steps are   *)
(* those carried out, in the session and when the entry was pushed.        *)
(***************************************************************************)
Command == {"step", "quit"}

Shown == {"root", "subgoal", "list", "nothing"}

Entry == [head : Shown, stamp : Nat, steps : Nat]

\* The status flag of the top-proofstate, an object the entries that show the
\* root share with the prover.
Flag == {"open", "proved", "quit"}

Session == [named : BOOLEAN, input : Seq(Command), output : Seq(Entry),
            outputs : Shown, flag : Flag, calls : Nat, asked : Nat, steps : Nat]

NewSession == [named |-> FALSE, input |-> << >>, output |-> << >>,
               outputs |-> "nothing", flag |-> "open", calls |-> 0, asked |-> 0,
               steps |-> 0]

\* "finishing" is the cleanup of prove-decl, which shows the top-proofstate;
\* "pushing" and "draining" are session-finish; "stdin" is a thread that reads
\* the standard input since it has not found its session.
Place == {"none", "showing", "reading", "clearing", "waiting", "busy",
          "finishing", "pushing", "draining", "stdin", "dead"}

Thread == [at : Place, cmd : Command, killed : BOOLEAN]

\* A client: where it is in which function, the session it works on, the lists
\* it has loaded, the sessions quit-all has yet to come to, those it has made,
\* the entries to drain, the command and number of its call, the entry it has
\* got and the status it was told last.
Record == Sessions \X Flag
Client ==
  [at : {"idle", "push", "spawn", "name", "drain", "await", "status", "join",
         "remove", "load", "record", "next", "kill", "drop"},
   op : {"none", "init", "step", "quit"}, sess : Sessions \cup {Nobody},
   list : SUBSET Sessions, log : Seq(Record), todo : SUBSET Sessions,
   mine : SUBSET Sessions, left : Nat, cmd : Command, call : Nat, reply : Entry,
   status : {"none", "waiting", "proved", "quit", "error", "missing",
             "timeout"}]

NoEntry == [head |-> "nothing", stamp |-> 0, steps |-> 0]
Idle == [at |-> "idle", op |-> "none", sess |-> Nobody, list |-> {},
         log |-> << >>, todo |-> {}, mine |-> {}, left |-> 0, cmd |-> "step",
         call |-> 0, reply |-> NoEntry, status |-> "none"]

Init == /\ allSessions = {}
        /\ doneSessions = << >>
        /\ interrupted = {}
        /\ session = [s \in Sessions |-> NewSession]
        /\ thread = [s \in Sessions |-> [at |-> "none", cmd |-> "step",
                                         killed |-> FALSE]]
        /\ client = [c \in Clients |-> Idle]

Listed(s) == s \in allSessions

\* current-session in the thread of s: (get-session (current-thread)).
Found(s) == Listed(s) /\ session[s].named

Alive(s) == thread[s].at \notin {"none", "dead"}

KeepsSession(list, s) == list   \* mutant: nothing is removed
Without(list, s) == list \ {s}

-----------------------------------------------------------------------------
(***************************************************************************)
(* The thread of a session.                                                *)
(***************************************************************************)

Goto(s, place) == thread' = [thread EXCEPT ![s].at = place]

\* What session-output and session-finish leave alone.
OnlySession == UNCHANGED <<allSessions, doneSessions, interrupted, client>>

\* prove*-int shows the goal: session-output pushes it on outputs.
Show(s) ==
  /\ thread[s].at = "showing"
  /\ \E goal \in {"root", "subgoal"} :
       session' = IF Found(s)
                  THEN [session EXCEPT ![s].outputs = goal]
                  ELSE session
  /\ Goto(s, "reading")
  /\ OnlySession

\* An entry for the output queue made of outputs.
Pushed(s) == [session EXCEPT ![s].output =
                Append(@, [head |-> session[s].outputs,
                           stamp |-> session[s].calls,
                           steps |-> session[s].steps])]

\* session-read, up to the wait: outputs becomes an entry, if there are any.
Read(s) ==
  /\ thread[s].at = "reading"
  /\ \/ /\ ~Found(s)
        /\ Goto(s, "stdin")
        /\ UNCHANGED session
     \/ /\ Found(s)
        /\ session[s].outputs = "nothing"
        /\ Goto(s, "waiting")
        /\ UNCHANGED session
     \/ /\ Found(s)
        /\ session[s].outputs # "nothing"
        /\ session' = Pushed(s)
        /\ Goto(s, "clearing")
  /\ OnlySession

Clear(s) ==
  /\ thread[s].at = "clearing"
  /\ session' = [session EXCEPT ![s].outputs = "nothing"]
  /\ Goto(s, "waiting")
  /\ OnlySession

\* session-read*: wait for a command and take it.
Take(s) ==
  /\ thread[s].at = "waiting"
  /\ session[s].input # << >>
  /\ session' = [session EXCEPT ![s].input = Tail(@)]
  /\ thread' = [thread EXCEPT ![s].at = "busy",
                              ![s].cmd = Head(session[s].input)]
  /\ OnlySession

\* The prover carries out a proof step and comes back for the next one.
Stay(s) ==
  /\ thread[s].at = "busy"
  /\ thread[s].cmd = "step"
  /\ session' = [session EXCEPT ![s].steps = @ + 1]
  /\ Goto(s, "showing")
  /\ OnlySession

\* The command was the last one: Q.E.D., or the proof has failed or is quit.
End(s) ==
  /\ thread[s].at = "busy"
  /\ \/ UNCHANGED session
     \/ /\ thread[s].cmd = "step"
        /\ session' = [session EXCEPT ![s].flag = "proved",
                                      ![s].steps = @ + 1]
  /\ Goto(s, "finishing")
  /\ OnlySession

\* What finish-proofstate makes of the flag.
KeepsFailed(flag) == IF flag = "open" THEN "failed" ELSE flag   \* mutant
EndFlag(flag) == IF flag = "proved" THEN flag ELSE "quit"

\* finish-proofstate: what is not proved is quit; session-output of the
\* top-proofstate.
Finish(s) ==
  /\ thread[s].at = "finishing"
  /\ session' = [session EXCEPT
                   ![s].flag = EndFlag(@),
                   ![s].outputs = IF Found(s) THEN "root" ELSE @]
  /\ Goto(s, "pushing")
  /\ OnlySession

\* session-finish: push the last entry and wait until the queue is empty.
PushLast(s) ==
  /\ thread[s].at = "pushing"
  /\ \/ /\ ~Found(s)
        /\ Goto(s, "dead")
        /\ UNCHANGED session
     \/ /\ Found(s)
        /\ session' = Pushed(s)
        /\ Goto(s, "draining")
  /\ OnlySession

Exit(s) ==
  /\ thread[s].at = "draining"
  /\ session[s].output = << >>
  /\ Goto(s, "dead")
  /\ UNCHANGED session
  /\ OnlySession

\* Where the prover allows interrupts: inside catch-restore.
Interruptible(s) ==
  thread[s].at \in {"reading", "clearing", "waiting", "busy", "stdin"}

\* handle-interrupt, run by the timer of the thread: (throw 'abort nil) leads
\* back to the prompt.
HandleInterrupt(s) ==
  /\ Found(s)
  /\ s \in interrupted
  /\ Interruptible(s)
  /\ interrupted' = interrupted \ {s}
  /\ Goto(s, "showing")
  /\ UNCHANGED <<allSessions, doneSessions, session, client>>

\* destroy-thread unwinds the thread, and the cleanup of prove-decl still runs
\* finish-proofstate; a thread that is finishing is stopped there.
Unwind(s) ==
  /\ thread[s].killed
  /\ \/ /\ Interruptible(s)
        /\ thread' = [thread EXCEPT ![s].at = "finishing", ![s].killed = FALSE]
     \/ /\ thread[s].at \in {"finishing", "pushing", "draining"}
        /\ thread' = [thread EXCEPT ![s].at = "dead", ![s].killed = FALSE]
  /\ UNCHANGED session
  /\ OnlySession

-----------------------------------------------------------------------------
(***************************************************************************)
(* The client's side: prover-init, prover-step, quit-all-proof-sessions    *)
(* and interrupt-session.  A client is "idle" between two requests; op is  *)
(* the function it is in and sess the session it works on.                 *)
(***************************************************************************)

OnlyClient == UNCHANGED <<allSessions, doneSessions, interrupted, thread>>

\* The ids prover-init has returned to the client.
Knows(c) == IF client[c].op = "init" THEN client[c].mine \cup {client[c].sess}
            ELSE client[c].mine

\* A function of the prover has returned: the request is answered, or
\* quit-all comes to the next session.
Returns(c, status) ==
  LET quits == client[c].op = "quit"
  IN  client' = [client EXCEPT ![c] =
        [Idle EXCEPT !.at = IF quits THEN "next" ELSE "idle",
                     !.op = IF quits THEN "quit" ELSE "none",
                     !.sess = client[c].sess, !.mine = Knows(c),
                     !.todo = client[c].todo \ {client[c].sess},
                     !.status = status]]

\* The error goes to whoever made the request, from within quit-all too, which
\* handles nothing but a timeout.
Fails(c, s, status) ==
  client' = [client EXCEPT ![c] = [Idle EXCEPT !.sess = s, !.status = status,
                                               !.mine = client[c].mine]]

\* prover-init: a new id, so a session nobody has seen.
BeginInit(c, s) ==
  /\ client[c].at = "idle"
  /\ c \in Starters
  /\ thread[s].at = "none"
  /\ \A d \in Clients : client[d].sess # s
  /\ client' = [client EXCEPT ![c].at = "push", ![c].op = "init",
                              ![c].sess = s, ![c].list = allSessions,
                              ![c].status = "none"]
  /\ UNCHANGED session
  /\ OnlyClient

\* make-session: push the session, start its thread, then set its thread slot.
\* The thread begins with the first goal or, with rerun?, with a proof script.
PushSession(c) ==
  /\ client[c].at = "push"
  /\ allSessions' = client[c].list \cup {client[c].sess}
  /\ client' = [client EXCEPT ![c].at = "spawn"]
  /\ UNCHANGED <<doneSessions, interrupted, session, thread>>

Spawn(c) ==
  /\ client[c].at = "spawn"
  /\ \E place \in {"showing", "busy"} : Goto(client[c].sess, place)
  /\ client' = [client EXCEPT ![c].at = "name"]
  /\ UNCHANGED <<allSessions, doneSessions, interrupted, session>>

Name(c) ==
  /\ client[c].at = "name"
  /\ session' = [session EXCEPT ![client[c].sess].named = TRUE]
  /\ client' = [client EXCEPT ![c].at = "await"]
  /\ OnlyClient

\* The entries prover-step finds in the queue.
CountsNothing(s) == 0   \* mutant: no drain
QueueCount(s) == Len(session[s].output)

\* prover-step: get-session, or the error "not found"; then queue-count.
Lookup(c, s, op, cmd) ==
  \/ /\ ~Listed(s)
     /\ Fails(c, s, "missing")
     /\ UNCHANGED session
  \/ /\ Listed(s)
     /\ session' = [session EXCEPT ![s].calls = @ + 1]
     /\ client' = [client EXCEPT ![c].at = "drain", ![c].op = op,
                                 ![c].sess = s, ![c].cmd = cmd,
                                 ![c].left = QueueCount(s),
                                 ![c].call = session[s].calls + 1,
                                 ![c].status = "none"]

BeginStep(c, s, cmd) ==
  /\ client[c].at = "idle"
  /\ s \in client[c].mine \/ (Shares /\ session[s].named)
  /\ session[s].calls < MaxCalls
  /\ Lookup(c, s, "step", cmd)
  /\ OnlyClient

\* Entries nobody has taken go back to outputs, as many as were counted.
Drain(c) ==
  LET s == client[c].sess
  IN  /\ client[c].at = "drain"
      /\ client[c].left > 0
      /\ session[s].output # << >>
      /\ session' = [session EXCEPT ![s].output = Tail(@),
                                    ![s].outputs = "list"]
      /\ client' = [client EXCEPT ![c].left = @ - 1]
      /\ OnlyClient

Send(c) ==
  LET s == client[c].sess
  IN  /\ client[c].at = "drain"
      /\ client[c].left = 0
      /\ session' = [session EXCEPT ![s].input = Append(@, client[c].cmd)]
      /\ client' = [client EXCEPT ![c].at = "await"]
      /\ OnlyClient

\* Wait for an entry; one that does not start with a proofstate is an error.
Await(c) ==
  LET s == client[c].sess
      entry == Head(session[s].output)
  IN  /\ client[c].at = "await"
      /\ session[s].output # << >>
      /\ session' = [session EXCEPT ![s].output = Tail(@)]
      /\ IF entry.head \in {"root", "subgoal"}
         THEN client' = [client EXCEPT ![c].at = "status", ![c].reply = entry]
         ELSE Fails(c, s, "error")
      /\ OnlyClient

\* The status is that of the proofstate now.  prover-step takes it of the root
\* only, prover-init of whatever it was shown, which may have been closed.
ShownGoal(c) ==
  LET this == client[c]
  IN  IF /\ this.op = "init"
         /\ session[this.sess].steps > this.reply.steps
      THEN {"open", "proved"}
      ELSE {"open"}
RootMeansProved(c) ==   \* mutant: the root's entry is taken for the end
  IF client[c].reply.head = "root" THEN {"proved"} ELSE ShownGoal(c)
StatusNow(c) ==
  IF client[c].reply.head = "root" THEN {session[client[c].sess].flag}
  ELSE ShownGoal(c)

\* prover-init records the end of the proof before it waits for the thread.
Status(c) ==
  /\ client[c].at = "status"
  /\ \E status \in StatusNow(c) :
       IF status = "open" THEN Returns(c, "waiting")
       ELSE client' = [client EXCEPT
                         ![c].at = IF client[c].op = "init" THEN "load" ELSE "join",
                         ![c].status = status]
  /\ UNCHANGED session
  /\ OnlyClient

\* The proof is over: wait for the thread to end, then remove the session.
NeverMind(s) == TRUE   \* mutant: the thread may still run
Over(s) == ~Alive(s)

Join(c) ==
  /\ client[c].at = "join"
  /\ Over(client[c].sess)
  /\ client' = [client EXCEPT ![c].at = "remove", ![c].list = allSessions]
  /\ UNCHANGED session
  /\ OnlyClient

\* prover-step records it when the session is removed.
Remove(c) ==
  /\ client[c].at = "remove"
  /\ allSessions' = Without(client[c].list, client[c].sess)
  /\ IF client[c].op = "init" THEN Returns(c, client[c].status)
     ELSE client' = [client EXCEPT ![c].at = "load", ![c].list = {}]
  /\ UNCHANGED <<doneSessions, interrupted, session, thread>>

Load(c) ==
  /\ client[c].at = "load"
  /\ client' = [client EXCEPT ![c].at = "record", ![c].log = doneSessions]
  /\ UNCHANGED session
  /\ OnlyClient

Store(c) ==
  /\ client[c].at = "record"
  /\ doneSessions' = <<<<client[c].sess, client[c].status>>>> \o client[c].log
  /\ IF client[c].op = "init"
     THEN client' = [client EXCEPT ![c].at = "join", ![c].log = << >>]
     ELSE Returns(c, client[c].status)
  /\ UNCHANGED <<allSessions, interrupted, session, thread>>

\* quit-all-proof-sessions goes through the list it has found; session-alive-p
\* of a session without a thread is an error.
BeginQuitAll(c) ==
  /\ client[c].at = "idle"
  /\ c \in Quitters
  /\ client' = [client EXCEPT ![c].at = "next", ![c].op = "quit",
                              ![c].todo = allSessions, ![c].status = "none"]
  /\ UNCHANGED session
  /\ OnlyClient

QuitNext(c) ==
  /\ client[c].at = "next"
  /\ \/ /\ client[c].todo = {}
        /\ client' = [client EXCEPT ![c].at = "idle", ![c].op = "none"]
        /\ UNCHANGED session
     \/ \E s \in client[c].todo :
          \/ /\ ~session[s].named
             /\ Fails(c, client[c].sess, "error")
             /\ UNCHANGED session
          \/ /\ session[s].named
             /\ Alive(s)
             /\ Lookup(c, s, "quit", "quit")
          \/ /\ session[s].named
             /\ ~Alive(s)
             /\ client' = [client EXCEPT ![c].at = "kill", ![c].sess = s,
                                         ![c].status = "none"]
             /\ UNCHANGED session
  /\ OnlyClient

\* with-timeout: prover-step has not come back in three seconds, wherever it
\* is.  What it has stored stays, what it has loaded is lost.
OnlyAwaited == {"drain", "await", "status"}   \* mutant: not after the answer
Limited == {"drain", "await", "status", "join", "remove", "load", "record"}
Timeout(c) ==
  /\ client[c].op = "quit"
  /\ client[c].at \in Limited
  /\ client' = [client EXCEPT ![c] =
       [@ EXCEPT !.at = "kill", !.list = {}, !.log = << >>, !.left = 0,
                 !.reply = NoEntry, !.status = "timeout"]]
  /\ UNCHANGED session
  /\ OnlyClient

\* session-kill: destroy the thread if it is alive, then remove the session.
Kill(c) ==
  LET s == client[c].sess
  IN  /\ client[c].at = "kill"
      /\ thread' = [thread EXCEPT ![s].killed = Alive(s)]
      /\ client' = [client EXCEPT ![c].at = "drop", ![c].list = allSessions]
      /\ UNCHANGED <<allSessions, doneSessions, interrupted, session>>

Drop(c) ==
  /\ client[c].at = "drop"
  /\ allSessions' = Without(client[c].list, client[c].sess)
  /\ Returns(c, client[c].status)
  /\ UNCHANGED <<doneSessions, interrupted, session, thread>>

\* interrupt-session: a request; the timer of the session looks at it later.
Interrupt(c, s) ==
  /\ client[c].at = "idle"
  /\ c \in Interrupters
  /\ session[s].named
  /\ session[s].asked < MaxInterrupts
  /\ session' = [session EXCEPT ![s].asked = @ + 1]
  /\ interrupted' = interrupted \cup {s}
  /\ UNCHANGED <<allSessions, doneSessions, thread, client>>

-----------------------------------------------------------------------------
ThreadStep(s) == \/ Show(s) \/ Read(s) \/ Clear(s) \/ Take(s) \/ Stay(s)
                 \/ End(s) \/ Finish(s) \/ PushLast(s) \/ Exit(s)
                 \/ Unwind(s)

Begin(c) == \/ \E s \in Sessions : BeginInit(c, s) \/ Interrupt(c, s)
            \/ \E s \in Sessions, cmd \in Command : BeginStep(c, s, cmd)
            \/ BeginQuitAll(c)

\* Everything a client does within a call, but for the timeout.
ClientStep(c) == \/ PushSession(c) \/ Spawn(c) \/ Name(c) \/ Drain(c)
                 \/ Send(c) \/ Await(c) \/ Status(c) \/ Join(c) \/ Remove(c)
                 \/ Load(c) \/ Store(c) \/ QuitNext(c) \/ Kill(c) \/ Drop(c)

Next == \/ \E s \in Sessions : ThreadStep(s) \/ HandleInterrupt(s)
        \/ \E c \in Clients : Begin(c) \/ ClientStep(c) \/ Timeout(c)

Spec == Init /\ [][Next]_vars

(***************************************************************************)
(* Both kinds of threads are scheduled; a command of the prover ends (the  *)
(* prover's own side of this is EveryGoalComesUp and Terminates), and so   *)
(* do the three seconds of a timeout.  Nothing makes a client begin a call *)
(* or an interrupt arrive.                                                 *)
(***************************************************************************)
FairSpec == /\ Spec
            /\ \A s \in Sessions : WF_vars(ThreadStep(s))
            /\ \A c \in Clients : WF_vars(ClientStep(c)) /\ WF_vars(Timeout(c))

-----------------------------------------------------------------------------
(***************************************************************************)
(* Properties.                                                             *)
(***************************************************************************)

\* The type invariant of the module.
TypeOK ==
  /\ allSessions \subseteq Sessions
  /\ doneSessions \in Seq(Record)
  /\ interrupted \subseteq Sessions
  /\ session \in [Sessions -> Session]
  /\ thread \in [Sessions -> Thread]
  /\ client \in [Clients -> Client]
  /\ \A c \in Clients :
       client[c].at \notin {"idle", "next"} => client[c].sess \in Sessions

\* prover-step never takes an entry for the answer to its command that was
\* there before the call, say from an interrupt: it drains the queue first.
NoStaleAnswer ==
  \A c \in Clients :
    client[c].at = "status" /\ client[c].op # "init" =>
      client[c].reply.stamp >= client[c].call

\* As long as a session is stepped only by the client that has made it, a
\* status put on record in *done-sessions* is the status of the proof, and
\* stays so, however others interrupt, quit and kill.
RecordIsTrue ==
  ~Shares =>
    \A i \in 1 .. Len(doneSessions) :
      doneSessions[i][2] = session[doneSessions[i][1]].flag

\* quit-all-proof-sessions leaves no session behind: what is still listed
\* between two of its steps is what it has not come to yet.  (So it is if
\* nobody else has done anything: the lists are not guarded, and an interrupt
\* may give quit-all an answer that is not that of its command.)
Undisturbed(c) == /\ \A d \in Clients \ {c} : client[d] = Idle
                  /\ \A s \in Sessions : session[s].asked = 0
QuitAllLeavesNone ==
  \A c \in Clients :
    client[c].at = "next" /\ Undisturbed(c) => allSessions = client[c].todo

\* quit-all-proof-sessions comes back, whatever has become of the sessions:
\* where prover-step waits for ever, its timeout is there.
QuitAllReturns ==
  \A c \in Clients : client[c].op = "quit" ~> client[c].op # "quit"

\* "Takes a step for proof session id.  Returns a proofstate, error, or
\* finished message": every call returns.
EveryCallAnswered ==
  \A c \in Clients : client[c].op = "step" ~> client[c].op # "step"

\* The sessions implement ProofService: a proof is the thread of its session,
\* its verdict the flag of the root, and a client has been told of the end of
\* a proof when prover-init or prover-step has returned that status.
Course(s) == IF thread[s].at = "none" THEN "none"
             ELSE IF Alive(s) THEN "running"
             ELSE "over"
ToldEnd(c) ==
  IF client[c].at \in {"idle", "next"} /\ client[c].status \in {"proved", "quit"}
  THEN <<client[c].sess, client[c].status>> ELSE <<>>
Service == INSTANCE ProofService WITH
  Client <- Clients, Proof <- Sessions,
  stage <- [s \in Sessions |-> Course(s)],
  verdict <- [s \in Sessions |-> session[s].flag],
  log <- doneSessions,
  told <- [c \in Clients |-> ToldEnd(c)]
ImplementsProofService == Service!ServiceSpec

=============================================================================
