------------------------- MODULE ProofSession_proofs -------------------------
(***************************************************************************)
(* Proofs about ProofSession, for any number of clients and sessions,      *)
(* whoever steps, interrupts, quits or kills them: the types, that an      *)
(* answer is never older than the call it answers (NoStaleAnswer), and the *)
(* truth of the record of ended proofs (RecordIsTrue).                     *)
(***************************************************************************)
EXTENDS ProofSession, SequenceTheorems, TLAPS

(***************************************************************************)
(* The inductive invariant: the flag of the root is open until the thread  *)
(* ends its proof, a client that has been told of the end knows one of the *)
(* two ways it can have come, and only its maker is at a session that has  *)
(* not started.                                                            *)
(***************************************************************************)

\* The flag follows the thread.
Phase ==
  \A s \in Sessions :
    /\ thread[s].at \in {"none", "showing", "reading", "clearing", "waiting",
                         "busy", "stdin"} => session[s].flag = "open"
    /\ thread[s].at = "finishing" => session[s].flag # "quit"

\* A client that waits for the end of a thread, or puts it on record.
Told ==
  \A c \in Clients : client[c].at \in {"join", "remove", "load", "record"} =>
                       client[c].status \in {"proved", "quit"}

\* A session whose thread has not started is one client's, the one that makes
\* it, and no other client can come to it.
Birth ==
  /\ \A s \in Sessions : session[s].named => thread[s].at # "none"
  /\ \A c \in Clients :
       /\ \A s \in client[c].mine : session[s].named
       /\ client[c].at \in {"push", "spawn"} =>
            /\ thread[client[c].sess].at = "none"
            /\ \A d \in Clients : d # c => client[d].sess # client[c].sess
       /\ client[c].at = "name" => thread[client[c].sess].at # "none"
       /\ client[c].at \notin {"idle", "next", "push", "spawn", "name"} =>
            session[client[c].sess].named
       /\ client[c].at \in {"push", "spawn", "name"} => client[c].op = "init"
       /\ client[c].at \in {"idle", "next", "drain", "kill", "drop"} =>
            client[c].op # "init"

IInv == TypeOK /\ Phase /\ Told /\ Birth

\* The record of a client that has nothing to do.
LEMMA IdleType == Idle \in Client
  BY DEF Idle, Client, Command, NoEntry, Entry, Shown

\* The initial state has the invariant.
LEMMA InitInv == Init => IInv
  <1> SUFFICES ASSUME Init PROVE IInv
    OBVIOUS
  <1>2. NewSession \in Session
    BY DEF NewSession, Session, Shown, Flag, Command, Entry
  <1>3. TypeOK
    <2>1. session \in [Sessions -> Session]
      BY <1>2 DEF Init
    <2>2. thread \in [Sessions -> Thread]
      BY DEF Init, Thread, Place, Command
    <2>3. client \in [Clients -> Client]
      BY IdleType DEF Init
    <2>4. doneSessions \in Seq(Record)
      BY DEF Init
    <2>5. \A c \in Clients : client[c].at = "idle"
      BY DEF Init, Idle
    <2> QED
      BY <2>1, <2>2, <2>3, <2>4, <2>5 DEF Init, TypeOK
  <1>4. Phase /\ Told /\ Birth
    BY DEF Init, Phase, Told, Birth, NewSession, Idle
  <1> QED
    BY <1>3, <1>4 DEF IInv

\* What the type invariant says of the parts the steps of a thread change.
LEMMA ThreadFrame ==
  ASSUME TypeOK,
         session' \in [Sessions -> Session],
         thread' \in [Sessions -> Thread],
         interrupted' \subseteq Sessions,
         UNCHANGED <<allSessions, doneSessions, client>>
  PROVE  TypeOK'
  BY DEF TypeOK

\* Goto leads to a place.
LEMMA GotoType ==
  ASSUME thread \in [Sessions -> Thread], NEW s \in Sessions,
         NEW place \in Place, Goto(s, place)
  PROVE  thread' \in [Sessions -> Thread]
  BY DEF Goto, Thread

\* Pushing outputs on the queue gives a session.
LEMMA PushedType ==
  ASSUME session \in [Sessions -> Session], NEW s \in Sessions
  PROVE  Pushed(s) \in [Sessions -> Session]
  <1> DEFINE entry == [head |-> session[s].outputs, stamp |-> session[s].calls,
                       steps |-> session[s].steps]
  <1>1. session[s] \in Session
    OBVIOUS
  <1>2. entry \in Entry
    BY <1>1 DEF Session, Entry
  <1>3. Append(session[s].output, entry) \in Seq(Entry)
    <2>1. session[s].output \in Seq(Entry)
      BY <1>1 DEF Session
    <2> HIDE DEF entry
    <2> QED
      BY <1>2, <2>1, AppendProperties
  <1> HIDE DEF entry
  <1>4. Pushed(s) = [session EXCEPT ![s].output = Append(@, entry)]
    BY DEF Pushed, entry
  <1> QED
    BY <1>1, <1>3, <1>4 DEF Session

\* A step of a thread keeps the state well typed (prove*-int, session-output,
\* session-read, session-finish, handle-interrupt).
LEMMA ThreadType ==
  ASSUME TypeOK, NEW s \in Sessions, ThreadStep(s) \/ HandleInterrupt(s)
  PROVE  TypeOK'
  <1>1. session \in [Sessions -> Session] /\ thread \in [Sessions -> Thread]
        /\ interrupted \subseteq Sessions
    BY DEF TypeOK
  <1>2. session[s] \in Session /\ thread[s] \in Thread
    BY <1>1
  <1>3. /\ session' \in [Sessions -> Session]
        /\ thread' \in [Sessions -> Thread]
        /\ interrupted' \subseteq Sessions
        /\ UNCHANGED <<allSessions, doneSessions, client>>
    <2> USE DEF OnlySession
    <2>1. CASE Show(s)
      <3>1. thread' \in [Sessions -> Thread]
        BY <2>1, <1>1, GotoType DEF Show, Place
      <3>2. session' \in [Sessions -> Session]
        <4>1. CASE ~Found(s)
          BY <2>1, <4>1, <1>1 DEF Show
        <4>2. CASE Found(s)
          <5>1. PICK goal \in {"root", "subgoal"} :
                  session' = [session EXCEPT ![s].outputs = goal]
            BY <2>1, <4>2 DEF Show
          <5> QED
            BY <5>1, <1>1, <1>2 DEF Session, Shown
        <4> QED
          BY <4>1, <4>2
      <3> QED
        BY <2>1, <3>1, <3>2, <1>1 DEF Show
    <2>2. CASE Read(s)
      <3>1. thread' \in [Sessions -> Thread]
        BY <2>2, <1>1, GotoType DEF Read, Place
      <3> QED
        BY <2>2, <3>1, <1>1, PushedType DEF Read
    <2>3. CASE Clear(s)
      <3>1. thread' \in [Sessions -> Thread]
        BY <2>3, <1>1, GotoType DEF Clear, Place
      <3>2. session' \in [Sessions -> Session]
        BY <2>3, <1>1, <1>2 DEF Clear, Session, Shown
      <3> QED
        BY <2>3, <3>1, <3>2, <1>1 DEF Clear
    <2>4. CASE Take(s)
      <3>1. /\ Tail(session[s].input) \in Seq(Command)
            /\ Head(session[s].input) \in Command
        BY <2>4, <1>2, HeadTailProperties DEF Take, Session
      <3>2. thread' \in [Sessions -> Thread]
        BY <2>4, <3>1, <1>1, <1>2 DEF Take, Thread, Place
      <3>3. session' \in [Sessions -> Session]
        BY <2>4, <3>1, <1>1, <1>2 DEF Take, Session
      <3> QED
        BY <2>4, <3>2, <3>3, <1>1 DEF Take
    <2>5. CASE Stay(s)
      <3>1. thread' \in [Sessions -> Thread]
        BY <2>5, <1>1, GotoType DEF Stay, Place
      <3>2. session' \in [Sessions -> Session]
        <4> DEFINE r == [session[s] EXCEPT !.steps = @ + 1]
        <4>1. session' = [session EXCEPT ![s] = r]
          BY <2>5 DEF Stay
        <4>2. session[s].steps + 1 \in Nat
          BY <1>2 DEF Session
        <4>3. r \in Session
          BY <4>2, <1>2 DEF Session
        <4> HIDE DEF r
        <4> QED
          BY <4>1, <4>3, <1>1
      <3> QED
        BY <2>5, <3>1, <3>2, <1>1 DEF Stay
    <2>6. CASE End(s)
      <3>1. thread' \in [Sessions -> Thread]
        BY <2>6, <1>1, GotoType DEF End, Place
      <3>2. session' \in [Sessions -> Session]
        <4> DEFINE r == [session[s] EXCEPT !.flag = "proved", !.steps = @ + 1]
        <4>1. session' = session \/ session' = [session EXCEPT ![s] = r]
          BY <2>6 DEF End
        <4>2. session[s].steps + 1 \in Nat
          BY <1>2 DEF Session
        <4>3. r \in Session
          BY <4>2, <1>2 DEF Session, Flag
        <4> HIDE DEF r
        <4> QED
          BY <4>1, <4>3, <1>1
      <3> QED
        BY <2>6, <3>1, <3>2, <1>1 DEF End
    <2>7. CASE Finish(s)
      <3>1. thread' \in [Sessions -> Thread]
        BY <2>7, <1>1, GotoType DEF Finish, Place
      <3>2. session' \in [Sessions -> Session]
        BY <2>7, <1>1, <1>2 DEF Finish, EndFlag, Session, Flag, Shown
      <3> QED
        BY <2>7, <3>1, <3>2, <1>1 DEF Finish
    <2>8. CASE PushLast(s)
      <3>1. thread' \in [Sessions -> Thread]
        BY <2>8, <1>1, GotoType DEF PushLast, Place
      <3> QED
        BY <2>8, <3>1, <1>1, PushedType DEF PushLast
    <2>9. CASE Exit(s)
      BY <2>9, <1>1, GotoType DEF Exit, Place
    <2>10. CASE Unwind(s)
      BY <2>10, <1>1, <1>2 DEF Unwind, Thread, Place
    <2>11. CASE HandleInterrupt(s)
      BY <2>11, <1>1, GotoType DEF HandleInterrupt, Place
    <2> QED
      BY <2>1, <2>2, <2>3, <2>4, <2>5, <2>6, <2>7, <2>8, <2>9, <2>10, <2>11
      DEF ThreadStep
  <1> QED
    BY <1>3, ThreadFrame

\* The same for the steps of a client.
LEMMA ClientFrame ==
  ASSUME TypeOK,
         session' \in [Sessions -> Session],
         thread' \in [Sessions -> Thread],
         allSessions' \subseteq Sessions,
         doneSessions' \in Seq(Record),
         interrupted' \subseteq Sessions,
         client' \in [Clients -> Client],
         NEW c \in Clients,
         \A d \in Clients : d # c => client'[d] = client[d],
         client'[c].at \notin {"idle", "next"} => client'[c].sess \in Sessions
  PROVE  TypeOK'
  BY DEF TypeOK

\* The answers a client can get.
Answers == {"none", "waiting", "proved", "quit", "error", "missing", "timeout"}

\* Returns leaves the client idle, or in quit-all at the next session.
LEMMA ReturnsType ==
  ASSUME client \in [Clients -> Client], NEW c \in Clients,
         client[c].sess \in Sessions, NEW status \in Answers,
         Returns(c, status)
  PROVE  /\ client' \in [Clients -> Client]
         /\ \A d \in Clients : d # c => client'[d] = client[d]
         /\ client'[c].at \in {"idle", "next"}
         /\ client'[c].op \in {"none", "quit"}
         /\ client'[c].status = status
         /\ client'[c].sess = client[c].sess
         /\ client'[c].mine = Knows(c)
         /\ client'[c].log = << >>
  <1>1. client[c] \in Client
    OBVIOUS
  <1> DEFINE at == IF client[c].op = "quit" THEN "next" ELSE "idle"
             op == IF client[c].op = "quit" THEN "quit" ELSE "none"
             todo == client[c].todo \ {client[c].sess}
             mine == Knows(c)
             r == [Idle EXCEPT !.at = at, !.op = op, !.sess = client[c].sess,
                               !.mine = mine, !.todo = todo,
                               !.status = status]
  <1>2. client' = [client EXCEPT ![c] = r]
    BY DEF Returns
  <1>3. /\ at \in {"idle", "next"} /\ op \in {"none", "quit"}
        /\ todo \subseteq Sessions /\ mine \subseteq Sessions
    BY <1>1 DEF Client, Knows
  <1> HIDE DEF at, op, todo, mine
  <1>4. /\ r \in Client
        /\ r.at = at /\ r.op = op /\ r.status = status
        /\ r.sess = client[c].sess /\ r.mine = mine
    <2>1. PICK idle \in Client : idle = Idle
      BY IdleType
    <2>2. PICK i : i = [idle EXCEPT !.at = at, !.op = op, !.status = status]
      OBVIOUS
    <2>3. /\ i \in Client /\ i.at = at /\ i.op = op /\ i.status = status
      BY <2>2, <1>3 DEF Client, Answers
    <2>4. r = [i EXCEPT !.sess = client[c].sess, !.mine = mine, !.todo = todo]
      BY <2>1, <2>2, <1>1, <1>3 DEF Client
    <2> HIDE DEF r
    <2> QED
      BY <2>3, <2>4, <1>3 DEF Client
  <1>5. r.log = << >>
    BY DEF Idle
  <1> HIDE DEF r
  <1> QED
    BY <1>2, <1>3, <1>4, <1>5 DEF mine

\* Fails leaves the client idle.
LEMMA FailsType ==
  ASSUME client \in [Clients -> Client], NEW c \in Clients,
         NEW s \in Sessions \cup {Nobody}, NEW status \in Answers,
         Fails(c, s, status)
  PROVE  /\ client' \in [Clients -> Client]
         /\ \A d \in Clients : d # c => client'[d] = client[d]
         /\ client'[c].at = "idle" /\ client'[c].op = "none"
         /\ client'[c].status = status
         /\ client'[c].sess = s
         /\ client'[c].mine = client[c].mine
         /\ client'[c].log = << >>
  <1>1. client[c] \in Client
    OBVIOUS
  <1> DEFINE r == [Idle EXCEPT !.sess = s, !.status = status,
                               !.mine = client[c].mine]
  <1>2. client' = [client EXCEPT ![c] = r]
    BY DEF Fails
  <1>3. client[c].mine \subseteq Sessions
    BY <1>1 DEF Client
  <1>4. /\ r \in Client
        /\ r.status = status /\ r.sess = s /\ r.mine = client[c].mine
    BY <1>3, IdleType DEF Client, Answers
  <1>5. r.at = "idle" /\ r.op = "none" /\ r.log = << >>
    BY DEF Idle
  <1> HIDE DEF r
  <1> QED
    BY <1>2, <1>4, <1>5

\* The timeout leads to session-kill.
LEMMA TimeoutType ==
  ASSUME client \in [Clients -> Client], NEW c \in Clients, Timeout(c)
  PROVE  /\ client' \in [Clients -> Client]
         /\ \A d \in Clients : d # c => client'[d] = client[d]
         /\ client'[c].at = "kill" /\ client'[c].op = client[c].op
         /\ client'[c].status = "timeout"
         /\ client'[c].sess = client[c].sess
         /\ client'[c].mine = client[c].mine
         /\ client'[c].log = << >>
  <1> DEFINE log == << >>
             r == [client[c] EXCEPT !.at = "kill", !.list = {}, !.log = log,
                                    !.left = 0, !.reply = NoEntry,
                                    !.status = "timeout"]
  <1>1. client' = [client EXCEPT ![c] = r] /\ client[c] \in Client
    BY DEF Timeout
  <1>2. log \in Seq(Record) /\ log = << >>
    OBVIOUS
  <1>3. NoEntry \in Entry
    BY DEF NoEntry, Entry, Shown
  <1> HIDE DEF log
  <1>4. /\ r \in Client
        /\ r.at = "kill" /\ r.op = client[c].op /\ r.status = "timeout"
        /\ r.sess = client[c].sess /\ r.mine = client[c].mine /\ r.log = log
    BY <1>1, <1>2, <1>3 DEF Client
  <1> HIDE DEF r
  <1> QED
    BY <1>1, <1>2, <1>4

\* The client's part of a step: its record stays well typed, it stays where
\* sess is a session, and the other clients are as they were.
ClientPart(c) ==
  /\ client' \in [Clients -> Client]
  /\ \A d \in Clients : d # c => client'[d] = client[d]
  /\ client'[c].at \notin {"idle", "next"} => client'[c].sess \in Sessions

\* get-session and the count of the entries that wait in the queue.
LEMMA LookupType ==
  ASSUME TypeOK, NEW c \in Clients, NEW s \in Sessions,
         NEW op \in {"none", "init", "step", "quit"}, NEW cmd \in Command,
         Lookup(c, s, op, cmd)
  PROVE  session' \in [Sessions -> Session] /\ ClientPart(c)
  <1>1. session \in [Sessions -> Session] /\ client \in [Clients -> Client]
    BY DEF TypeOK
  <1>2. session[s] \in Session /\ client[c] \in Client
    BY <1>1
  <1>3. session[s].calls \in Nat /\ QueueCount(s) \in Nat
    BY <1>2, LenProperties DEF Session, QueueCount
  <1>4. CASE ~Listed(s)
    <2>1. Fails(c, s, "missing") /\ UNCHANGED session
      BY <1>4 DEF Lookup
    <2> QED
      BY <2>1, <1>1, FailsType DEF Answers, ClientPart
  <1>5. CASE Listed(s)
    <2>1. session' \in [Sessions -> Session]
      <3>1. session' = [session EXCEPT ![s].calls = @ + 1]
        BY <1>5 DEF Lookup
      <3>2. session[s].calls + 1 \in Nat
        BY <1>3
      <3> QED
        BY <3>1, <3>2, <1>1, <1>2 DEF Session
    <2>2. ClientPart(c)
      <3> DEFINE left == QueueCount(s)
                 call == session[s].calls + 1
                 r == [client[c] EXCEPT !.at = "drain", !.op = op, !.sess = s,
                         !.cmd = cmd, !.left = left, !.call = call,
                         !.status = "none"]
      <3>1. client' = [client EXCEPT ![c] = r]
        BY <1>5 DEF Lookup
      <3>2. left \in Nat /\ call \in Nat
        BY <1>3
      <3> HIDE DEF left, call
      <3>3. r \in Client /\ r.sess = s
        BY <3>2, <1>2 DEF Client
      <3> HIDE DEF r
      <3> QED
        BY <3>1, <3>3, <1>1 DEF ClientPart
    <2> QED
      BY <2>1, <2>2
  <1> QED
    BY <1>4, <1>5

\* The status of a proofstate is one of the flags; what is not open has ended.
LEMMA StatusType ==
  ASSUME session \in [Sessions -> Session], NEW c \in Clients,
         client[c].sess \in Sessions, NEW status \in StatusNow(c)
  PROVE  status = "open" \/ status \in {"proved", "quit"}
  <1>1. session[client[c].sess].flag \in Flag
    BY DEF Session
  <1> QED
    BY <1>1 DEF StatusNow, ShownGoal, Flag

\* A step of a client keeps the state well typed (make-session, prover-init,
\* prover-step, quit-all-proof-sessions, session-kill, interrupt-session).
LEMMA ClientType ==
  ASSUME TypeOK, Told, NEW c \in Clients, Begin(c) \/ ClientStep(c) \/ Timeout(c)
  PROVE  TypeOK'
  <1>1. /\ session \in [Sessions -> Session]
        /\ thread \in [Sessions -> Thread]
        /\ client \in [Clients -> Client]
        /\ allSessions \subseteq Sessions
        /\ doneSessions \in Seq(Record)
        /\ interrupted \subseteq Sessions
    BY DEF TypeOK
  <1>2. /\ client[c] \in Client
        /\ client[c].list \subseteq Sessions
        /\ client[c].todo \subseteq Sessions
        /\ client[c].mine \subseteq Sessions
        /\ client[c].left \in Nat
        /\ client[c].cmd \in Command
        /\ client[c].log \in Seq(Record)
        /\ client[c].status \in Answers
    BY <1>1 DEF Client, Answers
  <1>3. client[c].at \notin {"idle", "next"} => client[c].sess \in Sessions
    BY DEF TypeOK
  <1> DEFINE Kept == /\ session' \in [Sessions -> Session]
                     /\ thread' \in [Sessions -> Thread]
                     /\ allSessions' \subseteq Sessions
                     /\ interrupted' \subseteq Sessions
                     /\ ClientPart(c)
  <1>4. Kept
    <2>1. CASE \E s \in Sessions : BeginInit(c, s)
      <3>1. PICK s \in Sessions : BeginInit(c, s)
        BY <2>1
      <3> QED
        BY <3>1, <1>1, <1>2 DEF BeginInit, OnlyClient, ClientPart, Client
    <2>2. CASE \E s \in Sessions : Interrupt(c, s)
      <3>1. PICK s \in Sessions : Interrupt(c, s)
        BY <2>2
      <3>2. session[s] \in Session /\ session[s].asked \in Nat
        BY <1>1 DEF Session
      <3>3. session' \in [Sessions -> Session]
        <4>1. session' = [session EXCEPT ![s].asked = @ + 1]
          BY <3>1 DEF Interrupt
        <4>2. session[s].asked + 1 \in Nat
          BY <3>2
        <4> QED
          BY <4>1, <4>2, <3>2, <1>1 DEF Session
      <3> QED
        BY <3>1, <3>3, <1>1, <1>3 DEF Interrupt, ClientPart
    <2>3. CASE \E s \in Sessions, cmd \in Command : BeginStep(c, s, cmd)
      <3>1. PICK s \in Sessions, cmd \in Command : BeginStep(c, s, cmd)
        BY <2>3
      <3>2. session' \in [Sessions -> Session] /\ ClientPart(c)
        BY <3>1, LookupType DEF BeginStep
      <3> QED
        BY <3>1, <3>2, <1>1 DEF BeginStep, OnlyClient
    <2>4. CASE BeginQuitAll(c)
      BY <2>4, <1>1, <1>2, <1>3, ZenonT(60) DEF BeginQuitAll, OnlyClient, ClientPart, Client
    <2>5. CASE PushSession(c)
      BY <2>5, <1>1, <1>2, <1>3 DEF PushSession, OnlyClient, ClientPart, Client
    <2>6. CASE Spawn(c)
      <3>1. client[c].sess \in Sessions
        BY <2>6, <1>3 DEF Spawn
      <3>2. thread' \in [Sessions -> Thread]
        BY <2>6, <3>1, <1>1, GotoType DEF Spawn, Place
      <3>3. ClientPart(c)
        <4>1. client' = [client EXCEPT ![c].at = "name"]
          BY <2>6 DEF Spawn
        <4>2. [client[c] EXCEPT !.at = "name"] \in Client
          BY <1>2 DEF Client
        <4> QED
          BY <4>1, <4>2, <3>1, <1>1 DEF ClientPart
      <3> QED
        BY <2>6, <3>2, <3>3, <1>1 DEF Spawn
    <2>7. CASE Name(c)
      <3>1. client[c].sess \in Sessions
        BY <2>7, <1>3 DEF Name
      <3>2. session' \in [Sessions -> Session]
        BY <2>7, <3>1, <1>1, ZenonT(60) DEF Name, Session
      <3>3. ClientPart(c)
        <4>1. client' = [client EXCEPT ![c].at = "await"]
          BY <2>7 DEF Name
        <4>2. [client[c] EXCEPT !.at = "await"] \in Client
          BY <1>2 DEF Client
        <4> QED
          BY <4>1, <4>2, <3>1, <1>1 DEF ClientPart
      <3> QED
        BY <2>7, <3>2, <3>3, <1>1 DEF Name, OnlyClient
    <2>8. CASE Drain(c)
      <3> DEFINE s == client[c].sess
      <3>1. s \in Sessions /\ session[s] \in Session
        BY <2>8, <1>1, <1>3 DEF Drain
      <3>2. Tail(session[s].output) \in Seq(Entry)
        BY <2>8, <3>1, HeadTailProperties DEF Drain, Session
      <3>3. session' \in [Sessions -> Session]
        BY <2>8, <3>1, <3>2, <1>1 DEF Drain, Session, Shown
      <3>4. ClientPart(c)
        <4>1. client[c].left - 1 \in Nat
          BY <2>8, <1>2 DEF Drain
        <4>2. client' = [client EXCEPT ![c].left = @ - 1]
          BY <2>8 DEF Drain
        <4> QED
          BY <4>1, <4>2, <3>1, <1>1, <1>2 DEF ClientPart, Client
      <3> QED
        BY <2>8, <3>3, <3>4, <1>1 DEF Drain, OnlyClient
    <2>9. CASE Send(c)
      <3> DEFINE s == client[c].sess
      <3>1. s \in Sessions /\ session[s] \in Session
        BY <2>9, <1>1, <1>3 DEF Send
      <3>2. Append(session[s].input, client[c].cmd) \in Seq(Command)
        BY <3>1, <1>2, AppendProperties DEF Session
      <3>3. session' \in [Sessions -> Session]
        BY <2>9, <3>1, <3>2, <1>1 DEF Send, Session
      <3>4. ClientPart(c)
        BY <2>9, <3>1, <1>1, <1>2 DEF Send, ClientPart, Client
      <3> QED
        BY <2>9, <3>3, <3>4, <1>1 DEF Send, OnlyClient
    <2>10. CASE Await(c)
      <3> DEFINE s == client[c].sess
                 entry == Head(session[s].output)
      <3>1. s \in Sessions /\ session[s] \in Session
        BY <2>10, <1>1, <1>3 DEF Await
      <3>2. Tail(session[s].output) \in Seq(Entry) /\ entry \in Entry
        BY <2>10, <3>1, HeadTailProperties DEF Await, Session
      <3>3. session' \in [Sessions -> Session]
        BY <2>10, <3>1, <3>2, <1>1 DEF Await, Session
      <3>4. ClientPart(c)
        <4>1. CASE entry.head \in {"root", "subgoal"}
          <5>1. client' = [client EXCEPT ![c].at = "status",
                                         ![c].reply = entry]
            BY <2>10, <4>1 DEF Await
          <5> HIDE DEF entry
          <5> QED
            BY <5>1, <3>1, <3>2, <1>1, <1>2 DEF ClientPart, Client
        <4>2. CASE entry.head \notin {"root", "subgoal"}
          <5>1. Fails(c, s, "error")
            BY <2>10, <4>2 DEF Await
          <5> QED
            BY <5>1, <3>1, <1>1, FailsType DEF Answers, ClientPart
        <4> QED
          BY <4>1, <4>2
      <3> QED
        BY <2>10, <3>3, <3>4, <1>1 DEF Await, OnlyClient
    <2>11. CASE Status(c)
      <3>1. client[c].sess \in Sessions
        BY <2>11, <1>3 DEF Status
      <3>2. ClientPart(c)
        <4>1. CASE Returns(c, "waiting")
          BY <4>1, <3>1, <1>1, ReturnsType DEF Answers, ClientPart
        <4>2. CASE ~Returns(c, "waiting")
          <5>1. PICK place \in {"load", "join"}, status \in StatusNow(c) :
                  /\ status # "open"
                  /\ client' = [client EXCEPT ![c].at = place,
                                              ![c].status = status]
            BY <2>11, <4>2 DEF Status
          <5>2. status \in {"proved", "quit"}
            BY <5>1, <3>1, <1>1, StatusType
          <5> QED
            BY <5>1, <5>2, <3>1, <1>1, <1>2 DEF ClientPart, Client
        <4> QED
          BY <4>1, <4>2
      <3> QED
        BY <2>11, <3>2, <1>1 DEF Status, OnlyClient
    <2>12. CASE Join(c)
      BY <2>12, <1>1, <1>2, <1>3 DEF Join, OnlyClient, ClientPart, Client
    <2>13. CASE Remove(c)
      <3>1. client[c].sess \in Sessions
        BY <2>13, <1>3 DEF Remove
      <3>2. ClientPart(c)
        <4>1. CASE Returns(c, client[c].status)
          BY <4>1, <3>1, <1>1, <1>2, ReturnsType DEF ClientPart
        <4>2. CASE client' = [client EXCEPT ![c].at = "load", ![c].list = {}]
          BY <4>2, <3>1, <1>1, <1>2 DEF ClientPart, Client
        <4> QED
          BY <2>13, <4>1, <4>2 DEF Remove
      <3> QED
        BY <2>13, <3>2, <1>1, <1>2 DEF Remove, Without
    <2>18. CASE Load(c)
      <3>1. client[c].sess \in Sessions
        BY <2>18, <1>3 DEF Load
      <3>2. ClientPart(c)
        BY <2>18, <3>1, <1>1, <1>2 DEF Load, ClientPart, Client
      <3> QED
        BY <2>18, <3>2, <1>1 DEF Load, OnlyClient
    <2>19. CASE Store(c)
      <3>1. client[c].sess \in Sessions
        BY <2>19, <1>3 DEF Store
      <3>2. ClientPart(c)
        <4>1. CASE Returns(c, client[c].status)
          BY <4>1, <3>1, <1>1, <1>2, ReturnsType DEF ClientPart
        <4>2. CASE client' = [client EXCEPT ![c].at = "join", ![c].log = << >>]
          <5> DEFINE r == [client[c] EXCEPT !.at = "join", !.log = << >>]
          <5>1. client' = [client EXCEPT ![c] = r]
            BY <4>2
          <5>2. << >> \in Seq(Record)
            OBVIOUS
          <5>3. r \in Client /\ r.sess = client[c].sess
            BY <5>2, <1>2 DEF Client
          <5> HIDE DEF r
          <5> QED
            BY <5>1, <5>3, <3>1, <1>1 DEF ClientPart
        <4> QED
          BY <2>19, <4>1, <4>2 DEF Store
      <3> QED
        BY <2>19, <3>2, <1>1 DEF Store
    <2>14. CASE QuitNext(c)
      <3>1. CASE client[c].todo = {}
        <4>1. /\ client' = [client EXCEPT ![c].at = "idle", ![c].op = "none"]
              /\ UNCHANGED session
          BY <2>14, <3>1 DEF QuitNext
        <4>2. ClientPart(c)
          BY <4>1, <1>1, <1>2 DEF ClientPart, Client
        <4> QED
          BY <2>14, <4>1, <4>2, <1>1 DEF QuitNext, OnlyClient
      <3>2. CASE client[c].todo # {}
        <4>1. PICK s \in client[c].todo :
                \/ Fails(c, client[c].sess, "error") /\ UNCHANGED session
                \/ Lookup(c, s, "quit", "quit")
                \/ /\ client' = [client EXCEPT ![c].at = "kill", ![c].sess = s,
                                   ![c].status = "none"]
                   /\ UNCHANGED session
          BY <2>14, <3>2 DEF QuitNext
        <4>2. s \in Sessions /\ "quit" \in Command
          BY <1>2 DEF Command
        <4>3. session' \in [Sessions -> Session] /\ ClientPart(c)
          <5>1. CASE Lookup(c, s, "quit", "quit")
            BY <5>1, <4>2, LookupType
          <5>2. CASE Fails(c, client[c].sess, "error") /\ UNCHANGED session
            BY <5>2, <1>1, <1>2, FailsType DEF Answers, ClientPart, Client
          <5>3. CASE /\ client' = [client EXCEPT ![c].at = "kill",
                                   ![c].sess = s, ![c].status = "none"]
                     /\ UNCHANGED session
            BY <5>3, <4>2, <1>1, <1>2 DEF ClientPart, Client
          <5> QED
            BY <5>1, <5>2, <5>3, <4>1
        <4> QED
          BY <2>14, <4>3, <1>1 DEF QuitNext, OnlyClient
      <3> QED
        BY <3>1, <3>2
    <2>15. CASE Timeout(c)
      <3>1. client[c].sess \in Sessions
        BY <2>15, <1>3 DEF Timeout, Limited
      <3>2. ClientPart(c)
        BY <2>15, <3>1, <1>1, TimeoutType DEF ClientPart
      <3> QED
        BY <2>15, <3>2, <1>1 DEF Timeout, OnlyClient
    <2>16. CASE Kill(c)
      <3>1. client[c].sess \in Sessions /\ Alive(client[c].sess) \in BOOLEAN
        BY <2>16, <1>3 DEF Kill, Alive
      <3>2. thread' \in [Sessions -> Thread]
        BY <2>16, <3>1, <1>1 DEF Kill, Thread
      <3>3. ClientPart(c)
        BY <2>16, <3>1, <1>1, <1>2 DEF Kill, ClientPart, Client
      <3> QED
        BY <2>16, <3>2, <3>3, <1>1 DEF Kill
    <2>17. CASE Drop(c)
      <3>1. ClientPart(c)
        BY <2>17, <1>1, <1>2, <1>3, ReturnsType DEF Drop, ClientPart
      <3> QED
        BY <2>17, <3>1, <1>1, <1>2 DEF Drop, Without
    <2> QED
      BY <2>1, <2>2, <2>3, <2>4, <2>5, <2>6, <2>7, <2>8, <2>9,
         <2>10, <2>11, <2>12, <2>13, <2>14, <2>15, <2>16, <2>17, <2>18, <2>19
      DEF Begin, ClientStep
  <1>5. doneSessions' \in Seq(Record)
    <2>1. CASE doneSessions' = doneSessions
      BY <2>1, <1>1
    <2>2. CASE Store(c)
      <3> DEFINE e == <<client[c].sess, client[c].status>>
      <3>1. e \in Record
        <4>1. client[c].sess \in Sessions /\ client[c].status \in {"proved", "quit"}
          BY <2>2, <1>3 DEF Store, Told
        <4> QED
          BY <4>1 DEF Record, Flag
      <3>2. doneSessions' = <<e>> \o client[c].log
        BY <2>2 DEF Store
      <3> HIDE DEF e
      <3>3. <<e>> \in Seq(Record)
        BY <3>1
      <3> QED
        BY <3>2, <3>3, <1>2, ConcatProperties
    <2> QED
      BY <2>1, <2>2
      DEF Begin, ClientStep, Timeout, BeginInit, BeginStep, BeginQuitAll,
          Interrupt, PushSession, Spawn, Name, Drain, Send, Await, Status,
          Join, Remove, Load, QuitNext, Kill, Drop, OnlyClient
  <1> QED
    BY <1>4, <1>5, <1>1, ClientFrame DEF ClientPart

-----------------------------------------------------------------------------
(***************************************************************************)
(* What the steps do to the parts the invariant relates.                   *)
(***************************************************************************)

\* A step of a thread concerns its own session, which keeps its name; the flag
\* of the root changes only while it is open, and the thread does not go back.
LEMMA ThreadEffect ==
  ASSUME TypeOK, Phase, NEW s \in Sessions, ThreadStep(s) \/ HandleInterrupt(s)
  PROVE  /\ UNCHANGED <<doneSessions, client>>
         /\ \A t \in Sessions : t # s => /\ session'[t] = session[t]
                                         /\ thread'[t] = thread[t]
         /\ session'[s].named = session[s].named
         /\ thread[s].at # "none" /\ thread'[s].at # "none"
         /\ session'[s].flag = session[s].flag \/ session[s].flag = "open"
         /\ thread'[s].at \in {"showing", "reading", "clearing", "waiting",
                               "busy", "stdin"} => session'[s].flag = "open"
         /\ thread'[s].at = "finishing" => session'[s].flag # "quit"
  <1>1. /\ session \in [Sessions -> Session]
        /\ thread \in [Sessions -> Thread]
    BY DEF TypeOK
  <1>2. /\ thread[s].at \in {"none", "showing", "reading", "clearing",
                             "waiting", "busy", "stdin"}
             => session[s].flag = "open"
        /\ thread[s].at = "finishing" => session[s].flag # "quit"
    BY DEF Phase
  <1>3. session[s] \in Session /\ thread[s] \in Thread
    BY <1>1
  <1> USE <1>1, <1>2, <1>3 DEF OnlySession, Goto, Session, Thread
  <1>4. CASE Show(s)
    <2>1. CASE ~Found(s)
      BY <1>4, <2>1 DEF Show
    <2>2. CASE Found(s)
      <3>1. PICK goal \in {"root", "subgoal"} :
              session' = [session EXCEPT ![s].outputs = goal]
        BY <1>4, <2>2 DEF Show
      <3> QED
        BY <1>4, <3>1 DEF Show
    <2> QED
      BY <2>1, <2>2
  <1>5. CASE Read(s)
    BY <1>5 DEF Read, Pushed
  <1>6. CASE Clear(s)
    BY <1>6 DEF Clear
  <1>7. CASE Take(s)
    BY <1>7 DEF Take
  <1>8. CASE Stay(s)
    BY <1>8 DEF Stay
  <1>9. CASE End(s)
    BY <1>9 DEF End
  <1>10. CASE Finish(s)
    <2>1. session[s].flag \in {"open", "proved"}
      BY <1>10 DEF Finish, Flag
    <2> QED
      BY <1>10, <2>1 DEF Finish, EndFlag
  <1>11. CASE PushLast(s)
    BY <1>11 DEF PushLast, Pushed
  <1>12. CASE Exit(s)
    BY <1>12 DEF Exit
  <1>13. CASE Unwind(s)
    BY <1>13 DEF Unwind, Interruptible
  <1>14. CASE HandleInterrupt(s)
    BY <1>14 DEF HandleInterrupt, Interruptible
  <1> QED
    BY <1>4, <1>5, <1>6, <1>7, <1>8, <1>9, <1>10, <1>11, <1>12, <1>13, <1>14
    DEF ThreadStep

\* The steps of a thread keep the invariant.
LEMMA ThreadInv ==
  ASSUME IInv, NEW s \in Sessions, ThreadStep(s) \/ HandleInterrupt(s)
  PROVE  IInv'
  <1>1. TypeOK /\ TypeOK'
    BY ThreadType DEF IInv
  <1>2. /\ UNCHANGED <<doneSessions, client>>
        /\ \A t \in Sessions : t # s => /\ session'[t] = session[t]
                                        /\ thread'[t] = thread[t]
        /\ session'[s].named = session[s].named
        /\ thread[s].at # "none" /\ thread'[s].at # "none"
        /\ session'[s].flag = session[s].flag \/ session[s].flag = "open"
        /\ thread'[s].at \in {"showing", "reading", "clearing", "waiting",
                              "busy", "stdin"} => session'[s].flag = "open"
        /\ thread'[s].at = "finishing" => session'[s].flag # "quit"
    BY ThreadEffect DEF IInv
  <1>4. \A c \in Clients : client[c].at \notin {"idle", "next"} =>
                             client[c].sess \in Sessions
    BY <1>1 DEF TypeOK
  <1>5. Phase'
    BY <1>2 DEF IInv, Phase
  <1>6. Told'
    BY <1>2 DEF IInv, Told
  <1>8. Birth'
    <2>1. \A t \in Sessions : /\ session'[t].named = session[t].named
                              /\ thread'[t].at = "none" <=> thread[t].at = "none"
      BY <1>2
    <2>2. \A c \in Clients : client[c].mine \subseteq Sessions
      BY <1>1 DEF TypeOK, Client
    <2> QED
      BY <1>2, <2>1, <2>2, <1>4 DEF IInv, Birth
  <1> QED
    BY <1>1, <1>5, <1>6, <1>8 DEF IInv

\* A client changes no flag and takes no name away.
FlagsStay == \A s \in Sessions :
               /\ session'[s].flag = session[s].flag
               /\ session[s].named => session'[s].named

\* get-session and queue-count leave the flags, and the client finds a session
\* to drain or is idle again.
LEMMA LookupEffect ==
  ASSUME TypeOK, NEW c \in Clients, NEW s \in Sessions, NEW op, NEW cmd,
         Lookup(c, s, op, cmd)
  PROVE  /\ FlagsStay
         /\ \A t \in Sessions : session'[t].named = session[t].named
         /\ client'[c].at \in {"idle", "drain"}
         /\ client'[c].sess = s
         /\ client'[c].mine = client[c].mine
         /\ client'[c].op \in {"none", op}
         /\ client'[c].status \in {"missing", "none"}
         /\ client'[c].log \in {client[c].log, << >>}
         /\ client'[c].at = "drain" => client'[c].cmd = cmd
         /\ \A d \in Clients : d # c => client'[d] = client[d]
  <1>1. session \in [Sessions -> Session] /\ client \in [Clients -> Client]
    BY DEF TypeOK
  <1>2. session[s] \in Session /\ client[c] \in Client
    BY <1>1
  <1>3. CASE ~Listed(s)
    <2>1. Fails(c, s, "missing") /\ session' = session
      BY <1>3 DEF Lookup
    <2> QED
      BY <2>1, <1>1, FailsType DEF Answers, FlagsStay
  <1>4. CASE Listed(s)
    <2>1. session' = [session EXCEPT ![s].calls = session[s].calls + 1]
      BY <1>4 DEF Lookup
    <2>2. /\ FlagsStay
          /\ \A t \in Sessions : session'[t].named = session[t].named
      BY <2>1, <1>1, <1>2 DEF FlagsStay, Session
    <2>3. client' = [client EXCEPT ![c].at = "drain", ![c].op = op,
                                   ![c].sess = s, ![c].cmd = cmd,
                                   ![c].left = QueueCount(s),
                                   ![c].call = session[s].calls + 1,
                                   ![c].status = "none"]
      BY <1>4 DEF Lookup
    <2> QED
      BY <2>2, <2>3, <1>1, <1>2 DEF Client
  <1> QED
    BY <1>3, <1>4

\* A step of a client leaves the flags to the provers.
LEMMA ClientFlags ==
  ASSUME TypeOK, NEW c \in Clients, Begin(c) \/ ClientStep(c) \/ Timeout(c)
  PROVE  FlagsStay
  <1>1. session \in [Sessions -> Session]
    BY DEF TypeOK
  <1>2. client[c].at \notin {"idle", "next"} => client[c].sess \in Sessions
    BY DEF TypeOK
  <1>3. CASE UNCHANGED session
    BY <1>3 DEF FlagsStay
  <1>4. ASSUME NEW s \in Sessions, NEW op, NEW cmd, Lookup(c, s, op, cmd)
        PROVE  FlagsStay
    BY <1>4, LookupEffect
  <1>5. CASE \E s \in Sessions : Interrupt(c, s)
    BY <1>5, <1>1 DEF Interrupt, FlagsStay, Session
  <1>6. CASE Name(c)
    BY <1>6, <1>1, <1>2 DEF Name, FlagsStay, Session
  <1>7. CASE Drain(c)
    BY <1>7, <1>1, <1>2 DEF Drain, FlagsStay, Session
  <1>8. CASE Send(c)
    BY <1>8, <1>1, <1>2 DEF Send, FlagsStay, Session
  <1>9. CASE Await(c)
    BY <1>9, <1>1, <1>2 DEF Await, FlagsStay, Session
  <1>10. CASE \E s \in Sessions, cmd \in Command : BeginStep(c, s, cmd)
    BY <1>10, <1>4 DEF BeginStep
  <1>11. CASE QuitNext(c)
    <2>1. client[c].todo \subseteq Sessions
      BY DEF TypeOK, Client
    <2> QED
      BY <1>11, <2>1, <1>3, <1>4 DEF QuitNext
  <1> QED
    BY <1>3, <1>5, <1>6, <1>7, <1>8, <1>9, <1>10, <1>11
    DEF Begin, ClientStep, Timeout, BeginInit, BeginQuitAll, PushSession,
        Spawn, Status, Join, Remove, Load, Store, Kill, Drop

\* Only make-session names a session.
LEMMA ClientNamed ==
  ASSUME TypeOK, NEW c \in Clients, Begin(c) \/ ClientStep(c) \/ Timeout(c),
         ~Name(c)
  PROVE  \A s \in Sessions : session'[s].named = session[s].named
  <1>1. session \in [Sessions -> Session]
    BY DEF TypeOK
  <1>2. client[c].at \notin {"idle", "next"} => client[c].sess \in Sessions
    BY DEF TypeOK
  <1>3. CASE UNCHANGED session
    BY <1>3
  <1>4. ASSUME NEW s \in Sessions, NEW op, NEW cmd, Lookup(c, s, op, cmd)
        PROVE  \A t \in Sessions : session'[t].named = session[t].named
    BY <1>4, LookupEffect
  <1>5. CASE \E s \in Sessions : Interrupt(c, s)
    BY <1>5, <1>1 DEF Interrupt, Session
  <1>6. CASE Drain(c) \/ Send(c) \/ Await(c)
    <2>1. client[c].sess \in Sessions
      BY <1>6, <1>2 DEF Drain, Send, Await
    <2>2. CASE Drain(c)
      BY <2>1, <2>2, <1>1 DEF Drain, Session
    <2>3. CASE Send(c)
      BY <2>1, <2>3, <1>1 DEF Send, Session
    <2>4. CASE Await(c)
      BY <2>1, <2>4, <1>1 DEF Await, Session
    <2> QED
      BY <1>6, <2>2, <2>3, <2>4
  <1>7. CASE \E s \in Sessions, cmd \in Command : BeginStep(c, s, cmd)
    BY <1>7, <1>4 DEF BeginStep
  <1>8. CASE QuitNext(c)
    <2>1. client[c].todo \subseteq Sessions
      BY DEF TypeOK, Client
    <2> QED
      BY <1>8, <2>1, <1>3, <1>4 DEF QuitNext
  <1> QED
    BY <1>3, <1>5, <1>6, <1>7, <1>8
    DEF Begin, ClientStep, Timeout, BeginInit, BeginQuitAll, PushSession,
        Spawn, Status, Join, Remove, Load, Store, Kill, Drop

\* A client leaves the threads where they are, but for the one it starts.
LEMMA ClientThreads ==
  ASSUME TypeOK, NEW c \in Clients, Begin(c) \/ ClientStep(c) \/ Timeout(c),
         ~Spawn(c)
  PROVE  \A s \in Sessions : thread'[s].at = thread[s].at
  <1>1. thread \in [Sessions -> Thread]
    BY DEF TypeOK
  <1>2. CASE UNCHANGED thread
    BY <1>2
  <1>3. CASE Kill(c)
    BY <1>3, <1>1 DEF Kill, Thread
  <1> QED
    BY <1>2, <1>3
    DEF Begin, ClientStep, Timeout, BeginInit, BeginStep, BeginQuitAll,
        Interrupt, PushSession, Name, Drain, Send, Await, Status, Join,
        Remove, Load, Store, QuitNext, Drop, OnlyClient

\* A client is told of the end of a proof only by a status that says so.
LEMMA ClientTold ==
  ASSUME IInv, NEW c \in Clients, Begin(c) \/ ClientStep(c) \/ Timeout(c)
  PROVE  client'[c].at \in {"join", "remove", "load", "record"} =>
           /\ client[c].at \in {"status", "join", "remove", "load", "record"}
           /\ client'[c].status \in {"proved", "quit"}
           /\ client'[c].sess = client[c].sess
           /\ client'[c].op = client[c].op
           /\ client[c].at = "status" => client'[c].status \in StatusNow(c)
           /\ client[c].at # "status" => client'[c].status = client[c].status
  <1>1. /\ TypeOK /\ client \in [Clients -> Client] /\ client[c] \in Client
        /\ session \in [Sessions -> Session]
        /\ client[c].todo \subseteq Sessions /\ client[c].status \in Answers
    BY DEF IInv, TypeOK, Client, Answers
  <1>2. client[c].at \notin {"idle", "next"} => client[c].sess \in Sessions
    BY <1>1 DEF TypeOK
  <1> DEFINE Ends == {"join", "remove", "load", "record"}
  <1>3. CASE client'[c].at \notin Ends
    BY <1>3
  <1>4. ASSUME NEW status \in Answers, client[c].sess \in Sessions,
               Returns(c, status)
        PROVE  client'[c].at \notin Ends
    <2>1. client'[c].at \in {"idle", "next"}
      BY <1>1, <1>4, ReturnsType
    <2> QED
      BY <2>1
  <1>5. ASSUME NEW s \in Sessions \cup {Nobody}, NEW status \in Answers,
               Fails(c, s, status)
        PROVE  client'[c].at \notin Ends
    <2>1. client'[c].at = "idle"
      BY <1>1, <1>5, FailsType
    <2> QED
      BY <2>1
  <1>6. ASSUME NEW s \in Sessions, NEW op, NEW cmd, Lookup(c, s, op, cmd)
        PROVE  client'[c].at \notin Ends
    <2>1. client'[c].at \in {"idle", "drain"}
      BY <1>1, <1>6, LookupEffect
    <2> QED
      BY <2>1
  <1>7. CASE Status(c)
    <2>1. PICK status \in StatusNow(c) :
            IF status = "open" THEN Returns(c, "waiting")
            ELSE client' = [client EXCEPT
                   ![c].at = IF client[c].op = "init" THEN "load" ELSE "join",
                   ![c].status = status]
      BY <1>7 DEF Status
    <2>2. client[c].at = "status" /\ client[c].sess \in Sessions
      BY <1>2, <1>7 DEF Status
    <2>3. CASE status = "open"
      BY <2>1, <2>2, <2>3, <1>3, <1>4 DEF Answers
    <2>4. CASE status # "open"
      <3>1. status \in {"proved", "quit"}
        BY <2>2, <2>4, <1>1, StatusType
      <3>2. /\ client'[c].status = status /\ client'[c].sess = client[c].sess
            /\ client'[c].op = client[c].op
        BY <2>1, <2>4, <1>1 DEF Client
      <3> QED
        BY <2>2, <3>1, <3>2
    <2> QED
      BY <2>3, <2>4
  <1>8. CASE Join(c) \/ Load(c)
    <2>1. /\ client'[c].status = client[c].status
          /\ client'[c].sess = client[c].sess
          /\ client'[c].op = client[c].op
          /\ client[c].at \in {"join", "load"}
      BY <1>8, <1>1 DEF Join, Load, Client
    <2> QED
      BY <2>1 DEF IInv, Told
  <1>9. CASE Remove(c)
    <2>1. client[c].at = "remove" /\ client[c].sess \in Sessions
      BY <1>2, <1>9 DEF Remove
    <2>2. CASE Returns(c, client[c].status)
      BY <2>1, <2>2, <1>1, <1>3, <1>4
    <2>3. CASE client' = [client EXCEPT ![c].at = "load", ![c].list = {}]
      <3>1. /\ client'[c].status = client[c].status
            /\ client'[c].sess = client[c].sess
            /\ client'[c].op = client[c].op
        BY <2>3, <1>1 DEF Client
      <3> QED
        BY <2>1, <3>1 DEF IInv, Told
    <2> QED
      BY <1>9, <2>2, <2>3 DEF Remove
  <1>10. CASE Store(c)
    <2>1. client[c].at = "record" /\ client[c].sess \in Sessions
      BY <1>2, <1>10 DEF Store
    <2>2. CASE Returns(c, client[c].status)
      BY <2>1, <2>2, <1>1, <1>3, <1>4
    <2>3. CASE client' = [client EXCEPT ![c].at = "join", ![c].log = << >>]
      <3>1. /\ client'[c].status = client[c].status
            /\ client'[c].sess = client[c].sess
            /\ client'[c].op = client[c].op
        BY <2>3, <1>1 DEF Client
      <3> QED
        BY <2>1, <3>1 DEF IInv, Told
    <2> QED
      BY <1>10, <2>2, <2>3 DEF Store
  <1>11. CASE Await(c)
    <2>1. CASE Fails(c, client[c].sess, "error")
      BY <2>1, <1>1, <1>3, <1>5, FailsType DEF Answers, Client
    <2>2. CASE client' = [client EXCEPT ![c].at = "status",
                            ![c].reply = Head(session[client[c].sess].output)]
      BY <2>2, <1>1, <1>3 DEF Client
    <2> QED
      BY <1>11, <2>1, <2>2 DEF Await
  <1>12. CASE Drop(c)
    <2>1. client[c].sess \in Sessions /\ Returns(c, client[c].status)
      BY <1>2, <1>12 DEF Drop
    <2> QED
      BY <2>1, <1>1, <1>3, <1>4
  <1>13. CASE Begin(c) \/ Timeout(c)
    <2>1. CASE \E s \in Sessions, cmd \in Command : BeginStep(c, s, cmd)
      BY <2>1, <1>3, <1>6 DEF BeginStep
    <2>2. CASE \E s \in Sessions : BeginInit(c, s) \/ Interrupt(c, s)
      <3>1. client'[c].at \in {"idle", "push"}
        BY <2>2, <1>1 DEF BeginInit, Interrupt, Client
      <3> QED
        BY <3>1, <1>3
    <2>3. CASE BeginQuitAll(c) \/ Timeout(c)
      <3>1. client'[c].at \in {"next", "kill"}
        BY <2>3, <1>1, TimeoutType DEF BeginQuitAll, Client
      <3> QED
        BY <3>1, <1>3
    <2> QED
      BY <1>13, <2>1, <2>2, <2>3 DEF Begin
  <1>14. CASE QuitNext(c)
    <2>1. CASE \E s \in client[c].todo : Lookup(c, s, "quit", "quit")
      BY <2>1, <1>1, <1>3, <1>6
    <2>2. CASE client' = [client EXCEPT ![c].at = "idle", ![c].op = "none"]
      BY <2>2, <1>1, <1>3 DEF Client
    <2>3. CASE Fails(c, client[c].sess, "error")
      BY <2>3, <1>1, <1>3, <1>5 DEF Answers, Client
    <2>4. CASE \E s \in Sessions :
                 client' = [client EXCEPT ![c].at = "kill", ![c].sess = s,
                                          ![c].status = "none"]
      BY <2>4, <1>1, <1>3 DEF Client
    <2> QED
      BY <1>14, <2>1, <2>2, <2>3, <2>4, <1>1 DEF QuitNext
  <1>15. CASE \/ PushSession(c) \/ Spawn(c) \/ Name(c) \/ Drain(c)
              \/ Send(c) \/ Kill(c)
    <2>1. client'[c].at \in {"spawn", "name", "await", "drain", "drop"}
      BY <1>15, <1>1 DEF PushSession, Spawn, Name, Drain, Send, Kill, Client
    <2> QED
      BY <2>1, <1>3
  <1> QED
    BY <1>7, <1>8, <1>9, <1>10, <1>11, <1>12, <1>13, <1>14, <1>15
    DEF ClientStep

\* The sessions a client comes to: a new one, one it or another client has
\* named, or the one it was at.
Comes(c) == \/ client'[c].sess = client[c].sess
            \/ client'[c].sess \in client[c].mine
            \/ client'[c].sess \in Sessions /\ session[client'[c].sess].named

\* A client learns of a session it has made when prover-init returns.
Learns(c) == \/ client'[c].mine = client[c].mine
             \/ /\ client[c].op = "init" /\ client'[c].op # "init"
                /\ client[c].at \in {"status", "remove", "record"}
                /\ client'[c].mine = client[c].mine \cup {client[c].sess}

\* The part of a session's start a client is in, after a step.
Starts(c) ==
  /\ client'[c].mine = client[c].mine
  /\ \/ /\ \E s \in Sessions : BeginInit(c, s) /\ client'[c].sess = s
        /\ client'[c].at = "push" /\ client'[c].op = "init"
     \/ /\ PushSession(c)
        /\ client'[c].at = "spawn" /\ client'[c].op = client[c].op
        /\ client'[c].sess = client[c].sess
     \/ /\ Name(c)
        /\ client'[c].at = "await" /\ client'[c].op = client[c].op
        /\ client'[c].sess = client[c].sess

\* Elsewhere: it is at a session that has a name, and does not come to be in
\* prover-init.
Works(c) == /\ client'[c].at \notin {"push", "spawn", "name"}
            /\ client[c].at \notin {"push", "spawn", "name"}
            /\ Learns(c)
            /\ Comes(c)
            /\ \/ client'[c].at \in {"idle", "next"}
               \/ /\ client'[c].sess \in Sessions
                  /\ client'[c].sess = client[c].sess
                  /\ client[c].at \notin {"idle", "next"}
               \/ session[client'[c].sess].named
            /\ client'[c].op = "init" =>
                 /\ client[c].op = "init" /\ client'[c].sess = client[c].sess
                 /\ client'[c].at \notin {"idle", "next", "drain", "kill", "drop"}

\* What a step of a client, other than starting a thread, does to its record.
LEMMA ClientMove ==
  ASSUME TypeOK, Birth, NEW c \in Clients,
         Begin(c) \/ ClientStep(c) \/ Timeout(c)
  PROVE  /\ \A d \in Clients : d # c => client'[d] = client[d]
         /\ Spawn(c) \/ Starts(c) \/ Works(c)
  <1>1. client \in [Clients -> Client] /\ client[c] \in Client
    BY DEF TypeOK
  <1>2. /\ client[c].todo \subseteq Sessions
        /\ client[c].mine \subseteq Sessions
        /\ client[c].status \in Answers
    BY <1>1 DEF Client, Answers
  <1>3. client[c].at \notin {"idle", "next"} => client[c].sess \in Sessions
    BY DEF TypeOK
  <1> DEFINE Others == \A d \in Clients : d # c => client'[d] = client[d]
  <1>4. ASSUME NEW s \in Sessions, NEW op \in {"step", "quit"}, NEW cmd,
               Lookup(c, s, op, cmd), client[c].at \in {"idle", "next"},
               s \in client[c].mine \/ session[s].named
        PROVE  Others /\ Works(c)
    <2>1. session[s].named
      BY <1>4 DEF Birth
    <2> QED
      BY <2>1, <1>4, LookupEffect DEF Works, Comes, Learns
  <1>5. ASSUME NEW status \in Answers, Returns(c, status),
               client[c].at \in {"status", "remove", "record", "drop"},
               client[c].at = "drop" => client[c].op # "init"
        PROVE  Others /\ Works(c)
    <2>1. /\ Others
          /\ client'[c].at \in {"idle", "next"}
          /\ client'[c].op \in {"none", "quit"}
          /\ client'[c].sess = client[c].sess
          /\ client'[c].mine = Knows(c)
      BY <1>1, <1>3, <1>5, ReturnsType
    <2> QED
      BY <2>1, <1>5 DEF Works, Comes, Learns, Knows
  <1>6. ASSUME Fails(c, client[c].sess, "error"),
               client[c].at \notin {"push", "spawn", "name"}
        PROVE  Others /\ Works(c)
    <2>1. client[c].sess \in Sessions \cup {Nobody}
      BY <1>1 DEF Client
    <2>2. /\ Others
          /\ client'[c].at = "idle" /\ client'[c].op = "none"
          /\ client'[c].sess = client[c].sess
          /\ client'[c].mine = client[c].mine
      BY <2>1, <1>1, <1>6, FailsType DEF Answers
    <2> QED
      BY <2>2, <1>6 DEF Works, Comes, Learns
  \* A step that stays at the session, within the same function.
  <1>7. ASSUME client[c].at \notin {"idle", "next", "push", "spawn", "name"},
               client'[c].at \notin {"push", "spawn", "name"},
               client'[c].sess = client[c].sess,
               client'[c].op = client[c].op,
               client'[c].mine = client[c].mine,
               client'[c].at \in {"idle", "next", "drain", "kill", "drop"} =>
                 client[c].op # "init"
        PROVE  Works(c)
    BY <1>3, <1>7 DEF Works, Comes, Learns
  <1>8. ASSUME NEW s \in Sessions, BeginInit(c, s)
        PROVE  Others /\ Starts(c)
    <2>1. /\ Others /\ client'[c].sess = s /\ client'[c].op = "init"
          /\ client'[c].at = "push" /\ client'[c].mine = client[c].mine
      BY <1>8, <1>1 DEF BeginInit, Client
    <2> QED
      BY <1>8, <2>1 DEF Starts
  <1>9. ASSUME NEW s \in Sessions, Interrupt(c, s)
        PROVE  Others /\ Works(c)
    <2>1. client[c].at = "idle" /\ UNCHANGED client
      BY <1>9 DEF Interrupt
    <2> QED
      BY <2>1 DEF Works, Comes, Learns, Birth
  <1>10. ASSUME NEW s \in Sessions, NEW cmd \in Command, BeginStep(c, s, cmd)
         PROVE  Others /\ Works(c)
    BY <1>10, <1>4 DEF BeginStep
  <1>11. CASE BeginQuitAll(c)
    <2>1. /\ Others /\ client[c].at = "idle"
          /\ client'[c].at = "next" /\ client'[c].op = "quit"
          /\ client'[c].sess = client[c].sess
          /\ client'[c].mine = client[c].mine
      BY <1>11, <1>1 DEF BeginQuitAll, Client
    <2> QED
      BY <2>1 DEF Works, Comes, Learns
  <1>12. CASE Timeout(c)
    <2>1. /\ Others /\ client[c].at \in Limited /\ client[c].op = "quit"
          /\ client'[c].at = "kill" /\ client'[c].op = client[c].op
          /\ client'[c].sess = client[c].sess
          /\ client'[c].mine = client[c].mine
      BY <1>12, <1>1, TimeoutType DEF Timeout
    <2> QED
      BY <2>1, <1>7 DEF Limited
  <1>13. CASE PushSession(c)
    <2>1. client' = [client EXCEPT ![c].at = "spawn"]
      BY <1>13 DEF PushSession
    <2> QED
      BY <1>13, <2>1, <1>1 DEF Starts, Client
  <1>14. CASE Name(c)
    <2>1. client' = [client EXCEPT ![c].at = "await"]
      BY <1>14 DEF Name
    <2> QED
      BY <1>14, <2>1, <1>1 DEF Starts, Client
  <1>15. CASE Drain(c) \/ Send(c) \/ Join(c) \/ Load(c) \/ Kill(c)
    <2>1. /\ Others
          /\ client[c].at \in {"drain", "join", "load", "kill"}
          /\ client'[c].at \in {"drain", "await", "remove", "record", "drop"}
          /\ client'[c].op = client[c].op
          /\ client'[c].sess = client[c].sess
          /\ client'[c].mine = client[c].mine
      BY <1>15, <1>1 DEF Drain, Send, Join, Load, Kill, Client
    <2>2. client'[c].at \in {"drain", "drop"} => client[c].op # "init"
      BY <2>1, <1>1, <1>15 DEF Birth, Drain, Send, Join, Load, Kill, Client
    <2> QED
      BY <2>1, <2>2, <1>7
  <1>16. CASE Await(c)
    <2>1. client[c].at = "await"
      BY <1>16 DEF Await
    <2>2. CASE Fails(c, client[c].sess, "error")
      BY <2>1, <2>2, <1>6
    <2>3. CASE client' = [client EXCEPT ![c].at = "status",
                            ![c].reply = Head(session[client[c].sess].output)]
      <3>1. /\ Others /\ client'[c].at = "status"
            /\ client'[c].op = client[c].op
            /\ client'[c].sess = client[c].sess
            /\ client'[c].mine = client[c].mine
        BY <2>3, <1>1 DEF Client
      <3> QED
        BY <2>1, <3>1, <1>7
    <2> QED
      BY <1>16, <2>2, <2>3 DEF Await
  <1>17. CASE Status(c)
    <2>1. client[c].at = "status"
      BY <1>17 DEF Status
    <2>2. CASE Returns(c, "waiting")
      BY <2>1, <2>2, <1>5 DEF Answers
    <2>3. CASE ~Returns(c, "waiting")
      <3>1. PICK place \in {"load", "join"}, status \in StatusNow(c) :
              client' = [client EXCEPT ![c].at = place, ![c].status = status]
        BY <2>3, <1>17 DEF Status
      <3>2. /\ Others /\ client'[c].at \in {"load", "join"}
            /\ client'[c].op = client[c].op
            /\ client'[c].sess = client[c].sess
            /\ client'[c].mine = client[c].mine
        BY <3>1, <1>1 DEF Client
      <3> QED
        BY <2>1, <3>2, <1>7
    <2> QED
      BY <2>2, <2>3
  <1>18. CASE Remove(c) \/ Store(c)
    <2>1. client[c].at \in {"remove", "record"}
      BY <1>18 DEF Remove, Store
    <2>2. CASE Returns(c, client[c].status)
      BY <2>1, <2>2, <1>2, <1>5
    <2>3. CASE \/ client' = [client EXCEPT ![c].at = "load", ![c].list = {}]
               \/ client' = [client EXCEPT ![c].at = "join", ![c].log = << >>]
      <3>1. /\ Others /\ client'[c].at \in {"load", "join"}
            /\ client'[c].op = client[c].op
            /\ client'[c].sess = client[c].sess
            /\ client'[c].mine = client[c].mine
        BY <2>3, <1>1 DEF Client
      <3> QED
        BY <2>1, <3>1, <1>7
    <2> QED
      BY <1>18, <2>2, <2>3 DEF Remove, Store
  <1>19. CASE Drop(c)
    <2>1. client[c].at = "drop" /\ Returns(c, client[c].status)
      BY <1>19 DEF Drop
    <2> QED
      BY <2>1, <1>2, <1>5 DEF Birth
  <1>20. CASE QuitNext(c)
    <2>1. client[c].at = "next"
      BY <1>20 DEF QuitNext
    <2>2. CASE \E s \in client[c].todo :
                 session[s].named /\ Lookup(c, s, "quit", "quit")
      BY <2>1, <2>2, <1>2, <1>4
    <2>3. CASE client' = [client EXCEPT ![c].at = "idle", ![c].op = "none"]
      <3>1. /\ Others /\ client'[c].at = "idle" /\ client'[c].op = "none"
            /\ client'[c].sess = client[c].sess
            /\ client'[c].mine = client[c].mine
        BY <2>3, <1>1 DEF Client
      <3> QED
        BY <2>1, <3>1 DEF Works, Comes, Learns
    <2>4. CASE Fails(c, client[c].sess, "error")
      BY <2>1, <2>4, <1>6
    <2>5. CASE \E s \in client[c].todo :
                 /\ session[s].named
                 /\ client' = [client EXCEPT ![c].at = "kill", ![c].sess = s,
                                             ![c].status = "none"]
      <3>1. PICK s \in client[c].todo :
              /\ session[s].named
              /\ client' = [client EXCEPT ![c].at = "kill", ![c].sess = s,
                                          ![c].status = "none"]
        BY <2>5
      <3>2. /\ Others /\ client'[c].at = "kill" /\ client'[c].sess = s
            /\ client'[c].mine = client[c].mine
            /\ client'[c].op = client[c].op
        BY <3>1, <1>1 DEF Client
      <3>3. client[c].op # "init"
        BY <2>1 DEF Birth
      <3> QED
        BY <2>1, <3>1, <3>2, <3>3, <1>2 DEF Works, Comes, Learns
    <2> QED
      BY <1>20, <2>2, <2>3, <2>4, <2>5 DEF QuitNext
  <1>21. CASE Spawn(c)
    BY <1>21, <1>1 DEF Spawn
  <1> QED
    BY <1>8, <1>9, <1>10, <1>11, <1>12, <1>13, <1>14, <1>15, <1>16, <1>17,
       <1>18, <1>19, <1>20, <1>21
    DEF Begin, ClientStep

\* A session is named only by the client that has started its thread.
LEMMA ClientNames ==
  ASSUME TypeOK, Told, Birth, NEW c \in Clients,
         Begin(c) \/ ClientStep(c) \/ Timeout(c), ~Spawn(c)
  PROVE  /\ \A s \in Sessions : session'[s].named => thread[s].at # "none"
         /\ \A s \in client'[c].mine : session'[s].named
         /\ client'[c].at # "name"
         /\ client'[c].at \notin {"idle", "next", "push", "spawn", "name"} =>
              session'[client'[c].sess].named
  <1>1. /\ session \in [Sessions -> Session] /\ client[c] \in Client
        /\ client[c].mine \subseteq Sessions
    BY DEF TypeOK, Client
  <1>2. FlagsStay
    BY ClientFlags
  <1>3. Starts(c) \/ Works(c)
    BY ClientMove
  <1>4. client'[c].at # "name"
    BY <1>3 DEF Starts, Works
  <1>5. client[c].at \notin {"idle", "next"} => client[c].sess \in Sessions
    BY DEF TypeOK
  <1>6. CASE Name(c)
    <2>1. /\ client[c].sess \in Sessions
          /\ thread[client[c].sess].at # "none"
          /\ session' = [session EXCEPT ![client[c].sess].named = TRUE]
      BY <1>6 DEF Name, Birth, TypeOK
    <2>2. client' = [client EXCEPT ![c].at = "await"]
      BY <1>6 DEF Name
    <2>3. client'[c].mine = client[c].mine /\ client'[c].sess = client[c].sess
      BY <2>2, <1>1 DEF TypeOK, Client
    <2>4. /\ session'[client[c].sess].named
          /\ \A s \in Sessions : s # client[c].sess =>
               session'[s].named = session[s].named
      BY <2>1, <1>1 DEF Session
    <2> QED
      BY <2>1, <2>3, <2>4, <1>1, <1>4 DEF Birth
  <1>7. CASE ~Name(c)
    <2>1. \A s \in Sessions : session'[s].named = session[s].named
      BY <1>7, ClientNamed
    <2>2. \A s \in Sessions : session'[s].named => thread[s].at # "none"
      BY <2>1 DEF Birth
    <2>3. CASE Starts(c)
      <3>1. client'[c].mine = client[c].mine /\ client'[c].at \in {"push", "spawn"}
        BY <2>3, <1>7 DEF Starts
      <3> QED
        BY <2>1, <2>2, <3>1, <1>1, <1>4 DEF Birth
    <2>4. CASE Works(c)
      <3>1. \A s \in client'[c].mine : session'[s].named
        <4>1. CASE client'[c].mine = client[c].mine
          BY <2>1, <4>1, <1>1 DEF Birth
        <4>2. CASE client'[c].mine # client[c].mine
          <5>1. /\ client'[c].mine = client[c].mine \cup {client[c].sess}
                /\ client[c].at \in {"status", "remove", "record"}
            BY <2>4, <4>2 DEF Works, Learns
          <5>2. client[c].sess \in Sessions /\ session[client[c].sess].named
            BY <5>1, <1>5 DEF Birth
          <5> QED
            BY <2>1, <5>1, <5>2, <1>1 DEF Birth
        <4> QED
          BY <4>1, <4>2
      <3>2. client'[c].at \notin {"idle", "next"} =>
              session'[client'[c].sess].named
        <4> HAVE client'[c].at \notin {"idle", "next"}
        <4>1. client'[c].sess \in Sessions
          BY ClientType DEF TypeOK
        <4>2. session[client'[c].sess].named
          BY <2>4 DEF Works, Birth
        <4> QED
          BY <4>1, <4>2, <2>1
      <3> QED
        BY <2>2, <3>1, <3>2, <1>4
    <2> QED
      BY <2>3, <2>4, <1>3
  <1> QED
    BY <1>6, <1>7

\* No client comes to a session another client is just making.
LEMMA ClientComes ==
  ASSUME TypeOK, Birth, NEW c \in Clients,
         Begin(c) \/ ClientStep(c) \/ Timeout(c), ~Spawn(c),
         NEW d \in Clients, d # c, client[d].sess \in Sessions,
         thread[client[d].sess].at = "none", client[c].sess # client[d].sess
  PROVE  client'[c].sess # client[d].sess
  <1>1. client[c].mine \subseteq Sessions
    BY DEF TypeOK, Client
  <1>2. ~session[client[d].sess].named /\ client[d].sess \notin client[c].mine
    BY DEF Birth
  <1>3. CASE Works(c)
    BY <1>2, <1>3 DEF Works, Comes
  <1>4. CASE Starts(c)
    BY <1>4 DEF Starts, BeginInit
  <1> QED
    BY <1>3, <1>4, ClientMove

\* The session a client makes has not started and is its own.
LEMMA ClientStarts ==
  ASSUME TypeOK, Birth, NEW c \in Clients,
         Begin(c) \/ ClientStep(c) \/ Timeout(c), ~Spawn(c),
         client'[c].at \in {"push", "spawn"}
  PROVE  /\ client'[c].sess \in Sessions
         /\ thread[client'[c].sess].at = "none"
         /\ \A d \in Clients : d # c => client[d].sess # client'[c].sess
  <1>1. Starts(c)
    BY ClientMove DEF Works
  <1>2. CASE \E s \in Sessions : BeginInit(c, s) /\ client'[c].sess = s
    BY <1>2 DEF BeginInit
  <1>3. CASE PushSession(c) /\ client'[c].sess = client[c].sess
    BY <1>3 DEF PushSession, Birth, TypeOK
  <1> QED
    BY <1>1, <1>2, <1>3 DEF Starts

\* The steps of a client keep what is known of threads that have not started:
\* only make-session comes to such a session, and only once.
LEMMA BirthKept ==
  ASSUME IInv, NEW c \in Clients, Begin(c) \/ ClientStep(c) \/ Timeout(c)
  PROVE  Phase' /\ Birth'
  <1>1. /\ TypeOK /\ Phase /\ Told /\ Birth
        /\ client \in [Clients -> Client] /\ client[c] \in Client
        /\ thread \in [Sessions -> Thread] /\ session \in [Sessions -> Session]
    BY DEF IInv, TypeOK
  <1>2. FlagsStay
    BY <1>1, ClientFlags
  <1>3. /\ client[c].at \notin {"idle", "next"} => client[c].sess \in Sessions
        /\ \A d \in Clients : client[d].mine \subseteq Sessions
        /\ client[c].todo \subseteq Sessions
    BY <1>1 DEF TypeOK, Client
  <1>4. \A d \in Clients : d # c => client'[d] = client[d]
    BY <1>1, ClientMove
  <1>5. CASE Spawn(c)
    <2> DEFINE s == client[c].sess
    <2>1. /\ s \in Sessions /\ thread[s].at = "none"
          /\ \A d \in Clients : d # c => client[d].sess # s
      BY <1>1, <1>3, <1>5 DEF Spawn, Birth
    <2>2. PICK place \in {"showing", "busy"} : Goto(s, place)
      BY <1>5 DEF Spawn
    <2>3. /\ thread'[s].at \in {"showing", "busy"}
          /\ \A t \in Sessions : t # s => thread'[t] = thread[t]
      BY <2>1, <2>2, <1>1 DEF Goto, Thread
    <2>4. UNCHANGED session
      BY <1>5 DEF Spawn
    <2>5. client' = [client EXCEPT ![c].at = "name"]
      BY <1>5 DEF Spawn
    <2>6. /\ client'[c].at = "name" /\ client'[c].sess = s
          /\ client'[c].mine = client[c].mine
          /\ client'[c].op = "init"
      BY <2>5, <1>1, <1>5 DEF Client, Birth, Spawn
    <2>7. Phase'
      BY <2>1, <2>3, <2>4, <1>1 DEF Phase
    <2>8. \A t \in Sessions : session'[t].named => thread'[t].at # "none"
      BY <2>1, <2>3, <2>4, <1>1 DEF Birth
    <2>9. ASSUME NEW d \in Clients
          PROVE  /\ \A t \in client'[d].mine : session'[t].named
                 /\ client'[d].at \notin {"idle", "next", "push", "spawn", "name"}
                      => session'[client'[d].sess].named
                 /\ client'[d].at \in {"push", "spawn", "name"} =>
                      client'[d].op = "init"
                 /\ client'[d].at \in {"idle", "next", "drain", "kill", "drop"}
                      => client'[d].op # "init"
                 /\ client'[d].at \in {"push", "spawn"} =>
                      /\ thread'[client'[d].sess].at = "none"
                      /\ \A b \in Clients :
                           b # d => client'[b].sess # client'[d].sess
                 /\ client'[d].at = "name" =>
                      thread'[client'[d].sess].at # "none"
      <3>1. CASE d = c
        BY <3>1, <2>3, <2>4, <2>6, <1>1 DEF Birth
      <3>2. CASE d # c
        <4>1. client'[d] = client[d]
          BY <3>2, <1>4
        <4>2. client[d].at \in {"push", "spawn", "name"} =>
                client[d].sess \in Sessions
          BY <1>1 DEF TypeOK
        <4>3. client[d].at \in {"push", "spawn", "name"} =>
                thread'[client[d].sess] = thread[client[d].sess]
          BY <4>2, <2>1, <2>3, <3>2
        <4>4. \A b \in Clients : client'[b].sess = client[b].sess
          BY <2>6, <1>4
        <4> QED
          BY <4>1, <4>3, <4>4, <2>4, <1>1 DEF Birth
      <3> QED
        BY <3>1, <3>2
    <2> QED
      BY <2>7, <2>8, <2>9 DEF Birth
  <1>6. CASE ~Spawn(c)
    <2>1. \A s \in Sessions : thread'[s].at = thread[s].at
      BY <1>1, <1>6, ClientThreads
    <2>2. Phase'
      BY <2>1, <1>1, <1>2 DEF Phase, FlagsStay
    <2>3. \A s \in Sessions : session'[s].named => thread'[s].at # "none"
      BY <2>1, <1>1, <1>6, ClientNames
    <2>4. ASSUME NEW d \in Clients
          PROVE  \A t \in client'[d].mine : session'[t].named
      <3>1. CASE d # c
        BY <3>1, <1>1, <1>2, <1>3, <1>4 DEF Birth, FlagsStay
      <3>2. CASE d = c
        BY <3>2, <1>1, <1>6, ClientNames
      <3> QED
        BY <3>1, <3>2
    <2>5. ASSUME NEW d \in Clients, client'[d].at \in {"push", "spawn"}
          PROVE  /\ thread'[client'[d].sess].at = "none"
                 /\ \A b \in Clients : b # d => client'[b].sess # client'[d].sess
      <3>1. CASE d # c
        <4>1. client'[d] = client[d]
          BY <3>1, <1>4
        <4>2. /\ client[d].sess \in Sessions
              /\ thread[client[d].sess].at = "none"
              /\ \A b \in Clients : b # d => client[b].sess # client[d].sess
          BY <4>1, <2>5, <1>1 DEF Birth, TypeOK
        <4>3. client'[c].sess # client[d].sess
          BY <4>2, <3>1, <1>1, <1>6, ClientComes
        <4> QED
          BY <4>1, <4>2, <4>3, <2>1, <1>4
      <3>2. CASE d = c
        <4>1. /\ client'[c].sess \in Sessions
              /\ thread[client'[c].sess].at = "none"
              /\ \A b \in Clients : b # c => client[b].sess # client'[c].sess
          BY <3>2, <2>5, <1>1, <1>6, ClientStarts
        <4> QED
          BY <3>2, <4>1, <2>1, <1>4
      <3> QED
        BY <3>1, <3>2
    <2>6. ASSUME NEW d \in Clients, client'[d].at = "name"
          PROVE  thread'[client'[d].sess].at # "none"
      <3>1. CASE d # c
        <4>1. client'[d] = client[d] /\ client[d].sess \in Sessions
          BY <3>1, <2>6, <1>1, <1>4 DEF TypeOK
        <4> QED
          BY <4>1, <2>1, <2>6, <1>1 DEF Birth
      <3>2. CASE d = c
        BY <3>2, <2>6, <1>1, <1>6, ClientNames
      <3> QED
        BY <3>1, <3>2
    <2>7. ASSUME NEW d \in Clients,
                 client'[d].at \notin {"idle", "next", "push", "spawn", "name"}
          PROVE  session'[client'[d].sess].named
      <3>1. CASE d # c
        <4>1. client'[d] = client[d] /\ client[d].sess \in Sessions
          BY <3>1, <2>7, <1>1, <1>4 DEF TypeOK
        <4> QED
          BY <4>1, <2>7, <1>1, <1>2 DEF Birth, FlagsStay
      <3>2. CASE d = c
        BY <3>2, <2>7, <1>1, <1>6, ClientNames
      <3> QED
        BY <3>1, <3>2
    <2>8. ASSUME NEW d \in Clients
          PROVE  /\ client'[d].at \in {"push", "spawn", "name"} =>
                      client'[d].op = "init"
                 /\ client'[d].at \in {"idle", "next", "drain", "kill", "drop"}
                      => client'[d].op # "init"
      <3>1. CASE d # c
        BY <3>1, <1>1, <1>4 DEF Birth
      <3>2. CASE d = c /\ Starts(c)
        BY <3>2, <1>1 DEF Birth, Starts, PushSession, Name
      <3>3. CASE d = c /\ Works(c)
        BY <3>3 DEF Works
      <3> QED
        BY <3>1, <3>2, <3>3, <1>1, <1>6, ClientMove
    <2> QED
      BY <2>2, <2>3, <2>4, <2>5, <2>6, <2>7, <2>8 DEF Birth
  <1> QED
    BY <1>5, <1>6

\* The steps of a client keep the invariant.
LEMMA ClientInv ==
  ASSUME IInv, NEW c \in Clients, Begin(c) \/ ClientStep(c) \/ Timeout(c)
  PROVE  IInv'
  <1>1. TypeOK /\ Told /\ client \in [Clients -> Client]
    BY DEF IInv, TypeOK
  <1>2. TypeOK'
    BY <1>1, ClientType
  <1>3. Told'
    <2> SUFFICES ASSUME NEW d \in Clients,
                        client'[d].at \in {"join", "remove", "load", "record"}
                 PROVE  client'[d].status \in {"proved", "quit"}
      BY DEF Told
    <2>1. CASE d = c
      BY <2>1, ClientTold
    <2>2. CASE d # c
      <3>1. client'[d] = client[d]
        BY <2>2, <1>1, ClientMove DEF IInv
      <3> QED
        BY <3>1, <1>1 DEF Told
    <2> QED
      BY <2>1, <2>2
  <1> QED
    BY <1>2, <1>3, BirthKept DEF IInv

-----------------------------------------------------------------------------
(***************************************************************************)
(* The theorems.                                                           *)
(***************************************************************************)

\* The invariant holds in every state of every behaviour.
LEMMA Invariance == Spec => []IInv
  <1>1. IInv /\ [Next]_vars => IInv'
    <2> SUFFICES ASSUME IInv, [Next]_vars PROVE IInv'
      OBVIOUS
    <2>1. CASE \E s \in Sessions : ThreadStep(s) \/ HandleInterrupt(s)
      BY <2>1, ThreadInv
    <2>2. CASE \E c \in Clients : Begin(c) \/ ClientStep(c) \/ Timeout(c)
      BY <2>2, ClientInv
    <2>3. CASE UNCHANGED vars
      BY <2>3 DEF vars, IInv, TypeOK, Phase, Told, Birth
    <2> QED
      BY <2>1, <2>2, <2>3 DEF Next
  <1> QED
    BY <1>1, InitInv, PTL DEF Spec

\* Every state of pvs-threads.lisp's sessions is well typed, with any number
\* of clients and sessions.
THEOREM SessionTypes == Spec => []TypeOK
  BY Invariance, PTL DEF IInv

(***************************************************************************)
(* Fresh answers.  The queue is first in, first out, and an entry is       *)
(* stamped with the number of calls begun.  So behind the entries a client *)
(* has counted and not yet drained, there are only entries pushed since    *)
(* its call; when none is left to drain, the whole queue is new.           *)
(***************************************************************************)

\* The entries of a queue behind the first n are not older than the call.
New(s, n, call) ==
  \A i \in 1 .. Len(session[s].output) :
    i > n => session[s].output[i].stamp >= call

\* What a client in prover-step, or in quit-all, may rely on.
MayRead(c) ==
  /\ client[c].at \in {"push", "spawn", "name"} => client[c].op = "init"
  /\ client[c].at \in {"drain", "await"} /\ client[c].op # "init" =>
       /\ client[c].at = "await" => client[c].left = 0
       /\ client[c].call <= session[client[c].sess].calls
       /\ New(client[c].sess, client[c].left, client[c].call)
  /\ client[c].at = "status" /\ client[c].op # "init" =>
       client[c].reply.stamp >= client[c].call

Fresh == \A c \in Clients : MayRead(c)

\* What any step does to the queue of a session: nothing, an entry is taken,
\* or one is put behind the others, stamped with the calls begun.
Queue(s) ==
  /\ session[s].calls <= session'[s].calls
  /\ \/ session'[s].output = session[s].output
     \/ /\ session[s].output # << >>
        /\ session'[s].output = Tail(session[s].output)
     \/ session'[s].output
          = Append(session[s].output, [head |-> session[s].outputs,
                                       stamp |-> session[s].calls,
                                       steps |-> session[s].steps])

\* A session that keeps its queue and its calls.
LEMMA QueueSame ==
  ASSUME TypeOK, NEW s \in Sessions, session'[s].calls = session[s].calls,
         session'[s].output = session[s].output
  PROVE  Queue(s)
  <1>1. session[s].calls \in Nat
    BY DEF TypeOK, Session
  <1> QED
    BY <1>1 DEF Queue

\* Entries are taken from the front, and those put behind are new.
LEMMA NewKept ==
  ASSUME TypeOK, NEW s \in Sessions, NEW n \in Nat, NEW call \in Nat,
         Queue(s), call <= session[s].calls, New(s, n, call)
  PROVE  New(s, n, call)'
  <1> DEFINE q == session[s].output
             e == [head |-> session[s].outputs, stamp |-> session[s].calls,
                   steps |-> session[s].steps]
  <1>1. /\ q \in Seq(Entry) /\ session[s].calls \in Nat
        /\ session[s].outputs \in Shown /\ session[s].steps \in Nat
    BY DEF TypeOK, Session
  <1>2. e \in Entry /\ e.stamp >= call
    BY <1>1 DEF Entry
  <1>3. Len(q) \in Nat /\ \A i \in 1 .. Len(q) : i > n => q[i].stamp >= call
    BY <1>1, LenProperties DEF New
  <1>4. \/ session'[s].output = q
        \/ q # << >> /\ session'[s].output = Tail(q)
        \/ session'[s].output = Append(q, e)
    BY DEF Queue
  <1> HIDE DEF q, e
  <1>5. CASE session'[s].output = q
    BY <1>3, <1>5 DEF New
  <1>6. CASE q # << >> /\ session'[s].output = Tail(q)
    <2>1. /\ Len(Tail(q)) = Len(q) - 1
          /\ \A i \in 1 .. Len(q) - 1 : Tail(q)[i] = q[i + 1]
      BY <1>1, <1>6, HeadTailProperties
    <2> SUFFICES ASSUME NEW i \in 1 .. Len(q) - 1, i > n
                 PROVE  Tail(q)[i].stamp >= call
      BY <1>6, <2>1 DEF New
    <2>2. i + 1 \in 1 .. Len(q) /\ i + 1 > n
      BY <1>3
    <2> QED
      BY <2>1, <2>2, <1>3
  <1>7. CASE session'[s].output = Append(q, e)
    <2>1. /\ Len(Append(q, e)) = Len(q) + 1
          /\ \A i \in 1 .. Len(q) : Append(q, e)[i] = q[i]
          /\ Append(q, e)[Len(q) + 1] = e
      BY <1>1, <1>2, AppendProperties
    <2> SUFFICES ASSUME NEW i \in 1 .. Len(q) + 1, i > n
                 PROVE  Append(q, e)[i].stamp >= call
      BY <1>7, <2>1 DEF New
    <2>2. i \in 1 .. Len(q) \/ i = Len(q) + 1
      BY <1>3
    <2> QED
      BY <2>1, <2>2, <1>2, <1>3
  <1> QED
    BY <1>4, <1>5, <1>6, <1>7

\* The step of one session's record that leaves the others.
LEMMA OneSession ==
  ASSUME TypeOK, NEW s \in Sessions, NEW r,
         session' = [session EXCEPT ![s] = r],
         session[s].calls <= r.calls,
         \/ r.output = session[s].output
         \/ session[s].output # << >> /\ r.output = Tail(session[s].output),
         NEW t \in Sessions
  PROVE  Queue(t)
  <1>1. session \in [Sessions -> Session]
    BY DEF TypeOK
  <1>2. CASE t = s
    BY <1>1, <1>2 DEF Queue
  <1>3. CASE t # s
    <2>1. session'[t] = session[t]
      BY <1>1, <1>3
    <2> QED
      BY <2>1, QueueSame
  <1> QED
    BY <1>2, <1>3

\* The prover pushes its outputs behind the entries that wait (session-read,
\* session-finish) and takes none.
LEMMA ThreadQueue ==
  ASSUME TypeOK, NEW s \in Sessions, ThreadStep(s) \/ HandleInterrupt(s),
         NEW t \in Sessions
  PROVE  Queue(t)
  <1>1. session \in [Sessions -> Session] /\ session[s] \in Session
    BY DEF TypeOK
  <1>3. CASE UNCHANGED session
    BY <1>3, QueueSame
  <1>2. session[s].calls \in Nat
    BY <1>1 DEF Session
  <1>4. CASE Show(s) \/ Clear(s) \/ Take(s) \/ Stay(s) \/ End(s) \/ Finish(s)
    <2>1. CASE Show(s)
      <3>1. CASE ~Found(s)
        <4>1. UNCHANGED session
          BY <2>1, <3>1 DEF Show
        <4> QED
          BY <4>1, <1>3
      <3>2. CASE Found(s)
        <4>1. PICK goal \in {"root", "subgoal"} :
                session' = [session EXCEPT ![s].outputs = goal]
          BY <2>1, <3>2 DEF Show
        <4> DEFINE r == [session[s] EXCEPT !.outputs = goal]
        <4>2. session' = [session EXCEPT ![s] = r]
          BY <4>1
        <4>3. session[s].calls <= r.calls /\ r.output = session[s].output
          BY <1>1, <1>2 DEF Session
        <4> HIDE DEF r
        <4> QED
          BY <4>2, <4>3, OneSession
      <3> QED
        BY <3>1, <3>2
    <2>2. CASE Clear(s)
      <3> DEFINE r == [session[s] EXCEPT !.outputs = "nothing"]
      <3>1. session' = [session EXCEPT ![s] = r]
        BY <2>2 DEF Clear
      <3>2. session[s].calls <= r.calls /\ r.output = session[s].output
        BY <1>1, <1>2 DEF Session
      <3> HIDE DEF r
      <3> QED
        BY <3>1, <3>2, OneSession
    <2>3. CASE Take(s)
      <3> DEFINE r == [session[s] EXCEPT !.input = Tail(@)]
      <3>1. session' = [session EXCEPT ![s] = r]
        BY <2>3 DEF Take
      <3>2. session[s].calls <= r.calls /\ r.output = session[s].output
        BY <1>1, <1>2 DEF Session
      <3> HIDE DEF r
      <3> QED
        BY <3>1, <3>2, OneSession
    <2>4. CASE End(s)
      <3> DEFINE r == [session[s] EXCEPT !.flag = "proved", !.steps = @ + 1]
      <3>1. UNCHANGED session \/ session' = [session EXCEPT ![s] = r]
        BY <2>4 DEF End
      <3>2. session[s].calls <= r.calls /\ r.output = session[s].output
        BY <1>1, <1>2 DEF Session
      <3> HIDE DEF r
      <3> QED
        BY <3>1, <3>2, <1>3, OneSession
    <2>5. CASE Finish(s)
      <3> DEFINE r == [session[s] EXCEPT !.flag = EndFlag(@),
                                          !.outputs = IF Found(s) THEN "root"
                                                      ELSE @]
      <3>1. session' = [session EXCEPT ![s] = r]
        BY <2>5 DEF Finish
      <3>2. session[s].calls <= r.calls /\ r.output = session[s].output
        BY <1>1, <1>2 DEF Session
      <3> HIDE DEF r
      <3> QED
        BY <3>1, <3>2, OneSession
    <2>6. CASE Stay(s)
      <3> DEFINE r == [session[s] EXCEPT !.steps = @ + 1]
      <3>1. session' = [session EXCEPT ![s] = r]
        BY <2>6 DEF Stay
      <3>2. session[s].calls <= r.calls /\ r.output = session[s].output
        BY <1>1, <1>2 DEF Session
      <3> HIDE DEF r
      <3> QED
        BY <3>1, <3>2, OneSession
    <2> QED
      BY <1>4, <2>1, <2>2, <2>3, <2>4, <2>5, <2>6
  <1>5. CASE session' = Pushed(s)
    <2>1. CASE t = s
      <3> DEFINE e == [head |-> session[s].outputs, stamp |-> session[s].calls,
                       steps |-> session[s].steps]
      <3>1. session' = [session EXCEPT ![s].output = Append(@, e)]
        BY <1>5 DEF Pushed
      <3> HIDE DEF e
      <3>2. /\ session'[s].output = Append(session[s].output, e)
            /\ session'[s].calls = session[s].calls
        BY <3>1, <1>1 DEF Session
      <3>3. session[s].calls \in Nat
        BY <1>1 DEF Session
      <3> QED
        BY <2>1, <3>2, <3>3 DEF Queue, e
    <2>2. CASE t # s
      <3>1. session'[t] = session[t]
        BY <1>1, <1>5, <2>2 DEF Pushed
      <3> QED
        BY <3>1, QueueSame
    <2> QED
      BY <2>1, <2>2
  <1> QED
    BY <1>3, <1>4, <1>5
    DEF ThreadStep, Read, PushLast, Exit, Unwind, HandleInterrupt

\* A client takes entries from the front of the queue (prover-step), and a new
\* call adds to the calls.
LEMMA ClientQueue ==
  ASSUME TypeOK, NEW c \in Clients, Begin(c) \/ ClientStep(c) \/ Timeout(c),
         NEW t \in Sessions
  PROVE  Queue(t)
  <1>1. session \in [Sessions -> Session]
    BY DEF TypeOK
  <1>2. \A s \in Sessions : /\ session[s] \in Session
                            /\ session[s].calls \in Nat
    BY <1>1 DEF Session
  <1>3. client[c].at \notin {"idle", "next"} => client[c].sess \in Sessions
    BY DEF TypeOK
  <1> DEFINE s == client[c].sess
  <1>4. CASE UNCHANGED session
    BY <1>4, QueueSame
  <1>5. ASSUME NEW u \in Sessions, NEW op, NEW cmd, Lookup(c, u, op, cmd)
        PROVE  Queue(t)
    <2>1. CASE UNCHANGED session
      BY <2>1, <1>4
    <2>2. CASE session' = [session EXCEPT ![u].calls = @ + 1]
      <3> DEFINE r == [session[u] EXCEPT !.calls = @ + 1]
      <3>1. session' = [session EXCEPT ![u] = r]
        BY <2>2
      <3>2. session[u].calls <= r.calls /\ r.output = session[u].output
        BY <1>2 DEF Session
      <3> HIDE DEF r
      <3> QED
        BY <3>1, <3>2, OneSession
    <2> QED
      BY <1>5, <2>1, <2>2 DEF Lookup
  <1>6. CASE \E u \in Sessions : Interrupt(c, u)
    <2>1. PICK u \in Sessions : Interrupt(c, u)
      BY <1>6
    <2> DEFINE r == [session[u] EXCEPT !.asked = @ + 1]
    <2>2. session' = [session EXCEPT ![u] = r]
      BY <2>1 DEF Interrupt
    <2>3. session[u].calls <= r.calls /\ r.output = session[u].output
      BY <1>2 DEF Session
    <2> HIDE DEF r
    <2> QED
      BY <2>2, <2>3, OneSession
  <1>7. CASE Name(c)
    <2> DEFINE r == [session[s] EXCEPT !.named = TRUE]
    <2>1. session' = [session EXCEPT ![s] = r] /\ s \in Sessions
      BY <1>3, <1>7 DEF Name
    <2>2. session[s].calls <= r.calls /\ r.output = session[s].output
      BY <2>1, <1>2 DEF Session
    <2> HIDE DEF r
    <2> QED
      BY <2>1, <2>2, OneSession
  <1>8. CASE Drain(c)
    <2> DEFINE r == [session[s] EXCEPT !.output = Tail(@), !.outputs = "list"]
    <2>1. /\ session' = [session EXCEPT ![s] = r] /\ s \in Sessions
          /\ session[s].output # << >>
      BY <1>3, <1>8 DEF Drain
    <2>2. session[s].calls <= r.calls /\ r.output = Tail(session[s].output)
      BY <2>1, <1>2 DEF Session
    <2> HIDE DEF r
    <2> QED
      BY <2>1, <2>2, OneSession
  <1>9. CASE Send(c)
    <2> DEFINE r == [session[s] EXCEPT !.input = Append(@, client[c].cmd)]
    <2>1. session' = [session EXCEPT ![s] = r] /\ s \in Sessions
      BY <1>3, <1>9 DEF Send
    <2>2. session[s].calls <= r.calls /\ r.output = session[s].output
      BY <2>1, <1>2 DEF Session
    <2> HIDE DEF r
    <2> QED
      BY <2>1, <2>2, OneSession
  <1>10. CASE Await(c)
    <2> DEFINE r == [session[s] EXCEPT !.output = Tail(@)]
    <2>1. /\ session' = [session EXCEPT ![s] = r] /\ s \in Sessions
          /\ session[s].output # << >>
      BY <1>3, <1>10 DEF Await
    <2>2. session[s].calls <= r.calls /\ r.output = Tail(session[s].output)
      BY <2>1, <1>2 DEF Session
    <2> HIDE DEF r
    <2> QED
      BY <2>1, <2>2, OneSession
  <1>11. CASE \E u \in Sessions, cmd \in Command : BeginStep(c, u, cmd)
    BY <1>11, <1>5 DEF BeginStep
  <1>12. CASE QuitNext(c)
    <2>1. client[c].todo \subseteq Sessions
      BY DEF TypeOK, Client
    <2> QED
      BY <1>12, <2>1, <1>4, <1>5 DEF QuitNext
  <1> QED
    BY <1>4, <1>6, <1>7, <1>8, <1>9, <1>10, <1>11, <1>12
    DEF Begin, ClientStep, Timeout, BeginInit, BeginQuitAll, PushSession,
        Spawn, Status, Join, Remove, Load, Store, Kill, Drop

\* A client that takes no step itself goes on relying on what it did.
LEMMA OthersRead ==
  ASSUME TypeOK, TypeOK', NEW c \in Clients, MayRead(c),
         client'[c] = client[c], \A t \in Sessions : Queue(t)
  PROVE  MayRead(c)'
  <1>1. CASE client[c].at \in {"drain", "await"} /\ client[c].op # "init"
    <2>1. PICK k : k = client[c]
      OBVIOUS
    <2>2. /\ k.sess \in Sessions /\ k.left \in Nat /\ k.call \in Nat
      BY <1>1, <2>1 DEF TypeOK, Client
    <2>3. k.call <= session[k.sess].calls /\ New(k.sess, k.left, k.call)
      BY <1>1, <2>1 DEF MayRead
    <2>4. New(k.sess, k.left, k.call)'
      BY <2>2, <2>3, NewKept
    <2>5. /\ session[k.sess].calls \in Nat /\ session'[k.sess].calls \in Nat
          /\ session[k.sess].calls <= session'[k.sess].calls
      BY <2>2 DEF TypeOK, Session, Queue
    <2>6. k.call <= session'[k.sess].calls
      BY <2>2, <2>3, <2>5
    <2> QED
      BY <1>1, <2>1, <2>4, <2>6 DEF MayRead
  <1>2. CASE ~(client[c].at \in {"drain", "await"} /\ client[c].op # "init")
    BY <1>2 DEF MayRead
  <1> QED
    BY <1>1, <1>2

\* What a client may rely on after a step of its own: a new call counts what
\* is in the queue, what is drained was counted, and with nothing left to drain
\* the head of the queue, which the call takes, is new.
LEMMA ActorReads ==
  ASSUME IInv, TypeOK', NEW c \in Clients,
         Begin(c) \/ ClientStep(c) \/ Timeout(c), MayRead(c),
         \A t \in Sessions : Queue(t)
  PROVE  MayRead(c)'
  <1>1. /\ TypeOK /\ client \in [Clients -> Client] /\ client[c] \in Client
        /\ session \in [Sessions -> Session]
        /\ client'[c] \in Client
    BY DEF IInv, TypeOK
  <1>2. client[c].at \notin {"idle", "next"} => client[c].sess \in Sessions
    BY <1>1 DEF TypeOK
  <1>3. /\ client[c].left \in Nat /\ client[c].call \in Nat
        /\ client[c].todo \subseteq Sessions /\ client[c].status \in Answers
        /\ client[c].sess \in Sessions \cup {Nobody}
    BY <1>1 DEF Client, Answers
  \* Where nothing is relied on.
  <1>4. ASSUME client'[c].at \notin {"push", "spawn", "name", "drain", "await",
                                    "status"}
        PROVE  MayRead(c)'
    BY <1>4 DEF MayRead
  <1>5. ASSUME NEW s \in Sessions, NEW op, NEW cmd, Lookup(c, s, op, cmd)
        PROVE  MayRead(c)'
    <2>1. CASE ~Listed(s)
      <3>1. Fails(c, s, "missing")
        BY <1>5, <2>1 DEF Lookup
      <3>2. client'[c].at = "idle"
        BY <3>1, <1>1, FailsType DEF Answers
      <3> QED
        BY <3>2, <1>4
    <2>2. CASE Listed(s)
      <3>1. /\ session' = [session EXCEPT ![s].calls = @ + 1]
            /\ client' = [client EXCEPT ![c].at = "drain", ![c].op = op,
                                 ![c].sess = s, ![c].cmd = cmd,
                                 ![c].left = QueueCount(s),
                                 ![c].call = session[s].calls + 1,
                                 ![c].status = "none"]
        BY <1>5, <2>2 DEF Lookup
      <3>2. /\ client'[c].at = "drain" /\ client'[c].sess = s
            /\ client'[c].left = Len(session[s].output)
            /\ client'[c].call = session[s].calls + 1
        BY <3>1, <1>1 DEF Client, QueueCount
      <3>3. /\ session'[s].calls = session[s].calls + 1
            /\ session'[s].output = session[s].output
        BY <3>1, <1>1 DEF Session
      <3>4. session[s].calls \in Nat /\ Len(session[s].output) \in Nat
        BY <1>1, LenProperties DEF Session
      <3> QED
        BY <3>2, <3>3, <3>4 DEF MayRead, New
    <2> QED
      BY <2>1, <2>2
  <1>6. ASSUME NEW status \in Answers, client[c].sess \in Sessions,
               Returns(c, status)
        PROVE  MayRead(c)'
    BY <1>1, <1>4, <1>6, ReturnsType
  <1>17. ASSUME NEW status \in Answers, Fails(c, client[c].sess, status)
         PROVE  MayRead(c)'
    <2>1. client'[c].at = "idle"
      BY <1>1, <1>3, <1>17, FailsType
    <2> QED
      BY <2>1, <1>4
  <1>7. CASE Begin(c)
    <2>1. CASE \E s \in Sessions : BeginInit(c, s)
      <3>1. client'[c].at = "push" /\ client'[c].op = "init"
        BY <2>1, <1>1 DEF BeginInit, Client
      <3> QED
        BY <3>1 DEF MayRead
    <2>2. CASE \E s \in Sessions : Interrupt(c, s)
      BY <2>2, <1>4 DEF Interrupt
    <2>3. CASE \E s \in Sessions, cmd \in Command : BeginStep(c, s, cmd)
      BY <2>3, <1>5 DEF BeginStep
    <2>4. CASE BeginQuitAll(c)
      BY <2>4, <1>1, <1>4 DEF BeginQuitAll, Client
    <2> QED
      BY <1>7, <2>1, <2>2, <2>3, <2>4 DEF Begin
  <1>8. CASE PushSession(c) \/ Spawn(c) \/ Name(c)
    <2>1. client[c].op = "init"
      BY <1>8 DEF PushSession, Spawn, Name, MayRead
    <2>2. client'[c].at \in {"spawn", "name", "await"} /\ client'[c].op = "init"
      BY <2>1, <1>8, <1>1 DEF PushSession, Spawn, Name, Client
    <2> QED
      BY <2>2 DEF MayRead
  <1>9. CASE Drain(c) /\ client[c].op # "init"
    <2>1. PICK k : k = client[c]
      OBVIOUS
    <2>2. /\ k.at = "drain" /\ k.left > 0 /\ k.sess \in Sessions
          /\ session[k.sess].output # << >>
          /\ session' = [session EXCEPT ![k.sess].output = Tail(@),
                                        ![k.sess].outputs = "list"]
          /\ client' = [client EXCEPT ![c].left = k.left - 1]
      BY <2>1, <1>2, <1>9 DEF Drain
    <2> DEFINE q == session[k.sess].output
    <2>3. /\ client'[c].at = "drain" /\ client'[c].sess = k.sess
          /\ client'[c].left = k.left - 1 /\ client'[c].call = k.call
      BY <2>1, <2>2, <1>1 DEF Client
    <2>4. /\ session'[k.sess].output = Tail(q)
          /\ session'[k.sess].calls = session[k.sess].calls
      BY <2>2, <1>1 DEF Session
    <2>5. k.call <= session[k.sess].calls /\ New(k.sess, k.left, k.call)
      BY <2>1, <2>2, <1>9 DEF MayRead
    <2>6. q \in Seq(Entry) /\ Len(q) \in Nat
      BY <2>2, <1>1, LenProperties DEF Session
    <2>7. /\ Len(Tail(q)) = Len(q) - 1
          /\ \A i \in 1 .. Len(q) - 1 : Tail(q)[i] = q[i + 1]
      BY <2>2, <2>6, HeadTailProperties
    <2>8. \A i \in 1 .. Len(Tail(q)) :
            i > k.left - 1 => Tail(q)[i].stamp >= k.call
      <3> SUFFICES ASSUME NEW i \in 1 .. Len(q) - 1, i > k.left - 1
                   PROVE  Tail(q)[i].stamp >= k.call
        BY <2>7
      <3>1. i + 1 \in 1 .. Len(q) /\ i + 1 > k.left
        BY <2>1, <2>6, <1>3
      <3> QED
        BY <3>1, <2>5, <2>7 DEF New
    <2> HIDE DEF q
    <2> QED
      BY <2>3, <2>4, <2>5, <2>8 DEF MayRead, New
  <1>10. CASE Send(c) /\ client[c].op # "init"
    <2>1. PICK k : k = client[c]
      OBVIOUS
    <2>2. /\ k.at = "drain" /\ k.left = 0 /\ k.sess \in Sessions
          /\ client' = [client EXCEPT ![c].at = "await"]
      BY <2>1, <1>2, <1>10 DEF Send
    <2>3. /\ client'[c].at = "await" /\ client'[c].sess = k.sess
          /\ client'[c].left = 0 /\ client'[c].call = k.call
      BY <2>1, <2>2, <1>1 DEF Client
    <2>4. k.call <= session[k.sess].calls /\ New(k.sess, k.left, k.call)
      BY <2>1, <2>2, <1>10 DEF MayRead
    <2>5. New(k.sess, k.left, k.call)'
      BY <2>1, <2>2, <2>4, <1>1, <1>3, NewKept
    <2>6. /\ session[k.sess].calls \in Nat /\ session'[k.sess].calls \in Nat
          /\ session[k.sess].calls <= session'[k.sess].calls
      BY <2>2, <1>1 DEF TypeOK, Session, Queue
    <2>7. k.call <= session'[k.sess].calls
      BY <2>1, <2>4, <2>6, <1>3
    <2> QED
      BY <2>2, <2>3, <2>5, <2>7 DEF MayRead
  <1>11. CASE Await(c) /\ client[c].op # "init"
    <2> DEFINE s == client[c].sess
               entry == Head(session[s].output)
    <2>1. CASE entry.head \notin {"root", "subgoal"}
      <3>1. Fails(c, s, "error")
        BY <2>1, <1>11 DEF Await
      <3> QED
        BY <3>1, <1>17 DEF Answers
    <2>2. CASE entry.head \in {"root", "subgoal"}
      <3>1. /\ client' = [client EXCEPT ![c].at = "status",
                                        ![c].reply = entry]
            /\ client[c].at = "await" /\ session[s].output # << >>
            /\ s \in Sessions
        BY <2>2, <1>2, <1>11 DEF Await
      <3>2. client'[c].at = "status" /\ client'[c].reply = entry
            /\ client'[c].call = client[c].call
        BY <3>1, <1>1 DEF Client
      <3>3. client[c].left = 0 /\ New(s, client[c].left, client[c].call)
        BY <3>1, <1>11 DEF MayRead
      <3>4. /\ session[s].output \in Seq(Entry)
            /\ Len(session[s].output) \in Nat /\ Len(session[s].output) >= 1
        <4>1. session[s].output \in Seq(Entry)
          BY <3>1, <1>1 DEF Session
        <4> QED
          BY <4>1, <3>1, LenProperties, EmptySeq
      <3>5. entry = session[s].output[1]
        BY <3>4
      <3>6. entry.stamp >= client[c].call
        BY <3>3, <3>4, <3>5 DEF New
      <3> HIDE DEF entry
      <3> QED
        BY <3>2, <3>6 DEF MayRead
    <2> QED
      BY <2>1, <2>2
  <1>12. CASE (Drain(c) \/ Send(c) \/ Await(c)) /\ client[c].op = "init"
    <2>1. CASE client'[c].op = "init" /\ client'[c].at \in {"drain", "await", "status"}
      BY <2>1 DEF MayRead
    <2>2. CASE Drain(c) \/ Send(c)
      <3>1. client'[c].op = "init" /\ client'[c].at \in {"drain", "await"}
        BY <2>2, <1>1, <1>12 DEF Drain, Send, Client
      <3> QED
        BY <3>1, <2>1
    <2>3. CASE Await(c)
      <3>1. CASE Fails(c, client[c].sess, "error")
        BY <3>1, <1>17 DEF Answers
      <3>2. CASE client' = [client EXCEPT ![c].at = "status",
                              ![c].reply = Head(session[client[c].sess].output)]
        BY <3>2, <2>1, <1>1, <1>12 DEF Client
      <3> QED
        BY <2>3, <3>1, <3>2 DEF Await
    <2> QED
      BY <1>12, <2>2, <2>3
  <1>13. CASE Status(c)
    <2>1. client[c].sess \in Sessions
      BY <1>2, <1>13 DEF Status
    <2>2. CASE Returns(c, "waiting")
      BY <2>1, <2>2, <1>6 DEF Answers
    <2>3. CASE ~Returns(c, "waiting")
      <3>1. PICK place \in {"load", "join"}, status \in StatusNow(c) :
              client' = [client EXCEPT ![c].at = place, ![c].status = status]
        BY <2>3, <1>13 DEF Status
      <3>2. client'[c].at \in {"load", "join"}
        BY <3>1, <1>1 DEF Client
      <3> QED
        BY <3>2, <1>4
    <2> QED
      BY <2>2, <2>3
  <1>14. CASE Join(c) \/ Load(c) \/ Kill(c) \/ Timeout(c)
    <2>1. client'[c].at \in {"remove", "record", "drop", "kill"}
      BY <1>14, <1>1, TimeoutType DEF Join, Load, Kill, Client
    <2> QED
      BY <2>1, <1>4
  <1>15. CASE Remove(c) \/ Store(c) \/ Drop(c)
    <2>1. client[c].sess \in Sessions
      BY <1>2, <1>15 DEF Remove, Store, Drop
    <2>2. CASE Returns(c, client[c].status)
      BY <2>1, <2>2, <1>3, <1>6
    <2>3. CASE \/ client' = [client EXCEPT ![c].at = "load", ![c].list = {}]
               \/ client' = [client EXCEPT ![c].at = "join", ![c].log = << >>]
      <3>1. client'[c].at \in {"load", "join"}
        BY <2>3, <1>1 DEF Client
      <3> QED
        BY <3>1, <1>4
    <2> QED
      BY <1>15, <2>2, <2>3 DEF Remove, Store, Drop
  <1>16. CASE QuitNext(c)
    <2>1. CASE \E s \in client[c].todo : Lookup(c, s, "quit", "quit")
      BY <2>1, <1>3, <1>5
    <2>2. CASE client' = [client EXCEPT ![c].at = "idle", ![c].op = "none"]
      BY <2>2, <1>1, <1>4 DEF Client
    <2>3. CASE Fails(c, client[c].sess, "error")
      BY <2>3, <1>17 DEF Answers
    <2>4. CASE \E s \in client[c].todo :
                 client' = [client EXCEPT ![c].at = "kill", ![c].sess = s,
                                          ![c].status = "none"]
      BY <2>4, <1>1, <1>4 DEF Client
    <2> QED
      BY <1>16, <2>1, <2>2, <2>3, <2>4 DEF QuitNext
  <1> QED
    BY <1>7, <1>8, <1>9, <1>10, <1>11, <1>12, <1>13, <1>14, <1>15, <1>16
    DEF ClientStep

\* The next-state relation keeps Fresh.
LEMMA FreshKept == IInv /\ IInv' /\ Fresh /\ [Next]_vars => Fresh'
  <1> SUFFICES ASSUME IInv, IInv', Fresh, [Next]_vars PROVE Fresh'
    OBVIOUS
  <1>1. TypeOK /\ TypeOK'
    BY DEF IInv
  <1>2. CASE \E s \in Sessions : ThreadStep(s) \/ HandleInterrupt(s)
    <2>1. PICK s \in Sessions : ThreadStep(s) \/ HandleInterrupt(s)
      BY <1>2
    <2>2. \A t \in Sessions : Queue(t)
      BY <2>1, <1>1, ThreadQueue
    <2>3. UNCHANGED client
      BY <2>1, <1>1, ThreadEffect DEF IInv
    <2> QED
      BY <2>2, <2>3, <1>1, OthersRead DEF Fresh
  <1>3. CASE \E c \in Clients : Begin(c) \/ ClientStep(c) \/ Timeout(c)
    <2>1. PICK c \in Clients : Begin(c) \/ ClientStep(c) \/ Timeout(c)
      BY <1>3
    <2>2. \A t \in Sessions : Queue(t)
      BY <2>1, <1>1, ClientQueue
    <2>3. \A d \in Clients : d # c => client'[d] = client[d]
      BY <2>1, <1>1, ClientMove DEF IInv
    <2>4. MayRead(c)'
      BY <2>1, <2>2, <1>1, ActorReads DEF Fresh
    <2>5. \A d \in Clients : d # c => MayRead(d)'
      BY <2>2, <2>3, <1>1, OthersRead DEF Fresh
    <2> QED
      BY <2>4, <2>5 DEF Fresh
  <1>4. CASE UNCHANGED vars
    BY <1>4 DEF vars, Fresh, MayRead, New
  <1> QED
    BY <1>2, <1>3, <1>4 DEF Next

\* prover-step never takes for the answer to its command an entry that was
\* there before the call, with any number of clients and sessions, whoever
\* steps, interrupts, quits or kills them.
THEOREM AnswersAreFresh == Spec => []NoStaleAnswer
  <1>1. Init => Fresh
    <2> SUFFICES ASSUME Init, NEW c \in Clients PROVE MayRead(c)
      BY DEF Fresh
    <2>1. client[c].at = "idle"
      BY DEF Init, Idle
    <2> QED
      BY <2>1 DEF MayRead
  <1>2. TypeOK /\ Fresh => NoStaleAnswer
    BY DEF Fresh, MayRead, NoStaleAnswer
  <1> QED
    BY <1>1, <1>2, FreshKept, Invariance, PTL DEF Spec, IInv

=============================================================================
