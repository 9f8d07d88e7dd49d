---------------------------- MODULE LifecycleProofs ----------------------------
(***************************************************************************)
(* Proofs about ServerLifecycle, for any number of starts and of nested    *)
(* clicks, every kind of user and whatever fails: type correctness, and,   *)
(* for the user who waits, that there is one listener thread at a time,    *)
(* that a running server can be stopped, that a listening socket is closed *)
(* by its own listener or by stop_server, and that none is left open.      *)
(***************************************************************************)
EXTENDS ServerLifecycle, ListFacts

Opening == {"greet", "pool", "launch"}       \* start_server before the thread
Up == {i \in Servers : listener[i] \notin {"off", "begin", "exited"}}

(* The log and the messages on their way add up: p[k] is what the log will *)
(* show when the first k messages have been handled, and p at the end is   *)
(* the number of listeners that said "started" and did not say "stopped".  *)
Adds(p, q, first, last) ==
    /\ p[0] = first /\ p[Len(q)] = last
    /\ \A k \in 1 .. Len(q) : p[k] = IF q[k] = "started" THEN p[k - 1] + 1 ELSE p[k - 1] - 1

Ledger == \E p \in [0 .. Len(inbox) -> 0 .. MaxStarts] : Adds(p, inbox, shown, Cardinality(Up))

(* Every activation that starts a server has a number of its own, and      *)
(* before the thread is created that listener does not run.                *)
Stacked ==
    /\ \A k \in DOMAIN frames :
          /\ frames[k].at \in Opening \cup {"wait"} => frames[k].starting
          /\ frames[k].starting => frames[k].id \in 1 .. starts
          /\ frames[k].at \in Opening => listener[frames[k].id] = "off"
    /\ \A j, k \in DOMAIN frames :
          frames[j].starting /\ frames[k].starting /\ frames[j].id = frames[k].id => j = k
    /\ \A i \in Servers : listener[i] # "off" => i <= starts
    /\ running <= starts

(* cfg->lock is signalled by a listener that has come to its loop.         *)
Locked == \A i \in Servers : lock[i] => listener[i] \notin {"off", "begin", "make", "ready"}

(* For the user who waits: the listener that runs is that of g_server_config, *)
(* none runs before the thread of the new start, and "stopped" is the last *)
(* that it does.                                                           *)
Alone == Patient =>
    /\ Len(frames) <= 1
    /\ \A i \in Active : i = config
    /\ \A k \in DOMAIN frames : frames[k].at \in Opening => inbox = <<>> /\ Active = {}
    /\ \A i \in Servers : listener[i] = "begin" =>
          \E k \in DOMAIN frames : frames[k].at = "wait" /\ frames[k].id = i
    /\ Active # {} => "stopped" \notin Range(inbox)

(* For the same user: stop_server has cleared the flag before it returns,  *)
(* and while the flag is up the button of a server that runs says stop.    *)
Flagged == Patient =>
    /\ \A k \in DOMAIN frames : ~frames[k].starting /\ frames[k].at # "flag" => running = 0
    /\ (Idle /\ running # 0 /\ Active # {}) => button

(* For the same user: an open socket is the global one, and its listener   *)
(* is between making it and closing it.                                    *)
Owned == Patient =>
    \A i \in open : i = ssocket /\ listener[i] \in {"ready", "check", "accept", "close"}

IInv == TypeOK /\ Ledger /\ Stacked /\ Locked /\ Alone /\ Flagged /\ Owned
-----------------------------------------------------------------------------
Points == {"greet", "pool", "launch", "wait", "flag", "shut", "close", "end"}
States == {"off", "begin", "make", "ready", "check", "accept", "close", "notify", "exited"}
Working == {"make", "ready", "check", "accept", "close", "notify"}

FrameTypes == frames \in Seq(Activation)
GuiTypes  == /\ button \in BOOLEAN /\ attached \in BOOLEAN /\ quit \in BOOLEAN
             /\ running \in 0 .. MaxStarts /\ starts \in 0 .. MaxStarts
             /\ shown \in 0 .. MaxStarts
SockTypes == /\ config \in Servers \cup {None} /\ ssocket \in Servers \cup {None}
             /\ open \subseteq Servers
             /\ pool \in [Servers -> {"none", "up", "down"}]
LstTypes  == /\ lock \in [Servers -> BOOLEAN] /\ listener \in [Servers -> States]
             /\ accepting \in [Servers -> Servers \cup {None}]
InboxTypes == inbox \in Seq({"started", "stopped"})
FixedTypes == platform \in {"9x", "NT"} /\ user \in Users

LEMMA Parts ==
  /\ TypeOK <=> (FixedTypes /\ FrameTypes /\ GuiTypes /\ SockTypes /\ LstTypes /\ InboxTypes)
  /\ TypeOK' <=> (FixedTypes' /\ FrameTypes' /\ GuiTypes' /\ SockTypes' /\ LstTypes' /\ InboxTypes')
BY DEF TypeOK, FixedTypes, FrameTypes, GuiTypes, SockTypes, LstTypes, InboxTypes, States

LEMMA Constants == MaxStarts \in Nat /\ MaxNesting \in Nat \ {0} /\ Servers = 1 .. MaxStarts
BY LifecycleAssumption DEF Servers

LEMMA FewUp ==
  ASSUME LstTypes
  PROVE  Up \subseteq Servers /\ IsFiniteSet(Up) /\ Cardinality(Up) \in 0 .. MaxStarts
<1>1. IsFiniteSet(Servers) /\ Cardinality(Servers) = MaxStarts
  BY Constants, FS_Interval
<1>2. Up \subseteq Servers
  BY DEF Up
<1>3. IsFiniteSet(Up) /\ Cardinality(Up) <= MaxStarts
  BY <1>1, <1>2, FS_Subset
<1> QED BY <1>2, <1>3, FS_CardinalityType, Constants

(* The listeners that run are those that are up and the one that begins.   *)
LEMMA ActiveUp == Up \subseteq Active /\ Active = Up \cup {i \in Servers : listener[i] = "begin"}
BY DEF Active, Up
-----------------------------------------------------------------------------
(* The innermost activation.                                               *)
Reframe(f) == frames' = [frames EXCEPT ![Len(frames)] = f]

LEMMA TopFacts ==
  ASSUME FrameTypes, ~Idle
  PROVE  /\ Len(frames) \in Nat \ {0} /\ DOMAIN frames = 1 .. Len(frames)
         /\ Len(frames) \in DOMAIN frames /\ Top \in Activation
<1>1. Len(frames) \in Nat \ {0} /\ DOMAIN frames = 1 .. Len(frames)
  BY LenProperties, EmptySeq DEF FrameTypes, Idle
<1> QED BY <1>1, ElementOfSeq DEF FrameTypes, Top

LEMMA Reframed ==
  ASSUME FrameTypes, ~Idle, NEW f \in Activation, Reframe(f)
  PROVE  /\ frames' \in Seq(Activation) /\ Len(frames') = Len(frames)
         /\ DOMAIN frames' = DOMAIN frames /\ frames' # <<>>
         /\ \A k \in DOMAIN frames : frames'[k] = IF k = Len(frames) THEN f ELSE frames[k]
<1>1. Len(frames) \in 1 .. Len(frames) /\ DOMAIN frames = 1 .. Len(frames)
  BY TopFacts
<1>2. frames' \in Seq(Activation) /\ Len(frames') = Len(frames)
  BY <1>1, ExceptSeq DEF Reframe, FrameTypes
<1>3. DOMAIN frames' = DOMAIN frames
  BY DEF Reframe
<1>4. \A k \in DOMAIN frames : frames'[k] = IF k = Len(frames) THEN f ELSE frames[k]
  BY DEF Reframe
<1>5. frames' # <<>>
  BY <1>1, <1>2, <1>3, EmptySeq
<1> QED BY <1>2, <1>3, <1>4, <1>5

(* The two ways on_start_click goes on: to its next point, and to its next *)
(* point behind a message box.                                             *)
LEMMA Advances ==
  ASSUME FrameTypes, ~Idle, NEW to \in Points, Advance(to)
  PROVE  LET f == [Top EXCEPT !.at = to]
         IN  /\ f \in Activation /\ Reframe(f) /\ f.at = to
             /\ f.starting = Top.starting /\ f.id = Top.id
<1>1. Top \in Activation
  BY TopFacts
<1>2. Reframe([Top EXCEPT !.at = to])
  BY DEF Advance, Reframe, Top
<1> QED BY <1>1, <1>2 DEF Activation, Points

LEMMA Logs ==
  ASSUME FrameTypes, GuiTypes, ~Idle, NEW to \in Points, LogThen(to)
  PROVE  LET f == [Top EXCEPT !.at = to, !.box = ~attached]
         IN  /\ f \in Activation /\ Reframe(f) /\ f.at = to
             /\ f.starting = Top.starting /\ f.id = Top.id
<1>1. Top \in Activation
  BY TopFacts
<1>2. Reframe([Top EXCEPT !.at = to, !.box = ~attached])
  BY DEF LogThen, Reframe, Top
<1> QED BY <1>1, <1>2 DEF Activation, Points, GuiTypes

LEMMA Dismisses ==
  ASSUME FrameTypes, Dismiss
  PROVE  LET f == [Top EXCEPT !.box = FALSE]
         IN  /\ ~Idle /\ f \in Activation /\ Reframe(f) /\ f.at = Top.at
             /\ f.starting = Top.starting /\ f.id = Top.id
<1>1. ~Idle /\ Top \in Activation
  BY TopFacts DEF Dismiss, Boxed
<1>2. Reframe([Top EXCEPT !.box = FALSE])
  BY DEF Dismiss, Reframe, Top
<1> QED BY <1>1, <1>2 DEF Activation
-----------------------------------------------------------------------------
(* A step of the GUI thread within on_start_click, other than Launch and      *)
(* Return: the listeners, the messages and the button stay as they are.        *)
Quiet == UNCHANGED <<fixed, button, starts, shown, config, inbox, lock, listener>>

LEMMA FrameKept ==
  ASSUME IInv, ~Idle, Quiet, NEW f \in Activation, Reframe(f), running' \in {0, running},
         f.starting = Top.starting, f.id = Top.id,
         f.at \in Opening => Top.at \in Opening,
         f.at = "wait" => Top.at = "wait",
         Top.at = "wait" => f.at = "wait" \/ Listening(Top.id),
         ~f.starting /\ f.at # "flag" => running' = 0 \/ Top.at # "flag"
  PROVE  Ledger' /\ Stacked' /\ Locked' /\ Alone' /\ Flagged'
<1> DEFINE top == Len(frames)
<1> USE DEF IInv
<1>1. /\ DOMAIN frames' = DOMAIN frames /\ Len(frames') = Len(frames) /\ frames' # <<>>
      /\ \A k \in DOMAIN frames : frames'[k] = IF k = top THEN f ELSE frames[k]
      /\ top \in DOMAIN frames /\ Top = frames[top]
  BY Parts, TopFacts, Reframed DEF Top
<1> HIDE DEF top
<1>2. Up' = Up /\ Active' = Active /\ Patient' = Patient
  BY DEF Quiet, Up, Active, Patient, fixed
<1>3. Ledger'
  BY <1>2 DEF Quiet, Ledger, Adds
<1>4. Locked'
  BY DEF Quiet, Locked
<1>5. Stacked'
  <2>1. \A k \in DOMAIN frames' :
          /\ frames'[k].at \in Opening \cup {"wait"} => frames'[k].starting
          /\ frames'[k].starting => frames'[k].id \in 1 .. starts'
          /\ frames'[k].at \in Opening => listener'[frames'[k].id] = "off"
    BY <1>1 DEF Quiet, Stacked
  <2>2. \A j, k \in DOMAIN frames' :
          frames'[j].starting /\ frames'[k].starting /\ frames'[j].id = frames'[k].id => j = k
    BY <1>1 DEF Stacked
  <2>3. \A i \in Servers : listener'[i] # "off" => i <= starts'
    BY DEF Quiet, Stacked
  <2>4. running' <= starts'
    <3>1. running <= starts /\ starts \in Nat BY Parts, Constants DEF Stacked, GuiTypes
    <3> QED BY <3>1 DEF Quiet
  <2> QED BY <2>1, <2>2, <2>3, <2>4 DEF Stacked
<1>6. ASSUME Patient PROVE
    /\ Len(frames') <= 1
    /\ \A i \in Active' : i = config'
    /\ \A k \in DOMAIN frames' : frames'[k].at \in Opening => inbox' = <<>> /\ Active' = {}
    /\ Active' # {} => "stopped" \notin Range(inbox')
  BY <1>1, <1>2, <1>6 DEF Quiet, Alone
<1>7. ASSUME Patient, NEW i \in Servers, listener'[i] = "begin"
      PROVE  \E k \in DOMAIN frames' : frames'[k].at = "wait" /\ frames'[k].id = i
  <2>1. PICK k \in DOMAIN frames : frames[k].at = "wait" /\ frames[k].id = i
    BY <1>7 DEF Quiet, Alone
  <2>2. ~Listening(i)
    BY <1>7 DEF Quiet, Locked, Listening
  <2> QED BY <1>1, <2>1, <2>2
<1>8. Alone'
  BY <1>2, <1>6, <1>7 DEF Alone
<1>9. Flagged'
  <2>1. ASSUME Patient, NEW k \in DOMAIN frames', ~frames'[k].starting, frames'[k].at # "flag"
        PROVE  running' = 0
    <3>1. CASE k = top
      BY <1>1, <2>1, <3>1 DEF Flagged
    <3>2. CASE k # top
      BY <1>1, <2>1, <3>2 DEF Flagged
    <3> QED BY <3>1, <3>2
  <2>2. ~Idle'
    BY <1>1 DEF Idle
  <2> QED BY <1>2, <2>1, <2>2 DEF Flagged
<1> QED BY <1>3, <1>4, <1>5, <1>8, <1>9

(* Dismiss, Greet, PoolInit, Await, StopFlag, StopPool and StopClose.      *)
LEMMA GuiKept ==
  ASSUME IInv, \/ Dismiss \/ Greet \/ Await \/ StopFlag \/ StopPool \/ StopClose
               \/ \E ok \in Outcomes("pool") : PoolInit(ok)
  PROVE  Ledger' /\ Stacked' /\ Locked' /\ Alone' /\ Flagged'
<1> USE DEF IInv
<1>0. FrameTypes /\ GuiTypes
  BY Parts
<1>1. CASE Dismiss
  <2>1. Quiet /\ running' \in {0, running}
    BY <1>1 DEF Dismiss, Quiet, fixed, guiVars, lstVars
  <2> QED BY <1>0, <1>1, <2>1, Dismisses, FrameKept
<1>2. CASE Greet
  <2>1. /\ Quiet /\ running' \in {0, running} /\ ~Idle /\ Top.at = "greet"
        /\ LogThen("pool") /\ "pool" \in Points
    BY <1>2 DEF Greet, At, Quiet, fixed, lstVars, Points
  <2>2. Top.starting
    BY <1>0, <2>1, TopFacts DEF Stacked, Top, Opening
  <2> QED BY <1>0, <2>1, <2>2, Logs, FrameKept DEF Opening
<1>3. CASE Await
  <2>1. /\ Quiet /\ running' \in {0, running} /\ ~Idle /\ Top.at = "wait" /\ Listening(Top.id)
        /\ Advance("end") /\ "end" \in Points
    BY <1>3 DEF Await, At, Quiet, fixed, lstVars, Points
  <2>2. Top.starting
    BY <1>0, <2>1, TopFacts DEF Stacked, Top
  <2> QED BY <1>0, <2>1, <2>2, Advances, FrameKept DEF Opening
<1>4. CASE StopFlag
  <2>1. /\ Quiet /\ running' = 0 /\ ~Idle /\ Top.at = "flag"
        /\ Advance("shut") /\ "shut" \in Points
    BY <1>4 DEF StopFlag, RunningAfterStop, At, Quiet, fixed, lstVars, Points
  <2> QED BY <1>0, <2>1, Advances, FrameKept DEF Opening
<1>5. CASE StopPool
  <2>1. /\ Quiet /\ running' \in {0, running} /\ ~Idle /\ Top.at = "shut"
        /\ Advance("close") /\ "close" \in Points
    BY <1>5 DEF StopPool, At, Quiet, fixed, lstVars, Points
  <2> QED BY <1>0, <2>1, Advances, FrameKept DEF Opening
<1>6. CASE StopClose
  <2>1. /\ Quiet /\ running' \in {0, running} /\ ~Idle /\ Top.at = "close"
        /\ LogThen("end") /\ "end" \in Points
    BY <1>6 DEF StopClose, At, Quiet, fixed, lstVars, Points
  <2> QED BY <1>0, <2>1, Logs, FrameKept DEF Opening
<1>7. ASSUME NEW ok \in Outcomes("pool"), PoolInit(ok)
      PROVE  Ledger' /\ Stacked' /\ Locked' /\ Alone' /\ Flagged'
  <2>1. /\ Quiet /\ running' \in {0, running} /\ ~Idle /\ Top.at = "pool"
    BY <1>7 DEF PoolInit, At, Quiet, fixed, lstVars
  <2>2. Top.starting
    BY <1>0, <2>1, TopFacts DEF Stacked, Top, Opening
  <2>3. CASE ok
    <3>1. LogThen("launch") /\ "launch" \in Points
      BY <1>7, <2>3 DEF PoolInit, Points
    <3> QED BY <1>0, <2>1, <2>2, <3>1, Logs, FrameKept DEF Opening
  <2>4. CASE ~ok
    <3>1. LogThen("end") /\ "end" \in Points
      BY <1>7, <2>4 DEF PoolInit, Points
    <3> QED BY <1>0, <2>1, <2>2, <3>1, Logs, FrameKept DEF Opening
  <2> QED BY <2>3, <2>4
<1> QED BY <1>1, <1>2, <1>3, <1>4, <1>5, <1>6, <1>7
(* The thread is created: the listener of the new start runs, alone.       *)
LEMMA LaunchKept ==
  ASSUME IInv, NEW ok \in Outcomes("thread"), Launch(ok)
  PROVE  Ledger' /\ Stacked' /\ Locked' /\ Alone' /\ Flagged'
<1> DEFINE top == Len(frames)
           f == [Top EXCEPT !.at = "wait"]
<1> USE DEF IInv
<1>0. FrameTypes /\ GuiTypes /\ LstTypes
  BY Parts
<1>1. /\ UNCHANGED <<fixed, button, starts, shown, running, inbox, lock>>
      /\ ~Idle /\ Top.at = "launch" /\ config' = Top.id
      /\ Advance("wait") /\ "wait" \in Points
  BY DEF Launch, At, Points
<1>2. /\ f \in Activation /\ Reframe(f) /\ f.at = "wait" /\ f.starting = Top.starting
      /\ f.id = Top.id
  BY <1>0, <1>1, Advances
<1> HIDE DEF f
<1>3. /\ DOMAIN frames' = DOMAIN frames /\ Len(frames') = Len(frames) /\ frames' # <<>>
      /\ \A k \in DOMAIN frames : frames'[k] = IF k = top THEN f ELSE frames[k]
      /\ top \in DOMAIN frames /\ Top = frames[top]
  BY <1>0, <1>1, <1>2, TopFacts, Reframed DEF Top
<1> HIDE DEF top
<1>4. /\ Top.starting /\ Top.id \in 1 .. starts /\ Top.id \in Servers
      /\ listener[Top.id] = "off" /\ starts \in 0 .. MaxStarts /\ Top.at \in Opening
  <2>1. Top.starting /\ Top.id \in 1 .. starts /\ listener[Top.id] = "off" /\ Top.at \in Opening
    BY <1>1, <1>3 DEF Stacked, Opening
  <2>2. starts \in 0 .. MaxStarts
    BY <1>0 DEF GuiTypes
  <2>3. Top.id \in Servers
    BY <2>1, <2>2, Constants
  <2> QED BY <2>1, <2>2, <2>3
<1>5. /\ \A i \in Servers : i # Top.id => listener'[i] = listener[i]
      /\ listener'[Top.id] \in {"off", "begin"}
  BY <1>0, <1>4 DEF Launch, LstTypes
<1>6. Up' = Up /\ Active' \subseteq Active \cup {Top.id} /\ Patient' = Patient
  <2>1. \A i \in Servers : i \in Up' <=> i \in Up
    BY <1>4, <1>5 DEF Up
  <2>2. Active' \subseteq Active \cup {Top.id}
    BY <1>5 DEF Active
  <2> QED BY <1>1, <2>1, <2>2 DEF Up, Patient, fixed
<1>7. Ledger'
  BY <1>1, <1>6 DEF Ledger, Adds
<1>8. Locked'
  BY <1>1, <1>4, <1>5 DEF Locked
<1>9. Stacked'
  <2>1. ASSUME NEW k \in DOMAIN frames'
        PROVE  /\ frames'[k].at \in Opening \cup {"wait"} => frames'[k].starting
               /\ frames'[k].starting => frames'[k].id \in 1 .. starts'
               /\ frames'[k].at \in Opening => listener'[frames'[k].id] = "off"
    <3>1. CASE k = top
      BY <1>1, <1>2, <1>3, <1>4, <3>1 DEF Opening
    <3>2. CASE k # top
      <4>1. frames'[k] = frames[k] /\ k \in DOMAIN frames
        BY <1>3, <3>2
      <4>2. ASSUME frames[k].at \in Opening PROVE listener'[frames[k].id] = "off"
        <5>1. frames[k].starting /\ listener[frames[k].id] = "off" /\ frames[k].id \in 1 .. starts
          BY <4>1, <4>2 DEF Stacked
        <5>2. frames[k].id # Top.id
          BY <1>3, <1>4, <3>2, <4>1, <5>1 DEF Stacked
        <5>3. frames[k].id \in Servers
          BY <1>4, <5>1, Constants
        <5> QED BY <1>5, <5>1, <5>2, <5>3
      <4> QED BY <1>1, <4>1, <4>2 DEF Stacked
    <3> QED BY <3>1, <3>2
  <2>2. \A j, k \in DOMAIN frames' :
          frames'[j].starting /\ frames'[k].starting /\ frames'[j].id = frames'[k].id => j = k
    BY <1>2, <1>3 DEF Stacked
  <2>3. \A i \in Servers : listener'[i] # "off" => i <= starts'
    BY <1>1, <1>4, <1>5 DEF Stacked
  <2> QED BY <1>1, <2>1, <2>2, <2>3 DEF Stacked
<1>10. ASSUME Patient PROVE inbox = <<>> /\ Active = {} /\ Len(frames) <= 1
  BY <1>3, <1>4, <1>10 DEF Alone
<1>11. Alone'
  <2>1. ASSUME Patient, NEW k \in DOMAIN frames' PROVE k = top /\ frames'[k] = f
    <3>1. DOMAIN frames = 1 .. Len(frames) /\ Len(frames) \in Nat
      BY <1>0, <1>1, TopFacts
    <3> QED BY <1>3, <1>10, <2>1, <3>1
  <2>2. ASSUME Patient, NEW i \in Servers, listener'[i] = "begin"
        PROVE  \E k \in DOMAIN frames' : frames'[k].at = "wait" /\ frames'[k].id = i
    <3>1. i \in Active'
      BY <2>2 DEF Active
    <3>2. i = Top.id
      BY <1>6, <1>10, <2>2, <3>1
    <3> QED BY <1>2, <1>3, <3>2
  <2>3. ASSUME Patient PROVE "stopped" \notin Range(inbox')
    BY <1>1, <1>10, <2>3 DEF Range
  <2>4. ASSUME Patient PROVE \A i \in Active' : i = config'
    BY <1>1, <1>6, <1>10, <2>4
  <2>5. ASSUME Patient, NEW k \in DOMAIN frames' PROVE frames'[k].at \notin Opening
    BY <1>2, <2>1, <2>5 DEF Opening
  <2> QED BY <1>3, <1>6, <1>10, <2>2, <2>3, <2>4, <2>5 DEF Alone
<1>12. Flagged'
  <2>1. \A k \in DOMAIN frames : frames'[k].starting = frames[k].starting
    BY <1>2, <1>3
  <2>2. ASSUME Patient, NEW k \in DOMAIN frames', ~frames'[k].starting, frames'[k].at # "flag"
        PROVE  running' = 0
    <3>1. k # top
      BY <1>2, <1>3, <1>4, <2>2
    <3> QED BY <1>1, <1>3, <2>2, <3>1 DEF Flagged
  <2> QED BY <1>3, <1>6, <2>2 DEF Flagged, Idle
<1> QED BY <1>7, <1>8, <1>9, <1>11, <1>12
-----------------------------------------------------------------------------
(* Clicks.                                                                 *)
LEMMA Entered ==
  ASSUME FrameTypes, NEW starting \in BOOLEAN, NEW id \in 0 .. MaxStarts, NEW point \in Points,
         Enter(starting, id, point)
  PROVE  LET n == Len(frames) + 1
         IN  /\ frames' \in Seq(Activation) /\ Len(frames') = n /\ frames' # <<>>
             /\ DOMAIN frames' = DOMAIN frames \cup {n} /\ n \notin DOMAIN frames
             /\ \A k \in DOMAIN frames : frames'[k] = frames[k]
             /\ frames'[n].starting = starting /\ frames'[n].id = id /\ frames'[n].at = point
<1> DEFINE e == [starting |-> starting, id |-> id, box |-> FALSE, at |-> point]
<1>1. e \in Activation /\ e.starting = starting /\ e.id = id /\ e.at = point
  BY DEF Activation, Points
<1>2. frames' = Append(frames, e) /\ frames \in Seq(Activation)
  BY DEF Enter, FrameTypes
<1> HIDE DEF e
<1>3. /\ frames' \in Seq(Activation) /\ Len(frames') = Len(frames) + 1
      /\ \A k \in 1 .. Len(frames) : frames'[k] = frames[k]
      /\ frames'[Len(frames) + 1] = e
  BY <1>1, <1>2, AppendProperties
<1>4. /\ Len(frames) \in Nat /\ DOMAIN frames = 1 .. Len(frames)
      /\ DOMAIN frames' = 1 .. Len(frames) + 1
  BY <1>2, <1>3, LenProperties
<1> QED BY <1>1, <1>3, <1>4, EmptySeq

(* The user who waits starts a server when the log shows none and no       *)
(* message is on its way: then no listener runs.                           *)
LEMMA NoneUp == ASSUME IInv, inbox = <<>>, shown = 0 PROVE Up = {}
<1>1. PICK p : p[0] = 0 /\ p[0] = Cardinality(Up)
  BY EmptySeq DEF IInv, Ledger, Adds
<1>2. IsFiniteSet(Up) /\ Cardinality(Up) = 0
  BY <1>1, Parts, FewUp DEF IInv
<1> QED BY <1>2, FS_EmptySet

LEMMA ClickStartKept ==
  ASSUME IInv, ClickStart
  PROVE  Ledger' /\ Stacked' /\ Locked' /\ Alone' /\ Flagged'
<1> DEFINE n == Len(frames) + 1
<1> USE DEF IInv
<1>0. FrameTypes /\ GuiTypes /\ LstTypes
  BY Parts
<1>1. /\ UNCHANGED <<fixed, button, shown, config, inbox, lock, listener>>
      /\ inbox = <<>> /\ starts < MaxStarts /\ starts' = starts + 1 /\ running' = running + 1
      /\ (Idle \/ user = "reenters") /\ (user = "waits" => shown = 0)
      /\ Enter(TRUE, starts + 1, "greet")
  BY DEF ClickStart, MayClick, lstVars
<1>2. starts \in Nat /\ starts + 1 \in 1 .. MaxStarts /\ "greet" \in Points /\ running \in Nat
  BY <1>0, <1>1, Constants DEF GuiTypes, Points
<1>3. /\ Len(frames') = n /\ frames' # <<>>
      /\ DOMAIN frames' = DOMAIN frames \cup {n} /\ n \notin DOMAIN frames
      /\ \A k \in DOMAIN frames : frames'[k] = frames[k]
      /\ frames'[n].starting /\ frames'[n].id = starts + 1 /\ frames'[n].at = "greet"
  <2>1. starts + 1 \in 0 .. MaxStarts /\ TRUE \in BOOLEAN
    BY <1>2
  <2>2. Enter(TRUE, starts + 1, "greet")
    BY <1>1
  <2> QED BY <1>0, <1>2, <2>1, <2>2, Entered
<1> HIDE DEF n
<1>4. Up' = Up /\ Active' = Active /\ Patient' = Patient
  BY <1>1 DEF Up, Active, Patient, fixed
<1>5. Ledger' /\ Locked'
  BY <1>1, <1>4 DEF Ledger, Adds, Locked
<1>6. Stacked'
  <2>1. listener[starts + 1] = "off"
    BY <1>2, Constants DEF Stacked
  <2>2. \A k \in DOMAIN frames : frames[k].starting => frames[k].id \in 1 .. starts
    BY DEF Stacked
  <2>3. \A k \in DOMAIN frames' :
          /\ frames'[k].at \in Opening \cup {"wait"} => frames'[k].starting
          /\ frames'[k].starting => frames'[k].id \in 1 .. starts'
          /\ frames'[k].at \in Opening => listener'[frames'[k].id] = "off"
    <3>1. ASSUME NEW k \in DOMAIN frames
          PROVE  /\ frames'[k].at \in Opening \cup {"wait"} => frames'[k].starting
                 /\ frames'[k].starting => frames'[k].id \in 1 .. starts'
                 /\ frames'[k].at \in Opening => listener'[frames'[k].id] = "off"
      BY <1>1, <1>2, <1>3 DEF Stacked
    <3>2. /\ frames'[n].starting /\ frames'[n].id \in 1 .. starts'
          /\ listener'[frames'[n].id] = "off"
      BY <1>1, <1>2, <1>3, <2>1
    <3> QED BY <1>3, <3>1, <3>2
  <2>4. \A j, k \in DOMAIN frames' :
          frames'[j].starting /\ frames'[k].starting /\ frames'[j].id = frames'[k].id => j = k
    <3>1. \A k \in DOMAIN frames : frames[k].starting => frames[k].id # starts + 1
      BY <1>2, <2>2
    <3> QED BY <1>3, <3>1 DEF Stacked
  <2>5. \A i \in Servers : listener'[i] # "off" => i <= starts'
    BY <1>1, <1>2, Constants DEF Stacked
  <2>6. running' <= starts'
    BY <1>1, <1>2 DEF Stacked
  <2> QED BY <2>3, <2>4, <2>5, <2>6 DEF Stacked
<1>7. ASSUME Patient PROVE frames = <<>> /\ Active = {}
  <2>1. frames = <<>> /\ shown = 0
    BY <1>1, <1>7 DEF Patient, Idle, ClickStart, MayClick
  <2>2. Up = {}
    BY <1>1, <2>1, NoneUp
  <2>3. \A i \in Servers : listener[i] # "begin"
    BY <1>7, <2>1, EmptySeq DEF Alone
  <2> QED BY <2>1, <2>2, <2>3, ActiveUp
<1>8. ASSUME Patient PROVE n = 1 /\ DOMAIN frames' = {n} /\ Len(frames') <= 1
  BY <1>3, <1>7, <1>8, EmptySeq DEF n
<1>9. Alone'
  <2>1. ASSUME Patient, NEW i \in Servers PROVE listener'[i] # "begin"
    BY <1>1, <1>7, <2>1 DEF Active
  <2> QED BY <1>1, <1>4, <1>7, <1>8, <2>1 DEF Alone
<1>10. Flagged'
  BY <1>3, <1>4, <1>8 DEF Flagged, Idle
<1> QED BY <1>5, <1>6, <1>9, <1>10

LEMMA ClickStopKept ==
  ASSUME IInv, ClickStop
  PROVE  Ledger' /\ Stacked' /\ Locked' /\ Alone' /\ Flagged'
<1> DEFINE n == Len(frames) + 1
<1> USE DEF IInv
<1>0. FrameTypes /\ GuiTypes
  BY Parts
<1>1. /\ UNCHANGED <<fixed, button, shown, starts, running, config, inbox, lock, listener>>
      /\ (Idle \/ user = "reenters") /\ Enter(FALSE, None, "flag")
  BY DEF ClickStop, MayClick, lstVars
<1>2. /\ Len(frames') = n /\ frames' # <<>>
      /\ DOMAIN frames' = DOMAIN frames \cup {n} /\ n \notin DOMAIN frames
      /\ \A k \in DOMAIN frames : frames'[k] = frames[k]
      /\ frames'[n].starting = FALSE /\ frames'[n].at = "flag"
  <2>1. None \in 0 .. MaxStarts /\ FALSE \in BOOLEAN /\ "flag" \in Points
    BY Constants DEF None, Points
  <2>2. Enter(FALSE, None, "flag")
    BY <1>1
  <2> QED BY <1>0, <2>1, <2>2, Entered
<1> HIDE DEF n
<1>3. Up' = Up /\ Active' = Active /\ Patient' = Patient
  BY <1>1 DEF Up, Active, Patient, fixed
<1>4. Ledger' /\ Locked'
  BY <1>1, <1>3 DEF Ledger, Adds, Locked
<1>5. Stacked'
  <2>1. \A k \in DOMAIN frames' :
          /\ frames'[k].at \in Opening \cup {"wait"} => frames'[k].starting
          /\ frames'[k].starting => frames'[k].id \in 1 .. starts'
          /\ frames'[k].at \in Opening => listener'[frames'[k].id] = "off"
    BY <1>1, <1>2 DEF Stacked, Opening
  <2>2. \A j, k \in DOMAIN frames' :
          frames'[j].starting /\ frames'[k].starting /\ frames'[j].id = frames'[k].id => j = k
    BY <1>2 DEF Stacked
  <2> QED BY <1>1, <2>1, <2>2 DEF Stacked
<1>6. ASSUME Patient PROVE frames = <<>> /\ n = 1 /\ DOMAIN frames' = {n}
  <2>1. frames = <<>>
    BY <1>1, <1>6 DEF Patient, Idle
  <2> QED BY <1>2, <2>1, EmptySeq DEF n
<1>7. Alone'
  <2>1. ASSUME Patient, NEW i \in Servers PROVE listener'[i] # "begin"
    BY <1>1, <1>6, <2>1, EmptySeq DEF Alone
  <2> QED BY <1>1, <1>2, <1>3, <1>6, <2>1 DEF Alone, Opening
<1>8. Flagged'
  BY <1>2, <1>3, <1>6 DEF Flagged, Idle
<1> QED BY <1>4, <1>5, <1>7, <1>8

LEMMA ReturnKept ==
  ASSUME IInv, Return
  PROVE  Ledger' /\ Stacked' /\ Locked' /\ Alone' /\ Flagged'
<1> DEFINE top == Len(frames)
<1> USE DEF IInv
<1>0. FrameTypes /\ GuiTypes
  BY Parts
<1>1. /\ UNCHANGED <<fixed, shown, starts, running, config, inbox, lock, listener>>
      /\ ~Idle /\ Top.at = "end" /\ button' = Top.starting
      /\ frames' = SubSeq(frames, 1, top - 1)
  BY DEF Return, At, ButtonAfter, lstVars
<1>2. /\ top \in Nat \ {0} /\ DOMAIN frames = 1 .. top /\ Top = frames[top]
      /\ \A k \in 1 .. top : frames[k] \in Activation
  BY <1>0, <1>1, TopFacts, ElementOfSeq DEF Top, FrameTypes
<1>3. /\ Len(frames') = top - 1 /\ DOMAIN frames' = 1 .. top - 1
      /\ \A k \in 1 .. top - 1 : frames'[k] = frames[k]
  <2>1. \A k \in 1 .. top - 1 : frames[k] \in Activation
    BY <1>2
  <2>2. /\ frames' \in Seq(Activation) /\ Len(frames') = top - 1
        /\ \A k \in 1 .. top - 1 : frames'[k] = frames[k]
    BY <1>1, <1>2, <2>1, SubSeqProperties
  <2> QED BY <2>2, LenProperties
<1>4. \A k \in DOMAIN frames' : k \in DOMAIN frames /\ frames'[k] = frames[k]
  BY <1>2, <1>3
<1> HIDE DEF top
<1>5. Up' = Up /\ Active' = Active /\ Patient' = Patient
  BY <1>1 DEF Up, Active, Patient, fixed
<1>6. Ledger' /\ Locked'
  BY <1>1, <1>5 DEF Ledger, Adds, Locked
<1>7. Stacked'
  <2>1. ASSUME NEW k \in DOMAIN frames'
        PROVE  /\ frames'[k].at \in Opening \cup {"wait"} => frames'[k].starting
               /\ frames'[k].starting => frames'[k].id \in 1 .. starts'
               /\ frames'[k].at \in Opening => listener'[frames'[k].id] = "off"
    <3>1. k \in DOMAIN frames /\ frames'[k] = frames[k]
      BY <1>4
    <3> QED BY <1>1, <3>1 DEF Stacked
  <2>2. \A j, k \in DOMAIN frames' :
          frames'[j].starting /\ frames'[k].starting /\ frames'[j].id = frames'[k].id => j = k
    BY <1>4 DEF Stacked
  <2> QED BY <1>1, <2>1, <2>2 DEF Stacked
<1>8. Alone'
  <2>1. ASSUME Patient, NEW i \in Servers, listener'[i] = "begin"
        PROVE  \E k \in DOMAIN frames' : frames'[k].at = "wait" /\ frames'[k].id = i
    <3>1. PICK k \in DOMAIN frames : frames[k].at = "wait" /\ frames[k].id = i
      BY <1>1, <2>1 DEF Alone
    <3>2. k # top
      BY <1>1, <1>2, <3>1
    <3>3. k \in DOMAIN frames' /\ frames'[k] = frames[k]
      BY <1>2, <1>3, <3>2
    <3> QED BY <3>1, <3>3
  <2>2. ASSUME Patient PROVE Len(frames') <= 1
    BY <1>2, <1>3, <2>2 DEF Alone, top
  <2>3. ASSUME Patient, NEW k \in DOMAIN frames', frames'[k].at \in Opening
        PROVE  inbox' = <<>> /\ Active' = {}
    <3>1. k \in DOMAIN frames /\ frames[k].at \in Opening
      BY <1>4, <2>3
    <3> QED BY <1>1, <1>5, <2>3, <3>1 DEF Alone
  <2> QED BY <1>1, <1>5, <2>1, <2>2, <2>3 DEF Alone
<1>9. Flagged'
  <2>1. ASSUME Patient, NEW k \in DOMAIN frames', ~frames'[k].starting, frames'[k].at # "flag"
        PROVE  running' = 0
    BY <1>1, <1>4, <2>1 DEF Flagged
  <2>2. ASSUME Patient, running' # 0 PROVE button'
    <3>1. top \in DOMAIN frames /\ running # 0 /\ frames[top].at = "end"
      BY <1>1, <1>2, <2>2
    <3> QED BY <1>1, <1>2, <2>2, <3>1 DEF Flagged
  <2> QED BY <1>5, <2>1, <2>2 DEF Flagged
<1> QED BY <1>6, <1>7, <1>8, <1>9
-----------------------------------------------------------------------------
(* Messages.                                                               *)
LEMMA DispatchKept ==
  ASSUME IInv, Dispatch
  PROVE  /\ Ledger' /\ Stacked' /\ Locked' /\ Alone' /\ Flagged'
         /\ shown' \in 0 .. MaxStarts /\ inbox' \in Seq({"started", "stopped"})
<1> DEFINE n == Len(inbox)
<1> USE DEF IInv
<1>0. FrameTypes /\ GuiTypes /\ LstTypes /\ InboxTypes
  BY Parts
<1>1. /\ UNCHANGED <<fixed, frames, starts, running, config, lock, listener>>
      /\ inbox # <<>> /\ inbox' = Tail(inbox)
      /\ (button' = button \/ Head(inbox) = "stopped")
      /\ shown' = IF Head(inbox) = "started" THEN shown + 1 ELSE shown - 1
  <2>1. Head(inbox) \in {"started", "stopped"}
    BY <1>0, HeadTailProperties DEF Dispatch, InboxTypes
  <2> QED BY <2>1 DEF Dispatch, lstVars
<1>2. Up' = Up /\ Active' = Active /\ Patient' = Patient
  BY <1>1 DEF Up, Active, Patient, fixed
<1>3. /\ n \in Nat \ {0} /\ Len(inbox') = n - 1 /\ inbox' \in Seq({"started", "stopped"})
      /\ Head(inbox) = inbox[1] /\ \A k \in 1 .. n - 1 : inbox'[k] = inbox[k + 1]
  <2>1. n \in Nat \ {0}
    BY <1>0, <1>1, LenProperties, EmptySeq DEF InboxTypes
  <2>2. /\ Head(inbox) = inbox[1] /\ Len(Tail(inbox)) = n - 1
        /\ Tail(inbox) \in Seq({"started", "stopped"})
        /\ \A k \in 1 .. Len(Tail(inbox)) : Tail(inbox)[k] = inbox[k + 1]
    BY <1>0, <1>1, HeadTailProperties DEF InboxTypes
  <2> QED BY <1>1, <2>1, <2>2
<1>4. PICK p \in [0 .. n -> 0 .. MaxStarts] : Adds(p, inbox, shown, Cardinality(Up))
  BY DEF Ledger
<1> HIDE DEF n
<1>5. shown' = p[1] /\ shown' \in 0 .. MaxStarts
  <2>1. 1 \in 1 .. n /\ 1 \in 0 .. n /\ 1 - 1 = 0 /\ p[0] = shown
    BY <1>3, <1>4 DEF Adds
  <2>2. p[1] = IF inbox[1] = "started" THEN p[1 - 1] + 1 ELSE p[1 - 1] - 1
    BY <1>4, <2>1 DEF Adds, n
  <2>3. p[1] \in 0 .. MaxStarts
    BY <1>4, <2>1
  <2> QED BY <1>1, <1>3, <2>1, <2>2, <2>3
<1>6. Ledger'
  <2> DEFINE r == [k \in 0 .. n - 1 |-> p[k + 1]]
  <2>1. r \in [0 .. n - 1 -> 0 .. MaxStarts] /\ r[0] = shown' /\ r[n - 1] = Cardinality(Up)
    BY <1>3, <1>4, <1>5 DEF Adds, n
  <2>2. ASSUME NEW k \in 1 .. n - 1
        PROVE  r[k] = IF inbox'[k] = "started" THEN r[k - 1] + 1 ELSE r[k - 1] - 1
    <3>1. k \in 0 .. n - 1 /\ k - 1 \in 0 .. n - 1 /\ k + 1 \in 1 .. n /\ (k - 1) + 1 = k
          /\ (k + 1) - 1 = k
      BY <1>3
    <3>2. r[k] = p[k + 1] /\ r[k - 1] = p[k] /\ inbox'[k] = inbox[k + 1]
      BY <1>3, <3>1
    <3>3. p[k + 1] = IF inbox[k + 1] = "started" THEN p[k] + 1 ELSE p[k] - 1
      BY <1>4, <3>1 DEF Adds, n
    <3> QED BY <3>2, <3>3
  <2> HIDE DEF r
  <2>3. Adds(r, inbox', shown', Cardinality(Up'))
    BY <1>2, <1>3, <2>1, <2>2 DEF Adds
  <2> QED BY <1>3, <2>1, <2>3 DEF Ledger
<1>7. Stacked' /\ Locked'
  BY <1>1 DEF Stacked, Locked
<1>8. ASSUME Patient PROVE Active = {} \/ Head(inbox) # "stopped"
  <2>1. Head(inbox) \in Range(inbox)
    BY <1>0, <1>1, TailRange DEF InboxTypes
  <2> QED BY <1>8, <2>1 DEF Alone
<1>9. Alone'
  <2>1. Range(inbox') \subseteq Range(inbox)
    BY <1>0, <1>1, TailRange DEF InboxTypes
  <2>2. ASSUME Patient, NEW k \in DOMAIN frames PROVE frames[k].at \notin Opening
    BY <1>1, <2>2 DEF Alone
  <2> QED BY <1>1, <1>2, <2>1, <2>2 DEF Alone
<1>10. Flagged'
  BY <1>1, <1>2, <1>8 DEF Flagged, Idle
<1> QED BY <1>3, <1>5, <1>6, <1>7, <1>9, <1>10
-----------------------------------------------------------------------------
(* The listener threads.                                                   *)
Still == UNCHANGED <<fixed, frames, button, shown, starts, running, config>>

LEMMA ListenerAlone ==
  ASSUME IInv, NEW i \in Active, NEW to \in States \ {"off", "begin"}, Become(i, to), Still,
         lock' \in {lock, [lock EXCEPT ![i] = TRUE]},
         lock'[i] => to \notin {"make", "ready"}
  PROVE  /\ \A j \in Servers : listener'[j] = IF j = i THEN to ELSE listener[j]
         /\ Stacked' /\ Locked'
         /\ Patient => \A k \in DOMAIN frames : frames[k].at \notin Opening
         /\ Patient' = Patient /\ Active' = IF to = "exited" THEN Active \ {i} ELSE Active
         /\ Patient => Active \subseteq {i} /\ \A j \in Servers : listener'[j] = "begin" =>
               \E k \in DOMAIN frames' : frames'[k].at = "wait" /\ frames'[k].id = j
         /\ Flagged'
<1> USE DEF IInv
<1>0. LstTypes /\ GuiTypes
  BY Parts
<1>1. \A j \in Servers : listener'[j] = IF j = i THEN to ELSE listener[j]
  BY <1>0 DEF Become, LstTypes
<1>2. i \in Servers /\ listener[i] \notin {"off", "exited"}
  BY DEF Active
<1>3. Stacked'
  <2>1. ASSUME NEW k \in DOMAIN frames'
        PROVE  /\ frames'[k].at \in Opening \cup {"wait"} => frames'[k].starting
               /\ frames'[k].starting => frames'[k].id \in 1 .. starts'
               /\ frames'[k].at \in Opening => listener'[frames'[k].id] = "off"
    <3>1. k \in DOMAIN frames /\ frames'[k] = frames[k]
      BY DEF Still
    <3>2. ASSUME frames[k].at \in Opening PROVE listener'[frames[k].id] = "off"
      <4>1. listener[frames[k].id] = "off"
        BY <3>1, <3>2 DEF Stacked
      <4> QED BY <1>2, <4>1 DEF Become
    <3> QED BY <3>1, <3>2 DEF Still, Stacked
  <2>2. \A j, k \in DOMAIN frames' :
          frames'[j].starting /\ frames'[k].starting /\ frames'[j].id = frames'[k].id => j = k
    BY DEF Still, Stacked
  <2>3. \A j \in Servers : listener'[j] # "off" => j <= starts'
    BY <1>1, <1>2 DEF Still, Stacked
  <2>4. running' <= starts'
    BY DEF Still, Stacked
  <2> QED BY <2>1, <2>2, <2>3, <2>4 DEF Stacked
<1>4. Locked'
  <2>1. ASSUME NEW j \in Servers, lock'[j]
        PROVE  listener'[j] \notin {"off", "begin", "make", "ready"}
    <3>1. CASE j = i
      BY <1>1, <2>1, <3>1
    <3>2. CASE j # i
      <4>1. lock[j]
        BY <1>0, <2>1, <3>2 DEF LstTypes
      <4> QED BY <1>1, <3>2, <4>1 DEF Locked
    <3> QED BY <3>1, <3>2
  <2> QED BY <2>1 DEF Locked
<1>5. Patient => \A k \in DOMAIN frames : frames[k].at \notin Opening
  BY DEF Alone
<1>6. Patient' = Patient
  BY DEF Still, Patient, fixed
<1>7. Active' = IF to = "exited" THEN Active \ {i} ELSE Active
  <2>1. \A j \in Servers :
          j \in Active' <=> (IF to = "exited" THEN j \in Active \ {i} ELSE j \in Active)
    BY <1>1, <1>2 DEF Active
  <2> QED BY <2>1 DEF Active
<1>8. Patient => Active \subseteq {i}
  BY DEF Alone
<1>9. ASSUME Patient, NEW j \in Servers, listener'[j] = "begin"
      PROVE  \E k \in DOMAIN frames' : frames'[k].at = "wait" /\ frames'[k].id = j
  BY <1>1, <1>9 DEF Alone, Still
<1>10. Flagged'
  BY <1>6, <1>7 DEF Flagged, Still, Idle
<1> QED BY <1>1, <1>3, <1>4, <1>5, <1>6, <1>7, <1>8, <1>9, <1>10

(* A step of a listener that sends no message.                             *)
LEMMA SilentKept ==
  ASSUME IInv, NEW i \in Up, NEW to \in Working, Become(i, to), Still, inbox' = inbox,
         lock' \in {lock, [lock EXCEPT ![i] = TRUE]},
         lock'[i] => to \notin {"make", "ready"}
  PROVE  Ledger' /\ Stacked' /\ Locked' /\ Alone' /\ Flagged'
<1> USE DEF IInv
<1>1. i \in Active /\ to \in States \ {"off", "begin"} /\ to # "exited"
  BY ActiveUp DEF Working, States
<1>2. /\ \A j \in Servers : listener'[j] = IF j = i THEN to ELSE listener[j]
      /\ Stacked' /\ Locked' /\ Flagged' /\ Patient' = Patient /\ Active' = Active
      /\ Patient => \A k \in DOMAIN frames : frames[k].at \notin Opening
      /\ Patient => \A j \in Servers : listener'[j] = "begin" =>
            \E k \in DOMAIN frames' : frames'[k].at = "wait" /\ frames'[k].id = j
  BY <1>1, ListenerAlone
<1>3. Up' = Up
  <2>1. \A j \in Servers : j \in Up' <=> j \in Up
    BY <1>2 DEF Up, Working
  <2> QED BY <2>1 DEF Up
<1>4. Ledger'
  BY <1>3 DEF Ledger, Adds, Still
<1>5. Alone'
  BY <1>2 DEF Alone, Still
<1> QED BY <1>2, <1>4, <1>5

(* A message put behind the others keeps the sum.                          *)
LEMMA LedgerAppend ==
  ASSUME Ledger, InboxTypes, LstTypes', NEW m \in {"started", "stopped"},
         inbox' = Append(inbox, m), shown' = shown,
         Cardinality(Up') = IF m = "started" THEN Cardinality(Up) + 1 ELSE Cardinality(Up) - 1
  PROVE  /\ Ledger' /\ inbox' \in Seq({"started", "stopped"})
         /\ Range(inbox') = Range(inbox) \cup {m}
<1> DEFINE n == Len(inbox)
           c == Cardinality(Up')
<1>1. /\ n \in Nat /\ Len(inbox') = n + 1 /\ inbox' \in Seq({"started", "stopped"})
      /\ \A k \in 1 .. n : inbox'[k] = inbox[k]
      /\ inbox'[n + 1] = m
  BY AppendProperties, LenProperties DEF InboxTypes
<1>2. Range(inbox') = Range(inbox) \cup {m}
  BY AppendRange DEF InboxTypes
<1>3. c \in 0 .. MaxStarts
  <2>1. (Up \subseteq Servers /\ IsFiniteSet(Up) /\ Cardinality(Up) \in 0 .. MaxStarts)'
    BY FewUp, PTL
  <2> QED BY <2>1
<1>4. PICK p \in [0 .. n -> 0 .. MaxStarts] : Adds(p, inbox, shown, Cardinality(Up))
  BY DEF Ledger
<1> DEFINE r == [k \in 0 .. n + 1 |-> IF k = n + 1 THEN c ELSE p[k]]
<1>5. p[0] = shown /\ p[n] = Cardinality(Up)
  BY <1>4 DEF Adds
<1>6. \A k \in 1 .. n : p[k] = IF inbox[k] = "started" THEN p[k - 1] + 1 ELSE p[k - 1] - 1
  BY <1>4 DEF Adds
<1>7. c = IF m = "started" THEN p[n] + 1 ELSE p[n] - 1
  BY <1>5
<1> HIDE DEF n, c
<1>8. r \in [0 .. n + 1 -> 0 .. MaxStarts] /\ r[0] = shown' /\ r[n + 1] = c
  BY <1>1, <1>3, <1>4, <1>5
<1>9. ASSUME NEW k \in 1 .. n + 1
      PROVE  r[k] = IF inbox'[k] = "started" THEN r[k - 1] + 1 ELSE r[k - 1] - 1
  <2>1. CASE k = n + 1
    <3>1. r[k] = c /\ k - 1 = n /\ n \in 0 .. n + 1 /\ n # n + 1
      BY <1>1, <2>1
    <3>2. r[k - 1] = p[n]
      BY <3>1
    <3> QED BY <1>1, <1>7, <2>1, <3>1, <3>2
  <2>2. CASE k # n + 1
    <3>1. k \in 1 .. n /\ k \in 0 .. n + 1 /\ k - 1 \in 0 .. n + 1 /\ k - 1 # n + 1
      BY <1>1, <2>2
    <3>2. r[k] = p[k] /\ r[k - 1] = p[k - 1]
      BY <2>2, <3>1
    <3> QED BY <1>1, <1>6, <3>1, <3>2
  <2> QED BY <2>1, <2>2
<1> HIDE DEF r
<1>10. Adds(r, inbox', shown', Cardinality(Up'))
  BY <1>1, <1>8, <1>9 DEF Adds, c
<1>11. Ledger'
  BY <1>1, <1>8, <1>10 DEF Ledger
<1> QED BY <1>1, <1>2, <1>11

LEMMA BeginKept ==
  ASSUME IInv, NEW i \in Servers, ListenerBegin(i)
  PROVE  /\ Ledger' /\ Stacked' /\ Locked' /\ Alone' /\ Flagged'
         /\ inbox' \in Seq({"started", "stopped"})
<1> USE DEF IInv
<1>0. LstTypes /\ InboxTypes
  BY Parts
<1>1. /\ listener[i] = "begin" /\ i \in Active /\ i \notin Up /\ Become(i, "make") /\ Still
      /\ inbox' = Append(inbox, "started") /\ lock' = lock /\ ~lock[i] /\ shown' = shown
      /\ "make" \in States \ {"off", "begin"}
  BY DEF ListenerBegin, Announced, Still, guiVars, Active, Up, Locked, States
<1>2. /\ \A j \in Servers : listener'[j] = IF j = i THEN "make" ELSE listener[j]
      /\ Stacked' /\ Locked' /\ Flagged' /\ Patient' = Patient /\ Active' = Active
      /\ Patient => \A k \in DOMAIN frames : frames[k].at \notin Opening
      /\ Patient => \A j \in Servers : listener'[j] = "begin" =>
            \E k \in DOMAIN frames' : frames'[k].at = "wait" /\ frames'[k].id = j
  BY <1>1, ListenerAlone
<1>3. LstTypes'
  <2>1. listener' \in [Servers -> States]
    BY <1>0, <1>1 DEF Become, LstTypes
  <2> QED BY <1>0, <2>1 DEF LstTypes, ListenerBegin
<1>4. Cardinality(Up') = Cardinality(Up) + 1
  <2>1. \A j \in Servers : j \in Up' <=> j \in Up \cup {i}
    BY <1>2 DEF Up
  <2>2. Up' = Up \cup {i}
    BY <2>1 DEF Up
  <2>3. IsFiniteSet(Up)
    BY <1>0, FewUp
  <2> QED BY <1>1, <2>2, <2>3, FS_AddElement
<1>5. /\ Ledger' /\ inbox' \in Seq({"started", "stopped"})
      /\ Range(inbox') = Range(inbox) \cup {"started"}
  BY <1>0, <1>1, <1>3, <1>4, LedgerAppend
<1>6. Alone'
  <2>1. ASSUME Patient
        PROVE  /\ Len(frames') <= 1 /\ \A j \in Active' : j = config'
               /\ \A k \in DOMAIN frames' : frames'[k].at \notin Opening
    BY <1>1, <1>2, <2>1 DEF Alone, Still
  <2>2. ASSUME Patient PROVE Active # {} => "stopped" \notin Range(inbox')
    BY <1>2, <1>5, <2>2 DEF Alone
  <2> QED BY <1>2, <2>1, <2>2 DEF Alone
<1> QED BY <1>2, <1>5, <1>6

LEMMA NotifyKept ==
  ASSUME IInv, NEW i \in Servers, ListenerNotify(i)
  PROVE  /\ Ledger' /\ Stacked' /\ Locked' /\ Alone' /\ Flagged'
         /\ inbox' \in Seq({"started", "stopped"})
<1> USE DEF IInv
<1>0. LstTypes /\ InboxTypes
  BY Parts
<1>1. /\ listener[i] = "notify" /\ i \in Active /\ i \in Up /\ Become(i, "exited") /\ Still
      /\ inbox' = Append(inbox, "stopped") /\ lock' = lock /\ shown' = shown
      /\ "exited" \in States \ {"off", "begin"}
  BY DEF ListenerNotify, Still, guiVars, Active, Up, States
<1>2. /\ \A j \in Servers : listener'[j] = IF j = i THEN "exited" ELSE listener[j]
      /\ Stacked' /\ Locked' /\ Flagged' /\ Patient' = Patient /\ Active' = Active \ {i}
      /\ Patient => Active \subseteq {i}
      /\ Patient => \A k \in DOMAIN frames : frames[k].at \notin Opening
      /\ Patient => \A j \in Servers : listener'[j] = "begin" =>
            \E k \in DOMAIN frames' : frames'[k].at = "wait" /\ frames'[k].id = j
  BY <1>1, ListenerAlone
<1>3. LstTypes'
  <2>1. listener' \in [Servers -> States]
    BY <1>0, <1>1 DEF Become, LstTypes
  <2> QED BY <1>0, <2>1 DEF LstTypes, ListenerNotify
<1>4. Cardinality(Up') = Cardinality(Up) - 1
  <2>1. \A j \in Servers : j \in Up' <=> j \in Up \ {i}
    BY <1>2 DEF Up
  <2>2. Up' = Up \ {i}
    BY <2>1 DEF Up
  <2>3. IsFiniteSet(Up)
    BY <1>0, FewUp
  <2> QED BY <1>1, <2>2, <2>3, FS_RemoveElement
<1>5. Ledger' /\ inbox' \in Seq({"started", "stopped"})
  BY <1>0, <1>1, <1>3, <1>4, LedgerAppend
<1>6. Alone'
  <2>1. ASSUME Patient
        PROVE  /\ Len(frames') <= 1 /\ \A j \in Active' : j = config'
               /\ \A k \in DOMAIN frames' : frames'[k].at \notin Opening
    BY <1>1, <1>2, <2>1 DEF Alone, Still
  <2>2. ASSUME Patient PROVE Active' = {}
    BY <1>2, <2>2
  <2> QED BY <1>2, <2>1, <2>2 DEF Alone
<1> QED BY <1>2, <1>5, <1>6

(* The steps of a listener between its two messages.                       *)
LEMMA ListenerKept ==
  ASSUME IInv, NEW i \in Servers,
         \/ ListenerMake(i) \/ ListenerCheck(i) \/ ListenerClose(i)
         \/ AcceptClient(i) \/ AcceptError(i)
         \/ \E ok \in Outcomes("associate") : ListenerReady(i, ok)
  PROVE  Ledger' /\ Stacked' /\ Locked' /\ Alone' /\ Flagged'
<1>1. CASE ListenerMake(i)
  <2>1. i \in Up /\ "ready" \in Working /\ Become(i, "ready") /\ Still /\ inbox' = inbox
        /\ lock' = lock /\ ~lock[i]
    BY <1>1 DEF ListenerMake, Up, Working, Still, guiVars, Locked, IInv
  <2> QED BY <2>1, SilentKept
<1>2. CASE ListenerCheck(i)
  <2>1. i \in Up /\ Still /\ inbox' = inbox /\ lock' = lock
    BY <1>2 DEF ListenerCheck, Up, Still, guiVars
  <2>2. \E to \in {"close", "accept"} : Become(i, to)
    BY <1>2 DEF ListenerCheck
  <2> QED BY <2>1, <2>2, SilentKept DEF Working
<1>3. CASE ListenerClose(i)
  <2>1. i \in Up /\ Still /\ inbox' = inbox /\ lock' = lock /\ Become(i, "notify")
    BY <1>3 DEF ListenerClose, Up, Still, guiVars
  <2> QED BY <2>1, SilentKept DEF Working
<1>4. CASE AcceptClient(i)
  <2>1. i \in Up /\ Still /\ inbox' = inbox /\ lock' = lock /\ Become(i, "check")
    BY <1>4 DEF AcceptClient, Up, Still, guiVars
  <2> QED BY <2>1, SilentKept DEF Working
<1>5. CASE AcceptError(i)
  <2>1. i \in Up /\ Still /\ inbox' = inbox /\ lock' = lock /\ Become(i, "close")
    BY <1>5 DEF AcceptError, Up, Still, guiVars
  <2> QED BY <2>1, SilentKept DEF Working
<1>6. ASSUME NEW ok \in Outcomes("associate"), ListenerReady(i, ok)
      PROVE  Ledger' /\ Stacked' /\ Locked' /\ Alone' /\ Flagged'
  <2>1. i \in Up /\ Still /\ inbox' = inbox /\ lock' = [lock EXCEPT ![i] = TRUE]
    BY <1>6 DEF ListenerReady, LockAfter, Up, Still, guiVars
  <2>2. \E to \in {"check", "notify"} : Become(i, to)
    BY <1>6 DEF ListenerReady
  <2> QED BY <2>1, <2>2, SilentKept DEF Working
<1> QED BY <1>1, <1>2, <1>3, <1>4, <1>5, <1>6
-----------------------------------------------------------------------------
(* The listening socket.  A step that leaves the sockets alone keeps it    *)
(* with the listeners that go on holding it.                               *)
LEMMA OwnedStep == ASSUME IInv, [Next]_vars PROVE Owned'
<1> DEFINE Holding == {"ready", "check", "accept", "close"}
<1> USE DEF IInv
<1>0. LstTypes /\ FrameTypes
  BY Parts
<1>1. ASSUME UNCHANGED <<fixed, sockVars, listener>> PROVE Owned'
  BY <1>1 DEF Owned, Patient, sockVars, fixed
<1>2. CASE StopClose
  <2>1. UNCHANGED fixed /\ open' = open \ {ssocket}
    BY <1>2 DEF StopClose
  <2> QED BY <2>1 DEF Owned, Patient, fixed
<1>3. ASSUME NEW ok \in Outcomes("thread"), Launch(ok) PROVE Owned'
  <2>1. UNCHANGED <<fixed, sockVars>> /\ ~Idle /\ Top.at = "launch"
    BY <1>3 DEF Launch, At
  <2>2. listener[Top.id] = "off"
    BY <1>0, <2>1, TopFacts DEF Stacked, Top, Opening
  <2>3. \A j \in Servers : listener[j] \in Holding => listener'[j] = listener[j]
    BY <1>3, <2>2 DEF Launch
  <2>4. open \subseteq Servers
    BY DEF TypeOK
  <2> QED BY <2>1, <2>3, <2>4 DEF Owned, Patient, sockVars, fixed
<1>4. ASSUME NEW i \in Servers, NEW to \in States, Become(i, to), UNCHANGED fixed,
             Patient => open' \in {open, {}} /\ ssocket' = ssocket
                        /\ (i \in open' => to \in Holding)
      PROVE  Owned'
  <2>1. \A j \in Servers : listener'[j] = IF j = i THEN to ELSE listener[j]
    BY <1>0, <1>4 DEF Become, LstTypes
  <2>2. Patient' = Patient /\ open \subseteq Servers
    BY <1>4 DEF Patient, TypeOK, fixed
  <2>3. ASSUME Patient, NEW j \in open'
        PROVE  j = ssocket' /\ listener'[j] \in Holding
    BY <1>4, <2>1, <2>2, <2>3 DEF Owned
  <2> QED BY <2>2, <2>3 DEF Owned
<1>5. ASSUME NEW i \in Servers, ListenerMake(i) PROVE Owned'
  <2>1. /\ listener[i] = "make" /\ UNCHANGED fixed /\ ssocket' = i /\ open' = open \cup {i}
        /\ Become(i, "ready")
    BY <1>5 DEF ListenerMake
  <2>2. ASSUME Patient PROVE open = {}
    <3>1. ASSUME NEW j \in open PROVE FALSE
      <4>1. j \in Servers /\ listener[j] \in Holding
        BY <2>2, <3>1 DEF Owned, TypeOK
      <4>2. j = config /\ i = config
        BY <2>1, <2>2, <4>1 DEF Alone, Active
      <4> QED BY <2>1, <4>1, <4>2
    <3> QED BY <3>1
  <2>3. listener'[i] = "ready" /\ Patient' = Patient
    BY <1>0, <2>1 DEF Become, LstTypes, Patient, fixed
  <2> QED BY <2>1, <2>2, <2>3 DEF Owned
<1>6. ASSUME NEW i \in Servers, ListenerBegin(i) \/ ListenerNotify(i) PROVE Owned'
  <2>1. /\ UNCHANGED <<fixed, sockVars>> /\ listener[i] \in {"begin", "notify"}
        /\ \E to \in {"make", "exited"} : Become(i, to)
    BY <1>6 DEF ListenerBegin, ListenerNotify
  <2>2. Patient => i \notin open
    BY <2>1 DEF Owned
  <2> QED BY <1>4, <2>1, <2>2 DEF sockVars, States
<1>7. ASSUME NEW i \in Servers, ListenerCheck(i) \/ AcceptClient(i) \/ AcceptError(i)
      PROVE  Owned'
  <2>1. UNCHANGED <<fixed, sockVars>> /\ \E to \in {"check", "accept", "close"} : Become(i, to)
    BY <1>7 DEF ListenerCheck, AcceptClient, AcceptError
  <2> QED BY <1>4, <2>1 DEF sockVars, States
<1>8. ASSUME NEW i \in Servers, ListenerClose(i) PROVE Owned'
  <2>1. /\ UNCHANGED <<fixed, ssocket>> /\ open' = open \ {ssocket} /\ Become(i, "notify")
    BY <1>8 DEF ListenerClose, ClosedOnExit
  <2>2. Patient => open' = {}
    BY <2>1 DEF Owned
  <2> QED BY <1>4, <2>1, <2>2 DEF States
<1>9. ASSUME NEW i \in Servers, NEW ok \in Outcomes("associate"), ListenerReady(i, ok)
      PROVE  Owned'
  <2>1. CASE ok
    <3>1. UNCHANGED <<fixed, sockVars>> /\ Become(i, "check")
      BY <1>9, <2>1 DEF ListenerReady, sockVars
    <3> QED BY <1>4, <3>1 DEF sockVars, States
  <2>2. CASE ~ok
    <3>1. UNCHANGED <<fixed, ssocket>> /\ open' = open \ {ssocket} /\ Become(i, "notify")
      BY <1>9, <2>2 DEF ListenerReady
    <3>2. Patient => open' = {}
      BY <3>1 DEF Owned
    <3> QED BY <1>4, <3>1, <3>2 DEF States
  <2> QED BY <2>1, <2>2
<1>10. CASE ClickStart \/ ClickStop \/ Quit \/ Dismiss \/ Dispatch \/ Greet \/ Await
            \/ StopFlag \/ StopPool \/ Return \/ UNCHANGED vars
            \/ \E ok \in Outcomes("pool") : PoolInit(ok)
  BY <1>1, <1>10 DEF ClickStart, ClickStop, Quit, Dismiss, Dispatch, Greet, Await, StopFlag,
       StopPool, Return, PoolInit, vars, lstVars
<1> QED BY <1>2, <1>3, <1>5, <1>6, <1>7, <1>8, <1>9, <1>10
        DEF Next, GuiStep, ListenerStep, Terminated

LEMMA KeptStep ==
  ASSUME IInv, [Next]_vars PROVE Ledger' /\ Stacked' /\ Locked' /\ Alone' /\ Flagged'
<1>1. CASE Quit \/ UNCHANGED vars
  <2>1. UNCHANGED <<fixed, frames, button, shown, starts, running, config, inbox, lock, listener>>
    BY <1>1 DEF Quit, vars, guiVars, lstVars
  <2>2. Up' = Up /\ Active' = Active /\ Patient' = Patient
    BY <2>1 DEF Up, Active, Patient, fixed
  <2>3. Ledger' /\ Locked'
    BY <2>1, <2>2 DEF IInv, Ledger, Adds, Locked
  <2>4. Stacked'
    BY <2>1 DEF IInv, Stacked
  <2>5. Alone' /\ Flagged'
    BY <2>1, <2>2 DEF IInv, Alone, Flagged, Idle
  <2> QED BY <2>3, <2>4, <2>5
<1>2. CASE \/ Dismiss \/ Greet \/ Await \/ StopFlag \/ StopPool \/ StopClose
           \/ \E ok \in Outcomes("pool") : PoolInit(ok)
  BY <1>2, GuiKept
<1> QED BY <1>1, <1>2, LaunchKept, ClickStartKept, ClickStopKept, ReturnKept, DispatchKept,
           BeginKept, NotifyKept, ListenerKept
        DEF Next, GuiStep, ListenerStep, Terminated
-----------------------------------------------------------------------------
(* Types.                                                                  *)
LEMMA FrameTypesStep == ASSUME IInv, [Next]_vars PROVE FrameTypes'
<1> USE DEF IInv
<1>0. FrameTypes /\ GuiTypes
  BY Parts
<1>1. ASSUME NEW to \in Points, ~Idle, Advance(to) \/ LogThen(to) PROVE FrameTypes'
  BY <1>0, <1>1, Advances, Logs, Reframed DEF FrameTypes
<1>2. CASE Dismiss
  BY <1>0, <1>2, Dismisses, Reframed DEF FrameTypes
<1>3. ASSUME ~Idle, \/ Greet \/ Await \/ StopFlag \/ StopPool \/ StopClose
                    \/ \E ok \in BOOLEAN : PoolInit(ok) \/ Launch(ok)
      PROVE  FrameTypes'
  <2>1. \E to \in Points : Advance(to) \/ LogThen(to)
    BY <1>3 DEF Greet, Await, StopFlag, StopPool, StopClose, PoolInit, Launch, Points
  <2> QED BY <1>1, <1>3, <2>1
<1>4. CASE ClickStart
  <2>1. starts + 1 \in 0 .. MaxStarts /\ TRUE \in BOOLEAN /\ "greet" \in Points
    BY <1>0, <1>4, Constants DEF ClickStart, GuiTypes, Points
  <2>2. Enter(TRUE, starts + 1, "greet")
    BY <1>4 DEF ClickStart
  <2>3. frames' \in Seq(Activation)
    BY <1>0, <2>1, <2>2, Entered
  <2> QED BY <2>3 DEF FrameTypes
<1>5. CASE ClickStop
  <2>1. None \in 0 .. MaxStarts /\ FALSE \in BOOLEAN /\ "flag" \in Points
    BY Constants DEF None, Points
  <2>2. Enter(FALSE, None, "flag")
    BY <1>5 DEF ClickStop
  <2>3. frames' \in Seq(Activation)
    BY <1>0, <2>1, <2>2, Entered
  <2> QED BY <2>3 DEF FrameTypes
<1>6. CASE Return
  <2>1. ~Idle /\ frames' = SubSeq(frames, 1, Len(frames) - 1)
    BY <1>6 DEF Return, At
  <2>2. Len(frames) \in Nat \ {0} /\ \A k \in 1 .. Len(frames) - 1 : frames[k] \in Activation
    BY <1>0, <2>1, TopFacts, ElementOfSeq DEF FrameTypes
  <2> QED BY <2>1, <2>2, SubSeqProperties DEF FrameTypes
<1>7. ASSUME frames' = frames PROVE FrameTypes'
  BY <1>0, <1>7 DEF FrameTypes
<1>8. CASE Quit \/ Dispatch \/ UNCHANGED vars
  BY <1>7, <1>8 DEF Quit, Dispatch, vars, guiVars
<1>9. ASSUME NEW i \in Servers, ListenerStep(i) \/ AcceptClient(i) \/ AcceptError(i)
      PROVE  FrameTypes'
  BY <1>7, <1>9 DEF ListenerStep, AcceptClient, AcceptError, ListenerBegin, ListenerMake,
       ListenerReady, ListenerCheck, ListenerClose, ListenerNotify, guiVars
<1>10. ASSUME NEW what PROVE Outcomes(what) \subseteq BOOLEAN
  BY DEF Outcomes
<1>11. CASE GuiStep /\ ~Dismiss /\ ~Dispatch /\ ~Return
  <2>1. ~Idle
    BY <1>11 DEF GuiStep, Greet, Await, StopFlag, StopPool, StopClose, PoolInit, Launch, At
  <2> QED BY <1>3, <1>10, <1>11, <2>1 DEF GuiStep
<1> QED BY <1>2, <1>4, <1>5, <1>6, <1>8, <1>9, <1>11 DEF Next, GuiStep, Terminated

LEMMA GuiTypesStep == ASSUME IInv, [Next]_vars PROVE GuiTypes'
<1> USE DEF IInv
<1>0. FrameTypes /\ GuiTypes
  BY Parts
<1>1. ASSUME UNCHANGED <<button, attached, shown, starts, quit, running>> PROVE GuiTypes'
  BY <1>0, <1>1 DEF GuiTypes
<1>2. CASE ClickStart
  <2>1. running + 1 \in 0 .. MaxStarts /\ starts + 1 \in 0 .. MaxStarts
    BY <1>0, <1>2, Constants DEF ClickStart, GuiTypes, Stacked
  <2> QED BY <1>0, <1>2, <2>1 DEF ClickStart, GuiTypes
<1>3. CASE Dispatch
  <2>1. shown' \in 0 .. MaxStarts
    BY <1>3, DispatchKept
  <2>2. button' \in BOOLEAN /\ UNCHANGED <<attached, starts, quit, running>>
    BY <1>0, <1>3 DEF Dispatch, GuiTypes
  <2> QED BY <1>0, <2>1, <2>2 DEF GuiTypes
<1>4. CASE Quit
  BY <1>0, <1>4 DEF Quit, GuiTypes
<1>5. ASSUME NEW ok \in Outcomes("thread"), Launch(ok) PROVE GuiTypes'
  BY <1>0, <1>5 DEF Launch, GuiTypes
<1>6. CASE StopFlag
  <2>1. running' \in 0 .. MaxStarts
    BY <1>6, Constants DEF StopFlag, RunningAfterStop
  <2> QED BY <1>0, <1>6, <2>1 DEF StopFlag, GuiTypes
<1>7. CASE Return
  <2>1. button' \in BOOLEAN
    BY <1>0, <1>7, TopFacts DEF Return, At, ButtonAfter, Activation
  <2> QED BY <1>0, <1>7, <2>1 DEF Return, GuiTypes
<1>8. CASE ClickStop \/ Dismiss \/ Greet \/ Await \/ StopPool \/ StopClose \/ UNCHANGED vars
           \/ \E ok \in Outcomes("pool") : PoolInit(ok)
  BY <1>1, <1>8 DEF ClickStop, Dismiss, Greet, Await, StopPool, StopClose, PoolInit, vars, guiVars
<1>9. ASSUME NEW i \in Servers, ListenerStep(i) \/ AcceptClient(i) \/ AcceptError(i)
      PROVE  GuiTypes'
  BY <1>1, <1>9 DEF ListenerStep, AcceptClient, AcceptError, ListenerBegin, ListenerMake,
       ListenerReady, ListenerCheck, ListenerClose, ListenerNotify, guiVars
<1> QED BY <1>2, <1>3, <1>4, <1>5, <1>6, <1>7, <1>8, <1>9 DEF Next, GuiStep, Terminated

LEMMA SockTypesStep == ASSUME IInv, [Next]_vars PROVE SockTypes'
<1> USE DEF IInv
<1>0. FrameTypes /\ SockTypes /\ GuiTypes
  BY Parts
<1>1. ASSUME UNCHANGED <<config, sockVars, pool>> PROVE SockTypes'
  BY <1>0, <1>1 DEF SockTypes, sockVars
<1>2. ASSUME NEW ok \in Outcomes("pool"), PoolInit(ok) PROVE SockTypes'
  <2>1. pool' \in [Servers -> {"none", "up", "down"}]
    BY <1>0, <1>2 DEF PoolInit, SockTypes
  <2> QED BY <1>0, <1>2, <2>1 DEF PoolInit, SockTypes, sockVars
<1>3. ASSUME NEW ok \in Outcomes("thread"), Launch(ok) PROVE SockTypes'
  <2>1. ~Idle /\ Top.at = "launch" /\ config' = Top.id /\ UNCHANGED <<sockVars, pool>>
    BY <1>3 DEF Launch, At
  <2>2. Top.id \in 1 .. starts /\ starts \in 0 .. MaxStarts
    BY <1>0, <2>1, TopFacts DEF Stacked, Top, Opening, GuiTypes
  <2>3. Top.id \in Servers
    BY <2>2, Constants
  <2> QED BY <1>0, <2>1, <2>3 DEF SockTypes, sockVars
<1>4. CASE StopPool
  <2>1. pool' \in [Servers -> {"none", "up", "down"}]
    BY <1>0, <1>4 DEF StopPool, SockTypes
  <2> QED BY <1>0, <1>4, <2>1 DEF StopPool, SockTypes, sockVars
<1>5. CASE StopClose
  BY <1>0, <1>5 DEF StopClose, SockTypes
<1>6. ASSUME NEW i \in Servers, ListenerMake(i) PROVE SockTypes'
  <2>1. ssocket' \in Servers \cup {None} /\ open' \subseteq Servers /\ UNCHANGED <<config, pool>>
    BY <1>0, <1>6 DEF ListenerMake, SockTypes
  <2> QED BY <1>0, <2>1 DEF SockTypes
<1>7. ASSUME NEW i \in Servers, NEW ok \in Outcomes("associate"), ListenerReady(i, ok)
      PROVE  SockTypes'
  <2>1. open' \subseteq Servers /\ UNCHANGED <<config, ssocket, pool>>
    BY <1>0, <1>7 DEF ListenerReady, SockTypes
  <2> QED BY <1>0, <2>1 DEF SockTypes
<1>8. ASSUME NEW i \in Servers, ListenerClose(i) PROVE SockTypes'
  BY <1>0, <1>8 DEF ListenerClose, ClosedOnExit, SockTypes
<1>9. CASE ClickStart \/ ClickStop \/ Quit \/ Dismiss \/ Dispatch \/ Greet \/ Await \/ StopFlag
           \/ Return \/ UNCHANGED vars
  BY <1>1, <1>9 DEF ClickStart, ClickStop, Quit, Dismiss, Dispatch, Greet, Await, StopFlag,
       Return, vars
<1>10. ASSUME NEW i \in Servers, \/ ListenerBegin(i) \/ ListenerCheck(i) \/ ListenerNotify(i)
                                 \/ AcceptClient(i) \/ AcceptError(i)
       PROVE  SockTypes'
  BY <1>1, <1>10 DEF ListenerBegin, ListenerCheck, ListenerNotify, AcceptClient, AcceptError
<1> QED BY <1>2, <1>3, <1>4, <1>5, <1>6, <1>7, <1>8, <1>9, <1>10
        DEF Next, GuiStep, ListenerStep, Terminated

LEMMA LstTypesStep == ASSUME IInv, [Next]_vars PROVE LstTypes'
<1> USE DEF IInv
<1>0. LstTypes /\ SockTypes
  BY Parts
<1>1. ASSUME UNCHANGED lstVars PROVE LstTypes'
  BY <1>0, <1>1 DEF LstTypes, lstVars
<1>2. ASSUME NEW i, NEW to \in States, Become(i, to) PROVE listener' \in [Servers -> States]
  BY <1>0, <1>2 DEF Become, LstTypes
<1>3. ASSUME NEW ok \in Outcomes("thread"), Launch(ok) PROVE LstTypes'
  <2>1. listener' \in [Servers -> States]
    BY <1>0, <1>3 DEF Launch, LstTypes, States
  <2> QED BY <1>0, <1>3, <2>1 DEF Launch, LstTypes
<1>4. ASSUME NEW i \in Servers, \/ ListenerBegin(i) \/ ListenerMake(i) \/ ListenerClose(i)
                                \/ ListenerNotify(i) \/ AcceptClient(i) \/ AcceptError(i)
      PROVE  LstTypes'
  <2>1. UNCHANGED <<accepting, lock>> /\ \E to \in States : Become(i, to)
    BY <1>4 DEF ListenerBegin, ListenerMake, ListenerClose, ListenerNotify, AcceptClient,
         AcceptError, States
  <2> QED BY <1>0, <1>2, <2>1 DEF LstTypes
<1>5. ASSUME NEW i \in Servers, NEW ok \in Outcomes("associate"), ListenerReady(i, ok)
      PROVE  LstTypes'
  <2>1. UNCHANGED accepting /\ \E to \in States : Become(i, to)
    BY <1>5 DEF ListenerReady, States
  <2>2. lock' \in [Servers -> BOOLEAN]
    BY <1>0, <1>5 DEF ListenerReady, LockAfter, LstTypes
  <2> QED BY <1>0, <1>2, <2>1, <2>2 DEF LstTypes
<1>6. ASSUME NEW i \in Servers, ListenerCheck(i) PROVE LstTypes'
  <2>1. UNCHANGED lock /\ \E to \in States : Become(i, to)
    BY <1>6 DEF ListenerCheck, States
  <2>2. accepting' \in [Servers -> Servers \cup {None}]
    BY <1>0, <1>6 DEF ListenerCheck, LstTypes, SockTypes
  <2> QED BY <1>0, <1>2, <2>1, <2>2 DEF LstTypes
<1>7. CASE ClickStart \/ ClickStop \/ Quit \/ Dismiss \/ Dispatch \/ Greet \/ Await \/ StopFlag
           \/ StopPool \/ StopClose \/ Return \/ UNCHANGED vars
           \/ \E ok \in Outcomes("pool") : PoolInit(ok)
  BY <1>1, <1>7 DEF ClickStart, ClickStop, Quit, Dismiss, Dispatch, Greet, Await, StopFlag,
       StopPool, StopClose, PoolInit, Return, vars
<1> QED BY <1>3, <1>4, <1>5, <1>6, <1>7 DEF Next, GuiStep, ListenerStep, Terminated

LEMMA InboxTypesStep == ASSUME IInv, [Next]_vars PROVE InboxTypes' /\ FixedTypes'
<1> USE DEF IInv
<1>0. InboxTypes /\ FixedTypes
  BY Parts
<1>1. ASSUME NEW i \in Servers, ListenerStep(i) \/ AcceptClient(i) \/ AcceptError(i)
      PROVE  UNCHANGED fixed /\ (UNCHANGED inbox \/ ListenerBegin(i) \/ ListenerNotify(i))
  BY <1>1 DEF ListenerStep, ListenerBegin, ListenerMake, ListenerReady, ListenerCheck,
     ListenerClose, ListenerNotify, AcceptClient, AcceptError
<1>2. ASSUME GuiStep PROVE UNCHANGED fixed /\ (UNCHANGED inbox \/ Dispatch)
  BY <1>2 DEF GuiStep, Dismiss, Dispatch, Greet, Await, StopFlag, StopPool, StopClose,
     PoolInit, Launch, Return
<1>3. ASSUME ClickStart \/ ClickStop \/ Quit \/ UNCHANGED vars PROVE UNCHANGED <<fixed, inbox>>
  BY <1>3 DEF ClickStart, ClickStop, Quit, vars
<1>4. UNCHANGED fixed
  BY <1>1, <1>2, <1>3 DEF Next, Terminated
<1>5. UNCHANGED inbox \/ Dispatch \/ \E i \in Servers : ListenerBegin(i) \/ ListenerNotify(i)
  BY <1>1, <1>2, <1>3 DEF Next, Terminated
<1>6. InboxTypes'
  BY <1>0, <1>5, DispatchKept, BeginKept, NotifyKept DEF InboxTypes
<1> QED BY <1>0, <1>4, <1>6 DEF FixedTypes, fixed
-----------------------------------------------------------------------------
(* The invariant, and what follows from it.                                *)
LEMMA Initially == ASSUME Init PROVE IInv
<1>1. Len(inbox) = 0 /\ Len(frames) = 0 /\ DOMAIN frames = {} /\ Up = {} /\ Active = {}
      /\ Range(inbox) = {}
  BY DEF Init, Up, Active, Range
<1>2. TypeOK
  <2>1. FixedTypes /\ FrameTypes /\ InboxTypes
    BY EmptySeq DEF Init, FixedTypes, FrameTypes, InboxTypes
  <2>2. 0 \in 0 .. MaxStarts
    BY Constants
  <2>3. GuiTypes
    BY <2>2 DEF Init, GuiTypes
  <2>4. SockTypes /\ LstTypes
    BY DEF Init, SockTypes, LstTypes, States
  <2> QED BY <2>1, <2>2, <2>3, <2>4, Parts
<1>3. Ledger
  <2> DEFINE p == [k \in 0 .. 0 |-> 0]
  <2>1. p \in [0 .. Len(inbox) -> 0 .. MaxStarts] /\ p[0] = 0
    BY <1>1, Constants
  <2>2. Cardinality(Up) = 0 /\ shown = 0
    BY <1>1, FS_EmptySet DEF Init
  <2> HIDE DEF p
  <2>3. Adds(p, inbox, shown, Cardinality(Up))
    BY <1>1, <2>1, <2>2 DEF Adds
  <2> QED BY <2>1, <2>3 DEF Ledger
<1>4. Stacked /\ Locked
  BY <1>1 DEF Init, Stacked, Locked
<1>5. Alone /\ Flagged /\ Owned
  BY <1>1 DEF Init, Alone, Flagged, Owned
<1> QED BY <1>2, <1>3, <1>4, <1>5 DEF IInv

LEMMA Inductive == ASSUME IInv, [Next]_vars PROVE IInv'
<1>1. TypeOK'
  BY FrameTypesStep, GuiTypesStep, SockTypesStep, LstTypesStep, InboxTypesStep, Parts
<1> QED BY <1>1, KeptStep, OwnedStep DEF IInv

LEMMA Invariant == Spec => []IInv
BY Initially, Inductive, PTL DEF Spec

(* The variables keep their types for every user, whatever the clicks: the *)
(* log never shows fewer than no servers running, and g_server_config and  *)
(* the global ssocket are always those of a server that was started.       *)
THEOREM TypeCorrect == Spec => []TypeOK
<1>1. IInv => TypeOK
  BY DEF IInv
<1> QED BY <1>1, Invariant, PTL

(* There is one listener thread at a time for the user who waits until the *)
(* log shows the last server stopped.                                      *)
THEOREM ListenerAlways == Spec => []OneListener
<1>1. ASSUME IInv, Patient PROVE Cardinality(Active) <= 1
  <2>1. \A i, j \in Active : i = j
    BY <1>1 DEF IInv, Alone
  <2>2. Cardinality(Active) = IF Active = {} THEN 0 ELSE 1
    BY <2>1, AtMostOne
  <2> QED BY <2>2
<1>2. IInv => OneListener
  BY <1>1 DEF OneListener
<1> QED BY <1>2, Invariant, PTL

(* While a server runs, and no click is being handled, the button offers   *)
(* to stop it: the notification of a listener that ends by itself never    *)
(* turns the button of the next server.                                    *)
THEOREM StopAlwaysOffered == Spec => []StopOffered
<1>1. IInv => StopOffered
  BY DEF IInv, Flagged, StopOffered
<1> QED BY <1>1, Invariant, PTL

(* When no listener runs, no listening socket is open.                     *)
THEOREM SocketsClosed == Spec => []NoSocketLeft
<1>1. ASSUME IInv, Patient, Active = {} PROVE open = {}
  <2>1. ASSUME NEW i \in open PROVE FALSE
    <3>1. i \in Servers /\ listener[i] \in {"ready", "check", "accept", "close"}
      BY <1>1, <2>1 DEF IInv, Owned, TypeOK
    <3> QED BY <1>1, <3>1 DEF Active
  <2> QED BY <2>1
<1>2. IInv => NoSocketLeft
  BY <1>1 DEF NoSocketLeft
<1> QED BY <1>2, Invariant, PTL

(* A listening socket is closed by stop_server or by its own listener,     *)
(* although all starts share the global ssocket.                           *)
THEOREM SocketsOwned == Spec => OwnSocketOnly
<1> DEFINE Kept == \A i \in open \ open' : Patient => At("close") \/ listener'[i] # listener[i]
<1>1. ASSUME IInv, [Next]_vars PROVE [Kept]_vars
  <2>1. SUFFICES ASSUME NEW i \in open, i \notin open', Patient
                 PROVE  At("close") \/ listener'[i] # listener[i]
    OBVIOUS
  <2>2. i = ssocket /\ i \in Servers /\ LstTypes /\ listener[i] \in States
    BY <1>1, <2>1, Parts DEF IInv, Owned, TypeOK, LstTypes
  <2>3. listener[i] \in {"ready", "check", "accept", "close"} /\ i \in Active
    BY <1>1, <2>1, <2>2 DEF IInv, Owned, Active
  <2>4. StopClose \/ \E j \in Servers : \/ ListenerClose(j)
                                        \/ \E ok \in Outcomes("associate") : ListenerReady(j, ok)
    BY <1>1, <2>1 DEF Next, GuiStep, ListenerStep, Terminated, vars, ClickStart, ClickStop, Quit,
       Dismiss, Dispatch, Greet, Await, StopFlag, StopPool, PoolInit, Launch, Return, sockVars,
       ListenerBegin, ListenerMake, ListenerCheck, ListenerNotify, AcceptClient, AcceptError
  <2>5. CASE StopClose
    BY <2>5 DEF StopClose
  <2>6. ASSUME NEW j \in Servers, \/ ListenerClose(j)
                                  \/ \E ok \in Outcomes("associate") : ListenerReady(j, ok)
        PROVE  listener'[i] # listener[i]
    <3>1. j \in Active /\ listener[j] \in {"close", "ready"}
      BY <2>6 DEF ListenerClose, ListenerReady, Active
    <3>2. i = j
      BY <1>1, <2>1, <2>3, <3>1 DEF IInv, Alone
    <3>3. \E to \in {"notify", "check"} : Become(j, to)
      BY <2>6 DEF ListenerClose, ListenerReady
    <3> QED BY <2>2, <3>1, <3>2, <3>3 DEF Become, LstTypes
  <2> QED BY <2>4, <2>5, <2>6
<1> QED BY <1>1, Invariant, PTL DEF Spec, OwnSocketOnly
=============================================================================
