---------------------------- MODULE ServerLifecycle ----------------------------
(***************************************************************************)
(* Starting and stopping the server over and over from the main window:    *)
(* on_start_click (main_window_handlers.c), start_server, stop_server and  *)
(* the listener threads (server_win32.c), and the messages the listeners   *)
(* send to the window.  The thread pool or completion port of one start is *)
(* reduced to whether it is up; ThreadPool and IocpServer look inside.     *)
(*                                                                         *)
(* Starts are numbered: start i creates the configuration, the pool, the   *)
(* listener thread and the listening socket i.  A folder to serve has been *)
(* chosen, and handles are not used again for another object.              *)
(***************************************************************************)
EXTENDS Integers, Sequences, FiniteSets

CONSTANTS MaxStarts,   \* bound on the clicks that start a server
          MaxNesting,  \* bound on the activations of on_start_click at once
          Users,       \* kinds of user: one that "waits" for the log to show the
                       \* last server stopped before starting one, "hurries",
                       \* or even "reenters": clicks while a message box is up
          Failing      \* what may fail: the "pool", the "thread" of the
                       \* listener, "associate" with the port, "accept"

ASSUME LifecycleAssumption ==
    /\ MaxStarts \in Nat /\ MaxNesting \in Nat \ {0}
    /\ Users \subseteq {"waits", "hurries", "reenters"}
    /\ Failing \subseteq {"pool", "thread", "associate", "accept"}

Servers == 1 .. MaxStarts
None == 0                                    \* NULL, INVALID_SOCKET

VARIABLES
    platform,   \* what detect_platform finds: "9x" or "NT"
    user,       \* who clicks
    frames,     \* activations of on_start_click on the GUI thread, innermost last
    button,     \* the button's user data: TRUE shows "Stop Listening"
    attached,   \* g_parent_log # NULL
    running,    \* g_is_server_run
    config,     \* g_server_config
    ssocket,    \* the global listening socket
    open,       \* sockets that are open
    pool,       \* pool of each start: "none", "up" or "down"
    lock,       \* cfg->lock of each start is signalled
    listener,   \* control state of each listener thread
    accepting,  \* the socket each Windows 9x listener passed to accept
    inbox,      \* STARTED and STOPPED messages sent to the window, oldest first
    shown,      \* servers the log shows as started and not as stopped
    starts,     \* clicks that started a server
    quit        \* the window was closed

guiVars  == <<frames, button, attached, shown, starts, quit>>
sockVars == <<ssocket, open>>
lstVars  == <<listener, accepting, lock>>
fixed == <<platform, user>>
vars == <<fixed, guiVars, running, config, sockVars, pool, lstVars, inbox>>

Activation == [starting : BOOLEAN, id : 0 .. MaxStarts, box : BOOLEAN,
               at : {"greet", "pool", "launch", "wait", "flag", "shut", "close", "end"}]

TypeOK ==
    /\ platform \in {"9x", "NT"} /\ user \in Users
    /\ frames \in Seq(Activation)
    /\ button \in BOOLEAN /\ attached \in BOOLEAN /\ quit \in BOOLEAN
    /\ running \in 0 .. MaxStarts /\ starts \in 0 .. MaxStarts
    /\ config \in Servers \cup {None} /\ ssocket \in Servers \cup {None}
    /\ open \subseteq Servers
    /\ pool \in [Servers -> {"none", "up", "down"}]
    /\ lock \in [Servers -> BOOLEAN]
    /\ listener \in [Servers -> {"off", "begin", "make", "ready", "check", "accept",
                                 "close", "notify", "exited"}]
    /\ accepting \in [Servers -> Servers \cup {None}]
    /\ inbox \in Seq({"started", "stopped"})
    /\ shown \in 0 .. MaxStarts

Init ==
    /\ platform \in {"9x", "NT"} /\ user \in Users
    /\ frames = <<>> /\ button = FALSE /\ attached = FALSE /\ quit = FALSE
    /\ running = 0 /\ config = None /\ ssocket = None /\ open = {}
    /\ pool = [i \in Servers |-> "none"] /\ lock = [i \in Servers |-> FALSE]
    /\ listener = [i \in Servers |-> "off"]
    /\ accepting = [i \in Servers |-> None]
    /\ inbox = <<>> /\ shown = 0 /\ starts = 0

Outcomes(what) == IF what \in Failing THEN BOOLEAN ELSE {TRUE}
-----------------------------------------------------------------------------
(* The GUI thread.  It handles messages when on_start_click has returned,  *)
(* and also in the modal loop of the message box that print_log shows      *)
(* before init_log was called: that box has no owner, so the main window   *)
(* stays enabled and the button can be clicked.  Messages sent by other    *)
(* threads are handled before clicks.                                      *)

Idle == frames = <<>>
Top  == frames[Len(frames)]
Boxed == ~Idle /\ Top.box
Pumping == Idle \/ Boxed
At(point) == ~Idle /\ ~Top.box /\ Top.at = point

Advance(to) == frames' = [frames EXCEPT ![Len(frames)].at = to]
LogThen(to) == frames' = [frames EXCEPT ![Len(frames)] = [@ EXCEPT !.at = to, !.box = ~attached]]
Enter(starting, id, point) ==
    frames' = Append(frames, [starting |-> starting, id |-> id, box |-> FALSE, at |-> point])

MayClick == /\ inbox = <<>> /\ Len(frames) < MaxNesting
            /\ Idle \/ (user = "reenters" /\ Boxed)

ClickStart ==
    /\ MayClick /\ ~button /\ starts < MaxStarts
    /\ user = "waits" => shown = 0
    /\ starts' = starts + 1
    /\ running' = running + 1
    /\ Enter(TRUE, starts + 1, "greet")
    /\ UNCHANGED <<fixed, button, attached, shown, quit, config, sockVars, pool, lstVars, inbox>>

ClickStop ==
    /\ MayClick /\ button
    /\ Enter(FALSE, None, "flag")
    /\ UNCHANGED <<fixed, button, attached, shown, starts, quit, running, config, sockVars,
                   pool, lstVars, inbox>>

Dismiss ==
    /\ Boxed
    /\ frames' = [frames EXCEPT ![Len(frames)].box = FALSE]
    /\ UNCHANGED <<fixed, button, attached, shown, starts, quit, running, config, sockVars,
                   pool, lstVars, inbox>>

(* W32HTTP_SERVER_STARTED and W32HTTP_SERVER_STOPPED *)
Dispatch ==
    /\ Pumping /\ inbox # <<>>
    /\ inbox' = Tail(inbox)
    /\ IF Head(inbox) = "stopped"
         THEN button' = FALSE /\ shown' = shown - 1
         ELSE shown' = shown + 1 /\ UNCHANGED button
    /\ UNCHANGED <<fixed, frames, attached, starts, quit, running, config, sockVars, pool, lstVars>>

Quit ==
    /\ Idle /\ quit' = TRUE
    /\ UNCHANGED <<fixed, frames, button, attached, shown, starts, running, config, sockVars,
                   pool, lstVars, inbox>>

(* start_server.  Its result is ignored: a failed start ends like one that *)
(* went well.                                                              *)
Greet ==
    /\ At("greet")
    /\ LogThen("pool")
    /\ UNCHANGED <<fixed, button, attached, shown, starts, quit, running, config, sockVars,
                   pool, lstVars, inbox>>

PoolInit(ok) ==
    /\ At("pool")
    /\ pool' = IF ok THEN [pool EXCEPT ![Top.id] = "up"] ELSE pool
    /\ LogThen(IF ok THEN "launch" ELSE "end")
    /\ UNCHANGED <<fixed, button, attached, shown, starts, quit, running, config, sockVars,
                   lstVars, inbox>>

Launch(ok) ==
    /\ At("launch")
    /\ attached' = TRUE
    /\ config' = Top.id
    /\ listener' = IF ok THEN [listener EXCEPT ![Top.id] = "begin"] ELSE listener
    /\ Advance("wait")
    /\ UNCHANGED <<fixed, button, shown, starts, quit, running, sockVars, pool, accepting, lock, inbox>>

ListeningAssumed(i) == TRUE
Listening(i) == lock[i]

Await ==
    /\ At("wait") /\ Listening(Top.id)
    /\ Advance("end")
    /\ UNCHANGED <<fixed, button, attached, shown, starts, quit, running, config, sockVars,
                   pool, lstVars, inbox>>

(* stop_server *)
RunningAfterStopAsBefore == running
RunningAfterStop == 0

StopFlag ==
    /\ At("flag")
    /\ running' = RunningAfterStop
    /\ Advance("shut")
    /\ UNCHANGED <<fixed, button, attached, shown, starts, quit, config, sockVars, pool, lstVars, inbox>>

StopPool ==
    /\ At("shut")
    /\ pool' = IF config = None THEN pool ELSE [pool EXCEPT ![config] = "down"]
    /\ Advance("close")
    /\ UNCHANGED <<fixed, button, attached, shown, starts, quit, running, config, sockVars,
                   lstVars, inbox>>

StopClose ==
    /\ At("close")
    /\ open' = open \ {ssocket}
    /\ ssocket' = None
    /\ LogThen("end")
    /\ UNCHANGED <<fixed, button, attached, shown, starts, quit, running, config, pool, lstVars, inbox>>

ButtonAfterUntouched(f) == ~f.starting
ButtonAfter(f) == f.starting

Return ==
    /\ At("end")
    /\ button' = ButtonAfter(Top)
    /\ frames' = SubSeq(frames, 1, Len(frames) - 1)
    /\ UNCHANGED <<fixed, attached, shown, starts, quit, running, config, sockVars, pool, lstVars, inbox>>
-----------------------------------------------------------------------------
(* listener_thread_proc, with run_server_win9x or run_server_nt *)

Become(i, to) == listener' = [listener EXCEPT ![i] = to]

AnnouncedNever == inbox
Announced == Append(inbox, "started")

ListenerBegin(i) ==
    /\ listener[i] = "begin"
    /\ inbox' = Announced
    /\ Become(i, "make")
    /\ UNCHANGED <<fixed, guiVars, running, config, sockVars, pool, accepting, lock>>

ListenerMake(i) ==
    /\ listener[i] = "make"
    /\ ssocket' = i
    /\ open' = open \cup {i}
    /\ Become(i, "ready")
    /\ UNCHANGED <<fixed, guiVars, running, config, pool, accepting, lock, inbox>>

(* The event is set also when the socket cannot be associated.             *)
LockAfterWhenReady(i, ok) == [lock EXCEPT ![i] = ok]
LockAfter(i, ok) == [lock EXCEPT ![i] = TRUE]

ListenerReady(i, ok) ==
    /\ listener[i] = "ready"
    /\ platform = "9x" => ok
    /\ lock' = LockAfter(i, ok)
    /\ IF ok THEN Become(i, "check") /\ UNCHANGED open
             ELSE Become(i, "notify") /\ open' = open \ {ssocket}
    /\ UNCHANGED <<fixed, guiVars, running, config, ssocket, pool, accepting, inbox>>

(* while (g_is_server_run): on Windows NT the listener sleeps and looks    *)
(* again, on Windows 9x it accepts.                                        *)
ListenerCheck(i) ==
    /\ listener[i] = "check"
    /\ \/ /\ running = 0
          /\ Become(i, "close")
          /\ UNCHANGED accepting
       \/ /\ running # 0 /\ platform = "9x"
          /\ Become(i, "accept")
          /\ accepting' = [accepting EXCEPT ![i] = ssocket]
    /\ UNCHANGED <<fixed, guiVars, running, config, sockVars, pool, lock, inbox>>

AcceptClient(i) ==
    /\ listener[i] = "accept" /\ accepting[i] \in open
    /\ Become(i, "check")
    /\ UNCHANGED <<fixed, guiVars, running, config, sockVars, pool, accepting, lock, inbox>>

AcceptError(i) ==
    /\ listener[i] = "accept" /\ (accepting[i] \notin open \/ "accept" \in Failing)
    /\ Become(i, "close")
    /\ UNCHANGED <<fixed, guiVars, running, config, sockVars, pool, accepting, lock, inbox>>

ClosedOnExitNever == open
ClosedOnExit == open \ {ssocket}

ListenerClose(i) ==
    /\ listener[i] = "close"
    /\ open' = ClosedOnExit
    /\ Become(i, "notify")
    /\ UNCHANGED <<fixed, guiVars, running, config, ssocket, pool, accepting, lock, inbox>>

ListenerNotify(i) ==
    /\ listener[i] = "notify"
    /\ inbox' = Append(inbox, "stopped")
    /\ Become(i, "exited")
    /\ UNCHANGED <<fixed, guiVars, running, config, sockVars, pool, accepting, lock>>
-----------------------------------------------------------------------------
GuiStep == \/ Dismiss \/ Dispatch \/ Greet \/ Await \/ StopFlag \/ StopPool \/ StopClose \/ Return
           \/ \E ok \in Outcomes("pool") : PoolInit(ok)
           \/ \E ok \in Outcomes("thread") : Launch(ok)

ListenerStep(i) ==
    \/ ListenerBegin(i) \/ ListenerMake(i) \/ ListenerCheck(i)
    \/ ListenerClose(i) \/ ListenerNotify(i)
    \/ \E ok \in Outcomes("associate") : ListenerReady(i, ok)
    \/ accepting[i] \notin open /\ AcceptError(i)

Terminated == quit /\ UNCHANGED vars

Next == \/ /\ ~quit
           /\ \/ ClickStart \/ ClickStop \/ Quit \/ GuiStep
              \/ \E i \in Servers : ListenerStep(i) \/ AcceptClient(i) \/ AcceptError(i)
        \/ Terminated

Spec == Init /\ [][Next]_vars

(* Threads run and a message box is dismissed in the end; nobody has to    *)
(* click or to connect.                                                    *)
Fairness == /\ WF_vars(~quit /\ GuiStep)
            /\ \A i \in Servers : WF_vars(~quit /\ ListenerStep(i))

FairSpec == Spec /\ Fairness
-----------------------------------------------------------------------------
Active == {i \in Servers : listener[i] \notin {"off", "exited"}}
Patient == user = "waits"

(* There is one listener thread at a time, as the documentation's thread   *)
(* count says, for a user who waits until the last server is gone.         *)
OneListener == Patient => Cardinality(Active) <= 1

(* The same for every user: what the documentation says, without a         *)
(* condition on the clicks.                                                *)
OneListenerAlways == Cardinality(Active) <= 1

(* A listening socket is closed by stop_server or by the listener that     *)
(* made it, never by a listener of another start, although they share the  *)
(* global ssocket.                                                         *)
OwnSocketOnly ==
    [][\A i \in open \ open' : Patient => At("close") \/ listener'[i] # listener[i]]_vars

(* While a server runs, the button offers to stop it.                      *)
StopOffered == Patient /\ Idle /\ ~button /\ running # 0 => Active = {}

(* No listening socket is left open behind the last listener.              *)
NoSocketLeft == Patient /\ Active = {} => open = {}

(* stop_server stops the server: the listeners notice the flag or the      *)
(* closed socket, whatever they are doing.                                 *)
ServerStops == (Patient /\ At("close")) ~> (quit \/ Active = {})

(* A click of any user does not hang the window: start_server's wait for   *)
(* the listener ends, whether or not the server could be started.          *)
GuiReturns == ~Idle ~> (Idle \/ quit)
=============================================================================
