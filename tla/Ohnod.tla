-------------------------------- MODULE Ohnod --------------------------------
(***************************************************************************)
(* The life of the daemon on one node: main() (src/ohnod/ohnod.cc) builds a *)
(* backend for the configured mode (src/backend/strategy_client.cc), starts *)
(* it and sleeps until a signal's handler has stopped it.  In host-gw and   *)
(* vxlan mode the backend is a worker thread (src/backend/backend.cc), in   *)
(* evpn mode it is a set of devices (src/backend/evpn.cc).  The handler     *)
(* runs on the main thread, wherever that is; kubelet starts the daemon     *)
(* again when it has ended, and the devices outlive it.                     *)
(***************************************************************************)
EXTENDS FiniteSets, Integers

CONSTANTS
    Modes,       \* the modes to be checked, of host_gw, vxlan and evpn
    Faults,      \* what may go wrong, a subset of FaultKinds
    MaxFaults,   \* how often: bound of the runs
    MaxSignals   \* how many signals are sent: bound of the runs

(***************************************************************************)
(* start: building the backend throws; token: the host's token file cannot  *)
(* be opened or written; command: an `ip` command of the evpn environment   *)
(* fails;                                                                   *)
(* worker: eventHandler() throws; kill: the daemon is killed; bridge: the   *)
(* plugin deletes the L2 bridge, with the node's last pod.                  *)
(***************************************************************************)
FaultKinds == {"start", "token", "command", "worker", "kill", "bridge"}

ASSUME OhnodAssumption ==
    /\ Modes \subseteq {"host_gw", "vxlan", "evpn"}
    /\ Faults \subseteq FaultKinds
    /\ MaxFaults \in Nat /\ MaxSignals \in Nat

VARIABLES
    mode,      \* ipam.mode of the CNI configuration
    help,      \* whether the command line asks for the usage
    main,      \* where the main thread is, or how it ended
    step,      \* the device or setting of the evpn backend that is next
    running,   \* running_
    joinable,  \* whether monitor_ has a thread
    worker,    \* where that thread is
    handler,   \* where the signal handler is
    woken,     \* whether pause() has been interrupted
    links,     \* the evpn devices there are
    done,      \* the settings in force, of those envSetup() makes
    token,     \* the token file on the host
    signals,   \* signals so far
    faults,    \* faults so far
    early,     \* whether a signal came to this daemon before its pause()
    met        \* what went wrong since it was started

settled == <<mode, help>>
thread  == <<running, joinable, worker>>
signal  == <<handler, woken, signals>>
env     == <<links, done, token>>
ghosts  == <<early, met>>
vars    == <<settled, main, step, thread, signal, env, faults, ghosts>>

\* The devices in the order in which getEvpn() makes them.
Devices == <<"vrf", "br_l3", "br_l2", "vxlan">>
Device  == {Devices[i] : i \in 1 .. 4}

\* What envCleanup() deletes.
Cleaned == {"vrf", "br_l3", "vxlan"}

\* The devices that a command needs: to set a device up, to put one into
\* another, to set the attributes of a bridge's port.
SetStatus(d)         == {d}
SetMaster(master, d) == {master, d}
SetSlave(bridge, d)  == {bridge, d}

\* The commands of envSetup().
Needs == << SetStatus("vrf"), SetStatus("br_l3"), SetStatus("br_l2"),
            SetMaster("vrf", "br_l3"), SetMaster("vrf", "br_l2"),
            SetStatus("vxlan"), SetMaster("br_l3", "vxlan"), SetSlave("br_l3", "vxlan") >>
Setting == DOMAIN Needs

\* `ip link add` and `ip link del`: a device that is there cannot be made, one
\* that is gone takes the settings it is part of with it.
LinkCreate(d) == d \notin links /\ links' = links \cup {d}

LinkDestory(d) ==
    /\ links' = links \ {d}
    /\ done' = {i \in done : d \notin Needs[i]}

Ended == {"exited", "failed", "aborted", "killed"}

\* While main() is here, g_client has a backend that stop() reaches.
Started == {"start", "assign", "setting", "awake", "paused"}

Init ==
    /\ mode \in Modes /\ help \in BOOLEAN
    /\ main = "options" /\ step = 1
    /\ running = FALSE /\ joinable = FALSE /\ worker = "none"
    /\ handler = "none" /\ woken = FALSE
    /\ early = FALSE /\ met = {}
    /\ \/ links = {} /\ done = {}
       \/ links = {"br_l2"} /\ done = {3}    \* made by the plugin
    /\ token = "empty"
    /\ signals = 0 /\ faults = 0

Fault(kind) ==
    /\ kind \in Faults
    /\ faults < MaxFaults
    /\ faults' = faults + 1
    /\ met' = met \cup {kind}

NoFault == UNCHANGED <<faults, met>>

\* A step of main(), which either goes on or throws.
Goto(from, to) ==
    /\ main = from
    /\ handler = "none"
    /\ \/ main' = to /\ NoFault
       \/ main' = "failed" /\ Fault("start")

\* The same, where nothing can be thrown.
Then(from, to) == main = from /\ handler = "none" /\ main' = to

-----------------------------------------------------------------------------
(* main() up to the start of the backend.                                   *)

ParseArguments ==
    /\ Then("options", IF help THEN "exited" ELSE "apiserver")
    /\ UNCHANGED <<settled, step, thread, signal, env, faults, ghosts>>

\* In a pod the address has a default: there always is one.
GetApiServer ==
    /\ Then("apiserver", "hostname")
    /\ UNCHANGED <<settled, step, thread, signal, env, faults, ghosts>>

GetHostname ==
    /\ Goto("hostname", "config")
    /\ UNCHANGED <<settled, step, thread, signal, env, early>>

ReadConfig ==
    /\ Goto("config", IF mode = "evpn" THEN "device" ELSE "etcd")
    /\ UNCHANGED <<settled, step, thread, signal, env, early>>

\* Without endpoints it is the client that fails, when it is tested.
GetEtcdClusters ==
    /\ Then("etcd", "client")
    /\ UNCHANGED <<settled, step, thread, signal, env, faults, ghosts>>

\* host-gw: an Ipam whose etcd answers.
GetHostgw ==
    /\ mode = "host_gw"
    /\ Goto("client", "ca")
    /\ UNCHANGED <<settled, step, thread, signal, env, early>>

\* vxlan: a Storage whose etcd answers.
GetVxlan ==
    /\ mode = "vxlan"
    /\ Goto("client", "ca")
    /\ UNCHANGED <<settled, step, thread, signal, env, early>>

\* Slip: a device that is there already is an error.
SetupStrict(d, next) ==
    /\ Goto("device", IF d \in links THEN "failed" ELSE next)
    /\ Devices[step] = d
    /\ IF main' = "failed" THEN UNCHANGED links ELSE LinkCreate(d)
    /\ step' = IF next = "ca" THEN 1 ELSE step + 1
    /\ UNCHANGED <<settled, thread, signal, done, token, early>>

\* setup() of a device: one that is there is taken as it is.
Setup(d, next) ==
    /\ Goto("device", next)
    /\ Devices[step] = d
    /\ IF d \in links \/ main' = "failed" THEN UNCHANGED links ELSE LinkCreate(d)
    /\ step' = IF next = "ca" THEN 1 ELSE step + 1
    /\ UNCHANGED <<settled, thread, signal, done, token, early>>

SetupVrf    == Setup("vrf", "device")
SetupBridge == Setup("br_l3", "device") \/ Setup("br_l2", "nodeinfo")
SetupVxlan  == Setup("vxlan", "ca")

GetNodeInfo ==
    /\ Goto("nodeinfo", "device")
    /\ UNCHANGED <<settled, step, thread, signal, env, early>>

\* Without a CA it is the test of the API server that fails.
GetCa ==
    /\ Then("ca", "token")
    /\ UNCHANGED <<settled, step, thread, signal, env, faults, ghosts>>

\* getToken() reads the pod's token and opens the host's file, which empties it ...
OpenToken ==
    /\ \/ Then("token", "write") /\ token' = "empty" /\ NoFault
       \/ Then("token", "test") /\ Fault("token") /\ UNCHANGED token
       \/ Then("token", "failed") /\ Fault("start") /\ UNCHANGED token
    /\ UNCHANGED <<settled, step, thread, signal, links, done, early>>

\* ... and writes it; nobody asks whether the write succeeded.
WriteToken ==
    /\ Then("write", "test")
    /\ \/ token' = "good" /\ NoFault
       \/ UNCHANGED token /\ Fault("token")
    /\ UNCHANGED <<settled, step, thread, signal, links, done, early>>

\* Center::test().
TestCenter ==
    /\ Goto("test", "strategy")
    /\ UNCHANGED <<settled, step, thread, signal, env, early>>

\* The backend is complete, and the scheduler gets it: from now on a signal
\* reaches it.
SetStrategy ==
    /\ Then("strategy", IF mode = "evpn" THEN "setting" ELSE "start")
    /\ UNCHANGED <<settled, step, thread, signal, env, faults, ghosts>>

-----------------------------------------------------------------------------
(* The backend starts, and main() sleeps.                                   *)

\* Backend::startImpl(): the thread runs before monitor_ is assigned.
StartThread ==
    /\ Then("start", "assign")
    /\ running' = TRUE
    /\ worker' = "check"
    /\ UNCHANGED <<settled, step, joinable, signal, env, faults, ghosts>>

AssignMonitor ==
    /\ Then("assign", "awake")
    /\ joinable' = TRUE
    /\ UNCHANGED <<settled, step, running, worker, signal, env, faults, ghosts>>

\* What one command of the environment does.
Commanded(ok) ==
    IF ok THEN NoFault ELSE Fault("command")

\* envSetup(): a setting that fails is only logged.  The port's attributes can
\* be set once vxlan is in the bridge.
EnvSetting ==
    /\ Then("setting", IF step = 8 THEN "awake" ELSE "setting")
    /\ \E ok \in BOOLEAN :
          /\ Commanded(ok)
          /\ done' = IF ok /\ Needs[step] \subseteq links /\ (step = 8 => 7 \in done)
                     THEN done \cup {step} ELSE done
    /\ step' = IF step = 8 THEN 1 ELSE step + 1
    /\ UNCHANGED <<settled, thread, signal, links, token, early>>

Pause ==
    /\ Then("awake", "paused")
    /\ UNCHANGED <<settled, step, thread, signal, env, faults, ghosts>>

Exit ==
    /\ woken
    /\ Then("paused", "exited")
    /\ UNCHANGED <<settled, step, thread, signal, env, faults, ghosts>>

Main ==
    \/ ParseArguments \/ GetApiServer \/ GetHostname \/ ReadConfig
    \/ GetEtcdClusters \/ GetHostgw \/ GetVxlan
    \/ SetupVrf \/ SetupBridge \/ SetupVxlan \/ GetNodeInfo
    \/ GetCa \/ OpenToken \/ WriteToken \/ TestCenter \/ SetStrategy
    \/ StartThread \/ AssignMonitor \/ EnvSetting \/ Pause \/ Exit

-----------------------------------------------------------------------------
(* The worker: a loop that looks at running_ between the polls.             *)

\* Slip: the worker never looks at running_.
CheckRunningNot ==
    /\ worker = "check"
    /\ worker' = "poll"
    /\ UNCHANGED <<settled, main, step, running, joinable, signal, env, faults, ghosts>>

CheckRunning ==
    /\ worker = "check"
    /\ worker' = IF running THEN "poll" ELSE "ended"
    /\ UNCHANGED <<settled, main, step, running, joinable, signal, env, faults, ghosts>>

\* Slip: the thread polls once.
PollOnce ==
    /\ worker = "poll"
    /\ worker' = "ended"
    /\ UNCHANGED <<settled, main, step, running, joinable, signal, env, faults, ghosts>>

\* eventHandler() and the interval; an exception ends the loop.
PollAndSleep ==
    /\ worker = "poll"
    /\ \/ worker' = "check" /\ NoFault
       \/ worker' = "ended" /\ Fault("worker")
    /\ UNCHANGED <<settled, main, step, running, joinable, signal, env, early>>

Worker == CheckRunning \/ PollAndSleep

-----------------------------------------------------------------------------
(* Signals.  The handler interrupts the main thread.                        *)

\* handleSignals(): without a backend the signal does nothing.
Signal ==
    /\ main \notin Ended /\ handler = "none"
    /\ signals < MaxSignals
    /\ signals' = signals + 1
    /\ early' = (early \/ main # "paused")
    /\ handler' = IF main \in Started THEN "stop" ELSE "none"
    /\ UNCHANGED <<settled, main, step, thread, woken, env, faults, met>>

\* The handler returns; pause() does so only when it was interrupted.
Return == handler' = "none" /\ woken' = (woken \/ main = "paused")

\* Slip: the thread is not waited for.
StopThreadOnly ==
    /\ handler = "stop" /\ mode # "evpn"
    /\ running' = FALSE
    /\ Return
    /\ UNCHANGED <<settled, main, step, joinable, worker, signals, env, faults, ghosts>>

\* Slip: a thread is waited for though there may be none.
StopThreadAlways ==
    /\ handler = "stop" /\ mode # "evpn"
    /\ running' = FALSE
    /\ handler' = "join"
    /\ UNCHANGED <<settled, main, step, joinable, worker, woken, signals, env, faults, ghosts>>

\* Backend::stop().
StopThread ==
    /\ handler = "stop" /\ mode # "evpn"
    /\ running' = FALSE
    /\ IF joinable THEN handler' = "join" /\ UNCHANGED woken ELSE Return
    /\ UNCHANGED <<settled, main, step, joinable, worker, signals, env, faults, ghosts>>

Join ==
    /\ handler = "join"
    /\ worker = "ended"
    /\ joinable' = FALSE
    /\ Return
    /\ UNCHANGED <<settled, main, step, running, worker, signals, env, faults, ghosts>>

\* A signal while the handler waits goes to the worker, which cannot join
\* itself, or to the main thread, which joins twice: an exception out of a
\* handler, which ends the worker or the process.
SecondSignal ==
    /\ handler = "join" /\ worker # "ended"
    /\ signals < MaxSignals
    /\ signals' = signals + 1
    /\ \/ worker' = "ended" /\ UNCHANGED <<main, handler>>
       \/ worker' = "none" /\ main' = "aborted" /\ handler' = "none"
    /\ UNCHANGED <<settled, step, running, joinable, woken, env, faults, ghosts>>

\* Slip: the vxlan device is left.
CleanupBridges(d) ==
    /\ handler = d /\ d \in Cleaned
    /\ \E ok \in BOOLEAN :
          /\ Commanded(ok)
          /\ IF ok /\ d # "vxlan" THEN LinkDestory(d) ELSE UNCHANGED <<links, done>>
    /\ CASE d = "vrf"   -> handler' = "br_l3" /\ UNCHANGED woken
         [] d = "br_l3" -> handler' = "vxlan" /\ UNCHANGED woken
         [] d = "vxlan" -> Return
    /\ UNCHANGED <<settled, main, step, thread, signals, token, early>>

\* Evpn::stop().
StopEvpn ==
    /\ handler = "stop" /\ mode = "evpn"
    /\ handler' = "vrf"
    /\ UNCHANGED <<settled, main, step, thread, woken, signals, env, faults, ghosts>>

\* envCleanup(): one device after the other.
Cleanup(d) ==
    /\ handler = d /\ d \in Cleaned
    /\ \E ok \in BOOLEAN :
          /\ Commanded(ok)
          /\ IF ok THEN LinkDestory(d) ELSE UNCHANGED <<links, done>>
    /\ CASE d = "vrf"   -> handler' = "br_l3" /\ UNCHANGED woken
         [] d = "br_l3" -> handler' = "vxlan" /\ UNCHANGED woken
         [] d = "vxlan" -> Return
    /\ UNCHANGED <<settled, main, step, thread, signals, token, early>>

Handler == StopThread \/ Join \/ StopEvpn \/ \E d \in Cleaned : Cleanup(d)

-----------------------------------------------------------------------------
(* The rest of the node.                                                    *)

Kill ==
    /\ main \notin Ended
    /\ Fault("kill")
    /\ main' = "killed" /\ worker' = "none" /\ handler' = "none"
    /\ UNCHANGED <<settled, step, running, joinable, woken, signals, env, early>>

\* kubelet starts the container of the DaemonSet again.
Restart ==
    /\ main \in Ended
    /\ main' = "options" /\ step' = 1
    /\ running' = FALSE /\ joinable' = FALSE /\ worker' = "none"
    /\ handler' = "none" /\ woken' = FALSE
    /\ early' = FALSE /\ met' = {}
    /\ UNCHANGED <<settled, signals, env, faults>>

\* The plugin deletes the bridge with the node's last pod ...
DeleteBridge ==
    /\ mode = "evpn" /\ "br_l2" \in links
    /\ Fault("bridge")
    /\ LinkDestory("br_l2")
    /\ UNCHANGED <<settled, main, step, thread, signal, token, early>>

\* ... and makes it again with the next, up and in no vrf.
CreateBridge ==
    /\ mode = "evpn"
    /\ LinkCreate("br_l2")
    /\ done' = done \cup {3}
    /\ UNCHANGED <<settled, main, step, thread, signal, token, faults, ghosts>>

Next ==
    Main \/ Worker \/ Handler \/ Signal \/ SecondSignal
    \/ Kill \/ Restart \/ DeleteBridge \/ CreateBridge

Spec == Init /\ [][Next]_vars

\* The threads are scheduled, and kubelet does its part.
Fairness ==
    WF_vars(Main) /\ WF_vars(Worker) /\ WF_vars(Handler) /\ WF_vars(Restart)

FairSpec == Spec /\ Fairness

-----------------------------------------------------------------------------
(* Properties.                                                              *)

\* The types, and that the handler waits only for a thread there is
\* (backend.cc:21-26).
TypeOK ==
    /\ mode \in Modes /\ help \in BOOLEAN
    /\ main \in Started \cup Ended
                \cup {"options", "apiserver", "hostname", "config", "etcd", "client",
                      "device", "nodeinfo", "ca", "token", "write", "test", "strategy"}
    /\ step \in Setting
    /\ running \in BOOLEAN /\ joinable \in BOOLEAN /\ woken \in BOOLEAN
    /\ worker \in {"none", "check", "poll", "ended"}
    /\ handler \in {"none", "stop", "join"} \cup Cleaned
    /\ links \subseteq Device
    /\ done \subseteq Setting
    /\ token \in {"empty", "good"}
    /\ signals \in 0 .. MaxSignals /\ faults \in 0 .. MaxFaults
    /\ early \in BOOLEAN /\ met \subseteq Faults
    /\ handler = "join" => joinable /\ worker # "none"

\* main() is in pause(), and nothing wakes it.
Asleep == main = "paused" /\ handler = "none" /\ ~ woken

\* A daemon that sleeps in pause() does its work: its worker polls, or its
\* devices are all there and set, but for the bridge the plugin remade.  Only
\* a signal before pause(), which stops the work and leaves the daemon, or a
\* failure that is merely logged, can make it sleep idle (ohnod.cc:157-163,
\* backend.cc:57-82, evpn.cc:61-100).
PausedWorks ==
    (Asleep /\ ~ early /\ met \cap {"command", "worker"} = {}) =>
        IF mode = "evpn"
        THEN /\ Device \ (IF "bridge" \in met THEN {"br_l2"} ELSE {}) \subseteq links
             /\ Setting \ (IF "bridge" \in met THEN {3, 5} ELSE {}) \subseteq done
        ELSE running /\ joinable /\ worker \in {"check", "poll"}

\* main() never returns over a thread: a joinable monitor_ would abort the
\* process, and the worker uses what main() frees (backend.cc:21-26).
NoThreadLeft == main = "exited" => ~ joinable /\ worker \in {"none", "ended"}

\* A daemon in evpn mode that returns from pause() has deleted its devices,
\* unless a command failed, even if a signal had come in the middle of
\* envSetup() (evpn.cc:106-121).
ReleasedOnExit ==
    main = "exited" /\ ~ help /\ mode = "evpn" /\ "command" \notin met => Cleaned \cap links = {}

\* A signal that interrupts pause() ends the daemon, however many follow
\* (ohnod.cc:163).
SignalStops == (main = "paused" /\ handler # "none") ~> main \in Ended

\* The DaemonSet "is responsible for the communication between the nodes"
\* (README): whenever a daemon sleeps its worker polls, or its devices are
\* there, also if a signal came while main() was still starting the thread or
\* setting the devices up, or a poll ended with an exception.
SleeperWorks ==
    Asleep => IF mode = "evpn" THEN Cleaned \subseteq links
                               ELSE worker \in {"check", "poll"}

\* Whatever failed, was killed or left behind, the daemon comes up again
\* (vrf.cc:19-33, bridge.cc:15-30, strategy_client.cc:162-194).
ComesUp == ~ help => []<>(main = "paused")
=============================================================================
