----------------------------- MODULE OhnodProofs -----------------------------
(***************************************************************************)
(* Theorems about the daemon's life, for every set of modes, every          *)
(* combination of faults and any number of signals: no thread outlives      *)
(* main(), a daemon that sleeps undisturbed works, and one that ends has     *)
(* deleted its devices.                                                     *)
(***************************************************************************)
EXTENDS Ohnod, TLAPS

-----------------------------------------------------------------------------
(* The inductive invariant.                                                 *)

\* Where main() is until the scheduler has the backend.
Before == {"options", "apiserver", "hostname", "config", "etcd", "client", "device",
           "nodeinfo", "ca", "token", "write", "test", "strategy"}

\* The devices are made; the token is opened or about to be.
Made == {"ca", "token", "write", "test", "strategy"}

Threaded == {"assign", "awake", "paused"}

\* No signal has been handled in a way that stops the work.
Undisturbed == ~ early /\ (main = "paused" => handler = "none" /\ ~ woken)

\* The mode decides which way main() goes.
Branch ==
    /\ main \in {"device", "nodeinfo", "setting"} => mode = "evpn"
    /\ main \in {"etcd", "client", "start", "assign"} => mode # "evpn"

\* Who has a thread, and whether it still has something to do.
Threads ==
    /\ main \in Before \cup {"start"} \/ mode = "evpn" => ~ running /\ ~ joinable /\ worker = "none"
    /\ main \in Threaded /\ mode # "evpn" => worker # "none"
    /\ main = "assign" => ~ joinable
    /\ main \in {"awake", "paused"} /\ mode # "evpn" => joinable \/ (worker = "ended" /\ ~ running)
    /\ handler = "join" => ~ running /\ mode # "evpn"
    /\ main \in Threaded /\ running /\ "worker" \notin met => worker \in {"check", "poll"}
    /\ main \in Threaded /\ mode # "evpn" /\ Undisturbed => running

\* When the handler runs, and what it has interrupted.
Signals ==
    /\ handler # "none" => main \in Started
    /\ handler # "none" /\ ~ early => main = "paused"
    /\ handler \in Cleaned => mode = "evpn"
    /\ woken => main = "paused" \/ main \in Ended
    /\ woken /\ mode # "evpn" => ~ joinable

\* The device or setting that is next.
Steps ==
    /\ main \notin {"device", "nodeinfo", "setting"} \cup Ended => step = 1
    /\ main = "device" => step \in 1 .. 4
    /\ main = "nodeinfo" => step = 4

\* What the plugin may have taken: the L2 bridge, with its settings.
LostDevices  == IF "bridge" \in met THEN {"br_l2"} ELSE {}
LostSettings == IF "bridge" \in met THEN {3, 5} ELSE {}

\* How far devices and settings have come.
Progress ==
    mode = "evpn" /\ Undisturbed =>
        /\ main \in {"device", "nodeinfo"} =>
               {Devices[i] : i \in 1 .. (step - 1)} \ LostDevices \subseteq links
        /\ main \in Made \cup {"setting", "awake", "paused"} => Device \ LostDevices \subseteq links
        /\ main = "setting" /\ "command" \notin met =>
              (1 .. (step - 1)) \ LostSettings \subseteq done
        /\ main \in {"awake", "paused"} /\ "command" \notin met =>
              Setting \ LostSettings \subseteq done

\* How far the clean-up has come.
Cleaning ==
    mode = "evpn" /\ "command" \notin met =>
        /\ handler \in {"br_l3", "vxlan"} => "vrf" \notin links
        /\ handler = "vxlan" => "br_l3" \notin links
        /\ woken => Cleaned \cap links = {}

IInv ==
    /\ TypeOK
    /\ Branch
    /\ Threads
    /\ Signals
    /\ Steps
    /\ Progress
    /\ Cleaning
    /\ NoThreadLeft
    /\ ReleasedOnExit

-----------------------------------------------------------------------------
(* The actions that may fail.                                               *)

\* A fault counts towards the bound, and is remembered.
LEMMA FaultType ==
    ASSUME NEW kind, Fault(kind), faults \in 0 .. MaxFaults, met \subseteq Faults
    PROVE  faults' \in 0 .. MaxFaults /\ met' = met \cup {kind} /\ met' \subseteq Faults
BY OhnodAssumption DEF Fault

\* A step of main() that throws ends the daemon; one that does not forgets and
\* adds nothing.
LEMMA GotoType ==
    ASSUME NEW from, NEW to, Goto(from, to), faults \in 0 .. MaxFaults, met \subseteq Faults
    PROVE  /\ faults' \in 0 .. MaxFaults /\ met' \subseteq Faults
           /\ main = from /\ handler = "none"
           /\ \/ main' = to /\ met' = met
              \/ main' = "failed" /\ met' = met \cup {"start"}
BY FaultType DEF Goto, NoFault

-----------------------------------------------------------------------------
(* The invariant is kept: main() prepares.                                  *)

USE DEF settled, thread, signal, env, ghosts

\* What main() does before it has a backend, but for devices and token.
Prepare ==
    \/ ParseArguments \/ GetApiServer \/ GetHostname \/ ReadConfig
    \/ GetEtcdClusters \/ GetHostgw \/ GetVxlan \/ GetNodeInfo
    \/ GetCa \/ TestCenter \/ SetStrategy

\* Only `main' moves: there is neither a thread nor a handler.
LEMMA PrepareStep == IInv /\ Prepare => IInv'
<1> SUFFICES ASSUME IInv, Prepare PROVE IInv'
  OBVIOUS
<1> USE DEF IInv, Prepare, ParseArguments, GetApiServer, GetHostname, ReadConfig, GetEtcdClusters,
            GetHostgw, GetVxlan, GetNodeInfo, GetCa, TestCenter, SetStrategy, Then
<1>1. UNCHANGED <<settled, step, thread, signal, env, early>>
  OBVIOUS
<1>2. /\ main \in Before /\ main \notin {"device", "token", "write"} /\ handler = "none"
      /\ main' \in Before \cup {"start", "setting", "exited", "failed"}
  BY DEF Goto, Before
<1>3. faults' \in 0 .. MaxFaults /\ met' \subseteq Faults /\ met' \in {met, met \cup {"start"}}
  BY GotoType DEF TypeOK
<1> USE DEF Goto
<1>4. TypeOK'
  BY <1>3 DEF TypeOK, Started, Ended
<1>5. Branch'
  BY DEF Branch
<1>6. Threads' /\ Signals' /\ NoThreadLeft'
  BY <1>2 DEF Threads, Signals, NoThreadLeft, Threaded, Ended
<1>7. Steps'
  BY DEF Steps, Ended
<1>8. Progress'
  BY <1>3 DEF Progress, Undisturbed, Steps, LostDevices, Made, Ended
<1>9. Cleaning'
  BY <1>3 DEF Cleaning
<1>10. ReleasedOnExit'
  BY DEF ReleasedOnExit
<1> QED BY <1>4, <1>5, <1>6, <1>7, <1>8, <1>9, <1>10

\* One device: either it is there afterwards, or main() has failed.
LEMMA SetupMakes ==
    ASSUME IInv, NEW d \in Device, NEW next \in {"device", "nodeinfo", "ca"}, Setup(d, next)
    PROVE  /\ main = "device" /\ handler = "none" /\ d = Devices[step]
           /\ links' \subseteq Device /\ links \subseteq links'
           /\ \/ main' = next /\ met' = met /\ d \in links'
              \/ main' = "failed" /\ met' = met \cup {"start"}
           /\ faults' \in 0 .. MaxFaults /\ met' \subseteq Faults
           /\ step' = IF next = "ca" THEN 1 ELSE step + 1
           /\ UNCHANGED <<settled, thread, signal, done, token, early>>
<1>1. links \subseteq Device /\ faults \in 0 .. MaxFaults /\ met \subseteq Faults
  BY DEF IInv, TypeOK
<1>2. Goto("device", next)
  BY DEF Setup
<1> QED BY <1>1, GotoType DEF Setup, LinkCreate

\* The devices are made in their order, each once.
LEMMA SetupStep == IInv /\ (SetupVrf \/ SetupBridge \/ SetupVxlan) => IInv'
<1> SUFFICES ASSUME IInv,
                    NEW d \in Device, NEW next \in {"device", "nodeinfo", "ca"}, Setup(d, next),
                    \/ d = "vrf" /\ next = "device"
                    \/ d = "br_l3" /\ next = "device"
                    \/ d = "br_l2" /\ next = "nodeinfo"
                    \/ d = "vxlan" /\ next = "ca"
             PROVE  IInv'
  BY DEF SetupVrf, SetupBridge, SetupVxlan, Device, Devices
<1>1. /\ main = "device" /\ handler = "none" /\ d = Devices[step]
      /\ links' \subseteq Device /\ links \subseteq links'
      /\ \/ main' = next /\ met' = met /\ d \in links'
         \/ main' = "failed" /\ met' = met \cup {"start"}
      /\ faults' \in 0 .. MaxFaults /\ met' \subseteq Faults
      /\ step' = IF next = "ca" THEN 1 ELSE step + 1
      /\ UNCHANGED <<settled, thread, signal, done, token, early>>
  BY SetupMakes
<1>2. mode = "evpn" /\ step \in 1 .. 4 /\ ~ running /\ ~ joinable /\ worker = "none" /\ ~ woken
  BY <1>1 DEF IInv, Branch, Steps, Threads, Signals, Ended
<1>3. \/ step = 1 /\ d = "vrf"
      \/ step = 2 /\ d = "br_l3"
      \/ step = 3 /\ d = "br_l2"
      \/ step = 4 /\ d = "vxlan"
  BY <1>1, <1>2 DEF Devices
<1> USE DEF IInv
<1>4. TypeOK'
  BY <1>1, <1>2 DEF TypeOK, Ended, Setting, Needs
<1>5. Branch' /\ Threads' /\ Signals' /\ NoThreadLeft' /\ ReleasedOnExit'
  BY <1>1, <1>2 DEF Branch, Threads, Signals, NoThreadLeft, ReleasedOnExit
<1>6. Steps'
  BY <1>1, <1>3 DEF Steps, Ended
<1>7. Progress'
  BY <1>1, <1>3 DEF Progress, Undisturbed, LostDevices, Made, Device
<1>8. Cleaning'
  BY <1>1, <1>2 DEF Cleaning, Started
<1> QED BY <1>4, <1>5, <1>6, <1>7, <1>8

\* The token is emptied and written again, and nothing else is touched.
LEMMA TokenStep == IInv /\ (OpenToken \/ WriteToken) => IInv'
<1> SUFFICES ASSUME IInv, OpenToken \/ WriteToken PROVE IInv'
  OBVIOUS
<1> USE DEF IInv
<1>1. /\ main \in {"token", "write"} /\ handler = "none"
      /\ main' \in {"write", "test", "failed"}
      /\ faults' \in 0 .. MaxFaults /\ met \subseteq met' /\ met' \subseteq Faults
      /\ token' \in {"empty", "good", token}
      /\ UNCHANGED <<settled, step, thread, signal, links, done, early>>
  BY FaultType DEF OpenToken, WriteToken, Then, NoFault, TypeOK
<1>2. TypeOK'
  BY <1>1 DEF TypeOK, Ended
<1>3. Branch' /\ Threads' /\ Signals' /\ Steps' /\ NoThreadLeft' /\ ReleasedOnExit'
  BY <1>1 DEF Branch, Threads, Signals, Steps, NoThreadLeft, ReleasedOnExit, Ended, Before,
              Threaded
<1>4. Progress' /\ Cleaning'
  BY <1>1 DEF Progress, Cleaning, Undisturbed, LostDevices, Made
<1> QED BY <1>2, <1>3, <1>4

-----------------------------------------------------------------------------
(* The invariant is kept: the backend starts, and main() sleeps.            *)

\* The thread is there before it can be waited for.
LEMMA StartStep == IInv /\ (StartThread \/ AssignMonitor) => IInv'
<1> SUFFICES ASSUME IInv, StartThread \/ AssignMonitor PROVE IInv'
  OBVIOUS
<1> USE DEF IInv, StartThread, AssignMonitor, Then
<1>1. /\ main \in {"start", "assign"} /\ handler = "none" /\ main' \in {"assign", "awake"}
      /\ mode # "evpn" /\ worker' # "none"
      /\ UNCHANGED <<settled, step, signal, env, faults, ghosts>>
  BY DEF Branch, Threads, Threaded
<1>2. TypeOK'
  BY DEF TypeOK, Started
<1>3. Threads'
  BY <1>1 DEF Threads, Before, Threaded, Undisturbed
<1>4. Signals'
  BY DEF Signals, Ended
<1>5. Branch' /\ Steps' /\ Progress' /\ Cleaning' /\ NoThreadLeft' /\ ReleasedOnExit'
  BY DEF Branch, Steps, Progress, Cleaning, NoThreadLeft, ReleasedOnExit, Ended
<1> QED BY <1>2, <1>3, <1>4, <1>5

\* Every setting is tried in its turn.
LEMMA SettingStep == IInv /\ EnvSetting => IInv'
<1> SUFFICES ASSUME IInv, EnvSetting PROVE IInv'
  OBVIOUS
<1>1. PICK ok \in BOOLEAN :
         /\ Commanded(ok)
         /\ done' = IF ok /\ Needs[step] \subseteq links /\ (step = 8 => 7 \in done)
                    THEN done \cup {step} ELSE done
  BY DEF EnvSetting
<1>2. /\ main = "setting" /\ handler = "none"
      /\ IF step = 8 THEN main' = "awake" /\ step' = 1 ELSE main' = "setting" /\ step' = step + 1
      /\ UNCHANGED <<settled, thread, signal, links, token, early>>
  BY DEF EnvSetting, Then
<1>3. /\ faults' \in 0 .. MaxFaults /\ met' \subseteq Faults
      /\ IF ok THEN met' = met ELSE met' = met \cup {"command"}
  BY <1>1, FaultType DEF Commanded, NoFault, IInv, TypeOK
<1>4. mode = "evpn" /\ step \in 1 .. 8 /\ ~ woken
  BY <1>2 DEF IInv, TypeOK, Branch, Signals, Setting, Needs, Ended
<1> USE DEF IInv
<1>5. TypeOK'
  BY <1>1, <1>2, <1>3 DEF TypeOK, Started, Setting, Needs
<1>6. Branch' /\ Threads' /\ Signals' /\ Steps' /\ NoThreadLeft' /\ ReleasedOnExit'
  BY <1>2, <1>4 DEF Branch, Threads, Signals, Steps, NoThreadLeft, ReleasedOnExit
<1>7. Progress'
  <2> SUFFICES ASSUME ~ early', "command" \notin met'
               PROVE  /\ main' = "setting" => (1 .. (step' - 1)) \ LostSettings \subseteq done'
                      /\ main' = "awake" => Setting \ LostSettings \subseteq done'
    BY <1>2, <1>3 DEF Progress, Undisturbed, LostDevices, LostSettings
  <2>1. /\ ok /\ ~ early /\ "command" \notin met
        /\ Device \ LostDevices \subseteq links
        /\ (1 .. (step - 1)) \ LostSettings \subseteq done
    BY <1>2, <1>3, <1>4 DEF Progress, Undisturbed
  <2>2. step \notin LostSettings => step \in done'
    BY <2>1, <1>1, <1>4
    DEF LostSettings, LostDevices, Needs, Device, Devices, SetStatus, SetMaster, SetSlave
  <2>3. (1 .. step) \ LostSettings \subseteq done'
    BY <2>1, <2>2, <1>1, <1>4
  <2> QED BY <2>3, <1>2, <1>4 DEF Setting, Needs
<1>8. Cleaning'
  BY <1>2, <1>3 DEF Cleaning, Started
<1> QED BY <1>5, <1>6, <1>7, <1>8

\* main() sleeps with what it has, and returns from pause() only when a handler
\* has interrupted it, which has stopped the backend first.
LEMMA PauseStep == IInv /\ (Pause \/ Exit) => IInv'
<1> SUFFICES ASSUME IInv, Pause \/ Exit PROVE IInv'
  OBVIOUS
<1> USE DEF IInv, Pause, Exit, Then
<1>1. /\ handler = "none"
      /\ \/ main = "awake" /\ main' = "paused" /\ ~ woken
         \/ main = "paused" /\ main' = "exited" /\ woken
      /\ UNCHANGED <<settled, step, thread, signal, env, faults, ghosts>>
  BY DEF Signals, Ended
<1>2. TypeOK' /\ Branch' /\ Signals' /\ Steps'
  BY DEF TypeOK, Branch, Signals, Steps, Started, Ended
<1>3. Threads' /\ NoThreadLeft'
  BY DEF Threads, NoThreadLeft, Signals, Before, Threaded, Undisturbed
<1>4. Progress'
  BY DEF Progress, Undisturbed, Made, LostDevices, LostSettings
<1>5. Cleaning' /\ ReleasedOnExit'
  BY DEF Cleaning, ReleasedOnExit
<1> QED BY <1>2, <1>3, <1>4, <1>5

-----------------------------------------------------------------------------
(* The invariant is kept: the worker.                                       *)

\* The worker leaves its loop when it is told to, or after a failure.
LEMMA WorkerStep == IInv /\ Worker => IInv'
<1> SUFFICES ASSUME IInv, Worker PROVE IInv'
  OBVIOUS
<1> USE DEF IInv, Worker, CheckRunning, PollAndSleep, NoFault
<1>1. /\ worker \in {"check", "poll"} /\ worker' \in {"check", "poll", "ended"}
      /\ \/ met' = met /\ (running => worker' # "ended")
         \/ met' = met \cup {"worker"}
      /\ faults' \in 0 .. MaxFaults /\ met' \subseteq Faults
      /\ UNCHANGED <<settled, main, step, running, joinable, signal, env, early>>
  BY FaultType DEF TypeOK
<1>2. TypeOK'
  BY <1>1 DEF TypeOK
<1>3. Threads'
  BY <1>1 DEF Threads, Undisturbed
<1>4. Progress' /\ Cleaning' /\ ReleasedOnExit'
  BY <1>1 DEF Progress, Cleaning, ReleasedOnExit, Undisturbed, LostDevices, LostSettings
<1>5. Branch' /\ Signals' /\ Steps' /\ NoThreadLeft'
  BY DEF Branch, Signals, Steps, NoThreadLeft
<1> QED BY <1>2, <1>3, <1>4, <1>5

-----------------------------------------------------------------------------
(* The invariant is kept: signals and their handler.                        *)

\* A signal that comes before pause() is remembered as `early'; only one that
\* finds a backend starts the handler.
LEMMA SignalStep == IInv /\ Signal => IInv'
<1> SUFFICES ASSUME IInv, Signal PROVE IInv'
  OBVIOUS
<1> USE DEF IInv
<1>1. /\ main \notin Ended /\ handler = "none" /\ early' = (early \/ main # "paused")
      /\ handler' = IF main \in Started THEN "stop" ELSE "none"
      /\ UNCHANGED <<settled, main, step, thread, woken, env, faults, met>>
  BY DEF Signal
<1>2. TypeOK'
  <2>1. signals' \in 0 .. MaxSignals
    BY OhnodAssumption DEF TypeOK, Signal
  <2> QED BY <1>1, <2>1 DEF TypeOK
<1>3. Signals'
  BY <1>1 DEF Signals, Cleaned
<1>4. Threads'
  BY <1>1 DEF Threads, Undisturbed
<1>5. Progress'
  BY <1>1 DEF Progress, Undisturbed, Started
<1>6. Branch' /\ Steps' /\ Cleaning' /\ NoThreadLeft' /\ ReleasedOnExit'
  BY <1>1 DEF Branch, Steps, Cleaning, NoThreadLeft, ReleasedOnExit
<1> QED BY <1>2, <1>3, <1>4, <1>5, <1>6

\* The handler of a worker's backend: it waits for the thread, when monitor_ has
\* one, and returns when that has ended.
LEMMA StopStep == IInv /\ (StopThread \/ Join) => IInv'
<1> SUFFICES ASSUME IInv, StopThread \/ Join PROVE IInv'
  OBVIOUS
<1> USE DEF IInv, StopThread, Join, Return
<1>1. /\ handler \in {"stop", "join"} /\ handler' \in {"join", "none"}
      /\ UNCHANGED <<settled, main, step, worker, signals, env, faults, ghosts>>
  OBVIOUS
<1>2. mode # "evpn" /\ ~ running' /\ main \in Started /\ worker' = worker
  BY DEF Threads, Signals
<1>3. main \in Threaded \/ ~ joinable
  BY <1>2 DEF Threads, Branch, Started, Threaded
<1>4. TypeOK'
  <2>1. handler' = "join" => joinable' /\ worker' # "none"
    BY <1>3 DEF Threads
  <2>2. running' \in BOOLEAN /\ joinable' \in BOOLEAN /\ woken' \in BOOLEAN
    BY DEF TypeOK
  <2> QED BY <2>1 DEF TypeOK
<1>5. Threads'
  <2>1. ~ Undisturbed'
    BY DEF Signals, Undisturbed
  <2>2. handler' = "none" => ~ joinable' /\ (joinable => worker = "ended")
    BY DEF TypeOK
  <2>3. handler' = "join" => joinable' = joinable
    BY <1>1
  <2> QED BY <2>1 DEF Threads
<1>6. Signals'
  BY DEF Signals, TypeOK, Cleaned
<1>7. Progress' /\ Cleaning' /\ ReleasedOnExit' /\ NoThreadLeft'
  BY <1>2 DEF Progress, Cleaning, ReleasedOnExit, NoThreadLeft
<1>8. Branch' /\ Steps'
  BY DEF Branch, Steps
<1> QED BY <1>4, <1>5, <1>6, <1>7, <1>8

\* A second signal ends the thread or the process: neither leaves a daemon that
\* would return over its thread.
LEMMA SecondSignalStep == IInv /\ SecondSignal => IInv'
<1> SUFFICES ASSUME IInv, SecondSignal PROVE IInv'
  OBVIOUS
<1> USE DEF IInv
<1>1. /\ handler = "join" /\ mode # "evpn" /\ main \in Started
      /\ \/ worker' = "ended" /\ UNCHANGED <<main, handler>>
         \/ worker' = "none" /\ main' = "aborted" /\ handler' = "none"
      /\ UNCHANGED <<settled, step, running, joinable, woken, env, faults, ghosts>>
  BY DEF SecondSignal, Threads, Signals
<1>2. TypeOK'
  <2>1. signals' \in 0 .. MaxSignals
    BY OhnodAssumption DEF TypeOK, SecondSignal
  <2> QED BY <1>1, <2>1 DEF TypeOK, Ended
<1>3. Threads' /\ Signals'
  BY <1>1 DEF Threads, Signals, TypeOK, Undisturbed, Before, Threaded, Cleaned
<1>4. Branch' /\ Steps' /\ Progress' /\ Cleaning' /\ NoThreadLeft' /\ ReleasedOnExit'
  BY <1>1 DEF Branch, Steps, Progress, Cleaning, NoThreadLeft, ReleasedOnExit, Ended
<1> QED BY <1>2, <1>3, <1>4

\* The handler of the evpn backend starts with the VRF.
LEMMA StopEvpnStep == IInv /\ StopEvpn => IInv'
<1> SUFFICES ASSUME IInv, StopEvpn PROVE IInv'
  OBVIOUS
<1> USE DEF IInv, StopEvpn
<1>1. TypeOK' /\ Signals' /\ Threads'
  BY DEF TypeOK, Signals, Threads, Cleaned
<1>2. Progress' /\ Cleaning'
  BY DEF Progress, Cleaning, Undisturbed, Signals
<1>3. Branch' /\ Steps' /\ NoThreadLeft' /\ ReleasedOnExit'
  BY DEF Branch, Steps, NoThreadLeft, ReleasedOnExit
<1> QED BY <1>1, <1>2, <1>3

\* It deletes a device, or a command has failed.
LEMMA CleanupStep == IInv /\ (\E d \in Cleaned : Cleanup(d)) => IInv'
<1> SUFFICES ASSUME IInv, NEW d \in Cleaned, Cleanup(d) PROVE IInv'
  OBVIOUS
<1> USE DEF IInv
<1>1. /\ handler = d /\ mode = "evpn" /\ main \in Started /\ worker = "none" /\ ~ joinable
      /\ UNCHANGED <<settled, main, step, thread, signals, token, early>>
  BY DEF Cleanup, Signals, Threads, Cleaned
<1>2. /\ d = "vrf" => handler' = "br_l3" /\ UNCHANGED woken
      /\ d = "br_l3" => handler' = "vxlan" /\ UNCHANGED woken
      /\ d = "vxlan" => handler' = "none" /\ woken' = (woken \/ main = "paused")
  BY DEF Cleanup, Return
<1>3. \/ met' = met /\ faults' = faults /\ LinkDestory(d)
      \/ /\ met' = met \cup {"command"} /\ UNCHANGED <<links, done>>
         /\ faults' \in 0 .. MaxFaults /\ met' \subseteq Faults
  BY FaultType DEF Cleanup, Commanded, NoFault, TypeOK
<1>4. links' \subseteq links /\ done' \subseteq done
  BY <1>3 DEF LinkDestory
<1>5. early \/ main = "paused"
  BY <1>1 DEF Signals, Cleaned
<1>6. TypeOK'
  BY <1>1, <1>2, <1>3, <1>4 DEF TypeOK, Cleaned
<1>7. Threads'
  BY <1>1, <1>2 DEF Threads, Cleaned
<1>8. Signals'
  BY <1>1, <1>2 DEF Signals, Cleaned, TypeOK
<1>9. Progress'
  BY <1>1, <1>2, <1>5 DEF Progress, Undisturbed, Cleaned
<1>10. Cleaning'
  BY <1>1, <1>2, <1>3 DEF Cleaning, LinkDestory, Cleaned
<1>11. Branch' /\ Steps' /\ NoThreadLeft' /\ ReleasedOnExit'
  BY <1>1, <1>3 DEF Branch, Steps, NoThreadLeft, ReleasedOnExit, Started
<1> QED BY <1>6, <1>7, <1>8, <1>9, <1>10, <1>11

-----------------------------------------------------------------------------
(* The invariant is kept: the rest of the node.                             *)

\* A daemon that is killed, or started again, has no thread and no handler.
LEMMA KillStep == IInv /\ (Kill \/ Restart) => IInv'
<1> SUFFICES ASSUME IInv, Kill \/ Restart PROVE IInv'
  OBVIOUS
<1> USE DEF IInv
<1>1. /\ UNCHANGED <<settled, signals, env>>
      /\ faults' \in 0 .. MaxFaults /\ met' \subseteq Faults
      /\ \/ /\ main' = "killed" /\ worker' = "none" /\ handler' = "none"
            /\ UNCHANGED <<step, running, joinable, woken, early>>
            /\ met' = met \cup {"kill"}
         \/ /\ main' = "options" /\ step' = 1 /\ ~ running' /\ ~ joinable' /\ worker' = "none"
            /\ handler' = "none" /\ ~ woken' /\ ~ early' /\ met' = {}
            /\ running' \in BOOLEAN /\ joinable' \in BOOLEAN
            /\ woken' \in BOOLEAN /\ early' \in BOOLEAN
  BY FaultType DEF Kill, Restart, TypeOK
<1>2. TypeOK'
  BY <1>1 DEF TypeOK, Ended, Setting, Needs
<1>3. Branch' /\ Threads' /\ Signals' /\ Steps'
  BY <1>1 DEF Branch, Threads, Signals, Steps, Before, Threaded, Ended, Cleaned
<1>4. Progress' /\ Cleaning' /\ NoThreadLeft' /\ ReleasedOnExit'
  BY <1>1 DEF Progress, Cleaning, NoThreadLeft, ReleasedOnExit, Made, Started
<1> QED BY <1>2, <1>3, <1>4

\* The plugin takes and makes the L2 bridge, which the clean-up leaves alone.
LEMMA BridgeStep == IInv /\ (DeleteBridge \/ CreateBridge) => IInv'
<1> SUFFICES ASSUME IInv, DeleteBridge \/ CreateBridge PROVE IInv'
  OBVIOUS
<1> USE DEF IInv
<1>1. UNCHANGED <<settled, main, step, thread, signal, token, early>>
  BY DEF DeleteBridge, CreateBridge
<1>2. CASE DeleteBridge
  <2>1. /\ links' = links \ {"br_l2"} /\ done' = done \ {3, 5}
        /\ faults' \in 0 .. MaxFaults /\ met' \subseteq Faults /\ met' = met \cup {"bridge"}
    <3>1. \A i \in Setting : "br_l2" \in Needs[i] <=> i \in {3, 5}
      BY DEF Setting, Needs, SetStatus, SetMaster, SetSlave
    <3> QED BY <1>2, <3>1, FaultType DEF DeleteBridge, LinkDestory, TypeOK
  <2>2. TypeOK'
    BY <1>1, <2>1 DEF TypeOK
  <2>3. Progress'
    BY <1>1, <2>1 DEF Progress, Undisturbed, LostDevices, LostSettings
  <2>4. Cleaning' /\ ReleasedOnExit'
    BY <1>1, <2>1 DEF Cleaning, ReleasedOnExit
  <2>5. Branch' /\ Threads' /\ Signals' /\ Steps' /\ NoThreadLeft'
    BY <1>1, <2>1 DEF Branch, Threads, Signals, Steps, NoThreadLeft, Undisturbed
  <2> QED BY <2>2, <2>3, <2>4, <2>5
<1>3. CASE CreateBridge
  <2>1. /\ links' = links \cup {"br_l2"} /\ done' = done \cup {3}
        /\ UNCHANGED <<faults, met>>
    BY <1>3 DEF CreateBridge, LinkCreate
  <2>2. TypeOK'
    BY <1>1, <2>1 DEF TypeOK, Device, Devices, Setting, Needs
  <2>3. Progress'
    BY <1>1, <2>1 DEF Progress, Undisturbed, LostDevices, LostSettings
  <2>4. Cleaning' /\ ReleasedOnExit'
    BY <1>1, <2>1 DEF Cleaning, ReleasedOnExit, Cleaned
  <2>5. Branch' /\ Threads' /\ Signals' /\ Steps' /\ NoThreadLeft'
    BY <1>1, <2>1 DEF Branch, Threads, Signals, Steps, NoThreadLeft, Undisturbed
  <2> QED BY <2>2, <2>3, <2>4, <2>5
<1> QED BY <1>2, <1>3

-----------------------------------------------------------------------------
(* The theorems.                                                            *)

LEMMA InitInv == Init => IInv
<1> SUFFICES ASSUME Init PROVE IInv
  OBVIOUS
<1> USE DEF Init, IInv
<1>1. TypeOK
  <2>1. links \subseteq Device /\ done \subseteq Setting
    BY DEF Device, Devices, Setting, Needs
  <2>2. 0 \in 0 .. MaxFaults /\ 0 \in 0 .. MaxSignals /\ 1 \in Setting
    BY OhnodAssumption DEF Setting, Needs
  <2> QED BY <2>1, <2>2 DEF TypeOK
<1>2. Branch /\ Threads /\ Signals /\ Steps
  BY DEF Branch, Threads, Signals, Steps, Threaded, Cleaned
<1>3. Progress /\ Cleaning /\ NoThreadLeft /\ ReleasedOnExit
  BY DEF Progress, Cleaning, NoThreadLeft, ReleasedOnExit, Made, Started
<1> QED BY <1>1, <1>2, <1>3

LEMMA Step == IInv /\ [Next]_vars => IInv'
<1> SUFFICES ASSUME IInv, [Next]_vars PROVE IInv'
  OBVIOUS
<1>1. CASE Main
  BY <1>1, PrepareStep, SetupStep, TokenStep, StartStep, SettingStep, PauseStep DEF Main, Prepare
<1>2. CASE Worker
  BY <1>2, WorkerStep
<1>3. CASE Handler
  BY <1>3, StopStep, StopEvpnStep, CleanupStep DEF Handler
<1>4. CASE Signal \/ SecondSignal
  BY <1>4, SignalStep, SecondSignalStep
<1>5. CASE Kill \/ Restart \/ DeleteBridge \/ CreateBridge
  BY <1>5, KillStep, BridgeStep
<1>6. CASE UNCHANGED vars
  BY <1>6 DEF vars, IInv, TypeOK, Branch, Threads, Signals, Steps, Progress, Cleaning,
              NoThreadLeft, ReleasedOnExit, Undisturbed, LostDevices, LostSettings
<1> QED BY <1>1, <1>2, <1>3, <1>4, <1>5, <1>6 DEF Next

\* The invariant holds in every state.
THEOREM Invariance == Spec => []IInv
BY InitInv, Step, PTL DEF Spec

\* The types, and that the handler waits for a thread only when monitor_ has one:
\* std::thread::join() would throw out of the handler (backend.cc:21-26).
THEOREM TypeCorrect == Spec => []TypeOK
<1>1. IInv => TypeOK
  BY DEF IInv
<1> QED BY <1>1, Invariance, PTL

\* main() never returns over a thread: stop() has joined it, or there was none
\* (backend.cc:21-26, ohnod.cc:163).
THEOREM NoThreadOutlives == Spec => []NoThreadLeft
<1>1. IInv => NoThreadLeft
  BY DEF IInv
<1> QED BY <1>1, Invariance, PTL

\* A daemon that sleeps and was not disturbed does its work, in every mode: the
\* worker polls, or all devices are there and set (ohnod.cc:157-163,
\* backend.cc:57-82, evpn.cc:61-100).
THEOREM SleepingDaemonWorks == Spec => []PausedWorks
<1>1. IInv => PausedWorks
  <2> SUFFICES ASSUME IInv, main = "paused", handler = "none", ~ woken, ~ early,
                      "command" \notin met, "worker" \notin met
               PROVE  IF mode = "evpn"
                      THEN Device \ LostDevices \subseteq links /\ Setting \ LostSettings \subseteq done
                      ELSE running /\ joinable /\ worker \in {"check", "poll"}
    BY DEF PausedWorks, Asleep, LostDevices, LostSettings
  <2> USE DEF IInv
  <2>1. CASE mode = "evpn"
    BY <2>1 DEF Progress, Undisturbed
  <2>2. CASE mode # "evpn"
    BY <2>2 DEF Threads, Threaded, Undisturbed
  <2> QED BY <2>1, <2>2
<1> QED BY <1>1, Invariance, PTL

\* A daemon in evpn mode that returns from pause() has deleted its devices, even
\* if an earlier signal had come in the middle of envSetup() (evpn.cc:106-121).
THEOREM DevicesAreReleased == Spec => []ReleasedOnExit
<1>1. IInv => ReleasedOnExit
  BY DEF IInv
<1> QED BY <1>1, Invariance, PTL
=============================================================================
