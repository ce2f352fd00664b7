---------------------------- MODULE ParameterSync ----------------------------
(***************************************************************************)
(* Parameter values between the host and the plugin process.  They are in  *)
(* DistrhoSharedMemoryRegion, an array of atomics both sides write without *)
(* telling the other: the host in setParameterValue, the plugin process in *)
(* initialize and, for scripts, in set_parameter_value.  The plugin's main *)
(* thread polls the array every frame (process), keeps a copy and emits    *)
(* parameter_changed, through the queue of deferred calls, for what        *)
(* changed.                                                                *)
(*                                                                         *)
(* Data abstraction: a value is a number, 0 that of fresh shared memory;   *)
(* every parameter has the same default.                                   *)
(***************************************************************************)
EXTENDS Integers, Sequences

CONSTANTS
    Count,              \* parameters the plugin has
    MAX_PARAMS,         \* parameters the region holds
    Values,
    Default,            \* get_default_value
    MaxHostWrites,      \* bound
    MaxScriptWrites     \* bound

ASSUME ParametersAssumption ==
    /\ Count \in Nat
    /\ MAX_PARAMS \in Nat
    /\ 0 \in Values
    /\ Default \in Values
    /\ MaxHostWrites \in Nat /\ MaxScriptWrites \in Nat

Indices == 0..(Count - 1)
Stored == {i \in Indices : i < MAX_PARAMS}
Nothing == <<>>         \* a script that is not setting a parameter

VARIABLES
    host,               \* what the host does with the plugin
    region,             \* SharedMemoryRegion::parameters
    booted,             \* both threads of the plugin have set their flags
    parameters,         \* DistrhoPluginServer::parameters
    main,               \* the main thread of the plugin process
    index,              \* loop index of initialize, process
    value,              \* local of process
    deferred,           \* calls of emit_signal not made yet
    script,             \* a script inside set_parameter_value
    raced,              \* history: on another thread while process() ran
    writer,             \* history: who wrote a value of the region last
    setter,             \* history: who set a value of "parameters" last
    heard,              \* history: the latest parameter_changed of a parameter
    host_writes,        \* history
    script_writes       \* history

mainVars == <<parameters, main, index, value, deferred>>
vars == <<host, region, booted, mainVars, script, raced, writer, setter, heard,
          host_writes, script_writes>>

Init ==
    /\ host = "describing"
    /\ region = [i \in Stored |-> 0]
    /\ booted = FALSE
    /\ parameters = [i \in Indices |-> 0]
    /\ main = "booting"
    /\ index = 0
    /\ value = 0
    /\ deferred = <<>>
    /\ script = Nothing
    /\ raced = FALSE
    /\ writer = [i \in Stored |-> "nobody"]
    /\ setter = [i \in Indices |-> "nobody"]
    /\ heard = [i \in Indices |-> 0]
    /\ host_writes = 0
    /\ script_writes = 0

-----------------------------------------------------------------------------
(* DistrhoSharedMemoryRegion.                                              *)

ReadParameterValue(i) == IF i < MAX_PARAMS THEN region[i] ELSE 0

WriteParameterValue(i, v, who) ==
    IF i < MAX_PARAMS
    THEN /\ region' = [region EXCEPT ![i] = v]
         /\ writer' = [writer EXCEPT ![i] = who]
    ELSE UNCHANGED <<region, writer>>

-----------------------------------------------------------------------------
(* The host.                                                               *)

(* activate() launches the plugin process and waits for its threads.       *)
Activate ==
    /\ host = "describing"
    /\ host' = "activating"
    /\ UNCHANGED <<region, booted, mainVars, script, raced, writer, setter,
                   heard, host_writes, script_writes>>

Activated ==
    /\ host = "activating"
    /\ booted
    /\ host' = "active"
    /\ UNCHANGED <<region, booted, mainVars, script, raced, writer, setter,
                   heard, host_writes, script_writes>>

(* setParameterValue, on any thread of the host.  Without a client it does *)
(* nothing.                                                                *)
SetParameterValue(i, v) ==
    /\ host = "active"
    /\ host_writes < MaxHostWrites
    /\ host_writes' = host_writes + 1
    /\ WriteParameterValue(i, v, "host")
    /\ UNCHANGED <<host, booted, mainVars, script, raced, setter, heard,
                   script_writes>>

-----------------------------------------------------------------------------
(* The main thread of the plugin process.                                  *)

(* Mutant: the threads are started before the defaults are written.        *)
InitializeStartingFirst ==
    /\ main = "booting"
    /\ host = "activating"
    /\ main' = "initializing"
    /\ booted' = TRUE
    /\ UNCHANGED <<host, region, parameters, index, value, deferred, script,
                   raced, writer, setter, heard, host_writes, script_writes>>

Initialize ==
    /\ main = "booting"
    /\ host = "activating"
    /\ main' = "initializing"
    /\ UNCHANGED <<host, region, booted, parameters, index, value, deferred,
                   script, raced, writer, setter, heard, host_writes,
                   script_writes>>

InitializeParameter ==
    /\ main = "initializing"
    /\ index < Count
    /\ parameters' = [parameters EXCEPT ![index] = Default]
    /\ setter' = [setter EXCEPT ![index] = "default"]
    /\ WriteParameterValue(index, Default, "default")
    /\ index' = index + 1
    /\ UNCHANGED <<host, booted, main, value, deferred, script, raced, heard,
                   host_writes, script_writes>>

(* start() and initialized = true.                                         *)
Start ==
    /\ main = "initializing"
    /\ index = Count
    /\ main' = "idle"
    /\ UNCHANGED <<host, region, booted, parameters, index, value, deferred,
                   script, raced, writer, setter, heard, host_writes,
                   script_writes>>

(* The audio and the RPC thread set the flags of their buffers:            *)
(* AudioExchange, RpcChannel.                                              *)
ThreadsReady ==
    /\ main \notin {"booting", "initializing"}
    /\ ~booted
    /\ booted' = TRUE
    /\ UNCHANGED <<host, region, mainVars, script, raced, writer, setter,
                   heard, host_writes, script_writes>>

(* process(), once per frame.                                              *)
Process ==
    /\ main = "idle"
    /\ raced' = (raced \/ script # Nothing)
    /\ main' = "polling"
    /\ index' = 0
    /\ UNCHANGED <<host, region, booted, parameters, value, deferred, script,
                   writer, setter, heard, host_writes, script_writes>>

ReadParameter ==
    /\ main = "polling"
    /\ index < Count
    /\ value' = ReadParameterValue(index)
    /\ main' = "comparing"
    /\ UNCHANGED <<host, region, booted, parameters, index, deferred, script,
                   raced, writer, setter, heard, host_writes, script_writes>>

(* Mutant: 0 is taken for a value nobody set.                              *)
CompareParameterUnlessZero ==
    /\ main = "comparing"
    /\ IF parameters[index] = value \/ value = 0
       THEN UNCHANGED <<parameters, deferred, setter>>
       ELSE /\ parameters' = [parameters EXCEPT ![index] = value]
            /\ setter' = [setter EXCEPT ![index] = "process"]
            /\ deferred' = Append(deferred, <<index, value>>)
    /\ index' = index + 1
    /\ main' = "polling"
    /\ UNCHANGED <<host, region, booted, value, script, raced, writer, heard,
                   host_writes, script_writes>>

(* Mutant: one signal per frame.                                           *)
CompareParameterOnce ==
    /\ main = "comparing"
    /\ IF parameters[index] = value
       THEN UNCHANGED <<parameters, deferred, setter>>
       ELSE /\ parameters' = [parameters EXCEPT ![index] = value]
            /\ setter' = [setter EXCEPT ![index] = "process"]
            /\ deferred' = IF deferred = <<>> THEN << <<index, value>> >> ELSE deferred
    /\ index' = index + 1
    /\ main' = "polling"
    /\ UNCHANGED <<host, region, booted, value, script, raced, writer, heard,
                   host_writes, script_writes>>

CompareParameter ==
    /\ main = "comparing"
    /\ IF parameters[index] = value
       THEN UNCHANGED <<parameters, deferred, setter>>
       ELSE /\ parameters' = [parameters EXCEPT ![index] = value]
            /\ setter' = [setter EXCEPT ![index] = "process"]
            /\ deferred' = Append(deferred, <<index, value>>)
    /\ index' = index + 1
    /\ main' = "polling"
    /\ UNCHANGED <<host, region, booted, value, script, raced, writer, heard,
                   host_writes, script_writes>>

EndProcess ==
    /\ main = "polling"
    /\ index = Count
    /\ main' = "idle"
    /\ UNCHANGED <<host, region, booted, parameters, index, value, deferred,
                   script, raced, writer, setter, heard, host_writes,
                   script_writes>>

(* Godot makes the deferred calls in order between two callbacks.          *)
EmitSignal ==
    /\ main = "idle"
    /\ deferred # <<>>
    /\ heard' = [heard EXCEPT ![Head(deferred)[1]] = Head(deferred)[2]]
    /\ deferred' = Tail(deferred)
    /\ UNCHANGED <<host, region, booted, parameters, main, index, value,
                   script, raced, writer, setter, host_writes, script_writes>>

-----------------------------------------------------------------------------
(* Scripts: set_parameter_value stores the value in "parameters", then in  *)
(* the region.  On the main thread they do not meet process().             *)

(* Mutant: the copy is left to process().                                  *)
ScriptSetsRegionOnly(i, v) ==
    /\ main \notin {"booting", "initializing"}
    /\ raced' = (raced \/ main # "idle")
    /\ script = Nothing
    /\ script_writes < MaxScriptWrites
    /\ script_writes' = script_writes + 1
    /\ script' = <<i, v>>
    /\ UNCHANGED <<host, region, booted, mainVars, writer, setter, heard,
                   host_writes>>

ScriptSets(i, v) ==
    /\ main \notin {"booting", "initializing"}
    /\ raced' = (raced \/ main # "idle")
    /\ script = Nothing
    /\ script_writes < MaxScriptWrites
    /\ script_writes' = script_writes + 1
    /\ script' = <<i, v>>
    /\ parameters' = [parameters EXCEPT ![i] = v]
    /\ setter' = [setter EXCEPT ![i] = "script"]
    /\ UNCHANGED <<host, region, booted, main, index, value, deferred, writer,
                   heard, host_writes>>

ScriptWrites ==
    /\ script # Nothing
    /\ WriteParameterValue(script[1], script[2], "script")
    /\ script' = Nothing
    /\ UNCHANGED <<host, booted, mainVars, raced, setter, heard, host_writes,
                   script_writes>>

-----------------------------------------------------------------------------
MainThread ==
    \/ Initialize \/ InitializeParameter \/ Start
    \/ Process \/ ReadParameter \/ CompareParameter \/ EndProcess
    \/ EmitSignal

Next ==
    \/ Activate
    \/ Activated
    \/ \E i \in Indices, v \in Values : SetParameterValue(i, v)
    \/ MainThread
    \/ ThreadsReady
    \/ \E i \in Indices, v \in Values : ScriptSets(i, v)
    \/ ScriptWrites

Spec == Init /\ [][Next]_vars

(* The main thread runs and makes the deferred calls it has, and a script  *)
(* in set_parameter_value gets on.                                         *)
Fairness ==
    /\ WF_vars(MainThread)
    /\ SF_vars(EmitSignal)
    /\ WF_vars(ScriptWrites)

FairSpec == Spec /\ Fairness

-----------------------------------------------------------------------------
(* Every variable keeps its type.                                          *)
TypeOK ==
    /\ host \in {"describing", "activating", "active"}
    /\ region \in [Stored -> Values]
    /\ booted \in BOOLEAN
    /\ parameters \in [Indices -> Values]
    /\ main \in {"booting", "initializing", "idle", "polling", "comparing"}
    /\ index \in 0..Count
    /\ main = "comparing" => index \in Indices
    /\ value \in Values
    /\ deferred \in Seq(Indices \X Values)
    /\ script \in {Nothing} \cup (Indices \X Values)
    /\ raced \in BOOLEAN
    /\ writer \in [Stored -> {"nobody", "default", "host", "script"}]
    /\ setter \in [Indices -> {"nobody", "default", "process", "script"}]
    /\ heard \in [Indices -> Values]
    /\ host_writes \in Nat
    /\ script_writes \in Nat

(* The host never reads the zeros of fresh shared memory, and initialize   *)
(* never replaces what the host set: activate() returns only after the     *)
(* threads, which start() starts after the last default, are ready.        *)
DefaultsBeforeHost ==
    host = "active" =>
        /\ \A i \in Stored : writer[i] # "nobody"
        /\ main \notin {"booting", "initializing"}

(* process() tells scripts what the host set and not what they set         *)
(* themselves, as long as they do so on the main thread, or between two    *)
(* frames.  (A parameter the region does not hold is always 0 to process,  *)
(* and scripts are told so.)                                               *)
NoEcho ==
    [][~raced /\ Len(deferred') > Len(deferred) =>
          IF index < MAX_PARAMS THEN writer[index] = "host" ELSE value = 0]_vars

(* A script that listens to parameter_changed and sets nothing itself is   *)
(* up to date when no call is deferred: no change process() takes over is  *)
(* lost or overtaken by an earlier one.                                    *)
ScriptsAreTold ==
    \A i \in Indices :
        deferred = <<>> /\ setter[i] = "process" => heard[i] = parameters[i]

(* Once nobody writes any more, the plugin's copy is what the region       *)
(* holds, whoever wrote last and whatever threads scripts run on, and all  *)
(* signals are emitted.                                                    *)
CopiesAgree ==
    <>[](/\ \A i \in Stored : parameters[i] = region[i]
         /\ deferred = <<>>)

=============================================================================
