------------------------------ MODULE PluginInfo ------------------------------
(***************************************************************************)
(* The plugin's description on its way from the script, where it is        *)
(* written, to the audio host, which must know it before any Godot runs:   *)
(* DistrhoPluginServer::set_distrho_plugin writes it to a file whenever    *)
(* the editor makes the script's instance, an export copies the file       *)
(* beside the game, and the host's library reads it twice: once in its     *)
(* process (GodotDistrhoDynamicInfo) and once for each plugin              *)
(* (createPlugin).                                                         *)
(*                                                                         *)
(* Data abstraction: what a script returns is a function from the methods  *)
(* it has to their values; a parameter or port is the dictionary given to  *)
(* create_parameter or create_audio_port.  The JSON of a description is    *)
(* the description itself: what it writes as a string or a number is read  *)
(* as one.  Where a script may put anything, in an enumeration and in the  *)
(* programs, a value is a record with its kind: a string, an int (a whole  *)
(* number that an int and a float hold, written as either), another number *)
(* or something else.  A version is its pieces between the dots, a piece   *)
(* the number it begins with and the rest.  "At most one" is a set with at *)
(* most one element.                                                       *)
(***************************************************************************)
EXTENDS Integers, Sequences

CONSTANTS
    Scripts,            \* what the author may write
    Invalid,            \* an array item that is no parameter or port
    NotAnArray,         \* what a method may return in place of one
    Empty,              \* the empty string
    Numbered,           \* the port DPF makes up for one without a name
    NoNumber,           \* what a piece of a version begins with if that is
                        \*   no number, or none that an int holds
    Garbled             \* what d_version makes of numbers that are no bytes

Texts == {"name", "uri", "label", "description", "maker", "homepage",
          "license", "version", "unique_id"}

Lists == {"parameters", "input_ports", "output_ports", "programs"}

Methods == Texts \cup Lists \cup {"state_values"}

ParameterKeys == {"hints", "name", "short_name", "symbol", "unit",
                  "description", "default_value", "min_value", "max_value",
                  "enumeration_values", "designation", "midi_cc", "group_id"}

PortKeys == {"hints", "name", "symbol", "group_id"}

(* What Parameter and AudioPort are given of these.                        *)
HostParameterKeys == ParameterKeys \ {"short_name"}
HostPortKeys == PortKeys \ {"hints"}

-----------------------------------------------------------------------------
(* The script: DistrhoPluginInstance.                                      *)

(* The version "0.0.1".                                                    *)
Piece(number) == [number |-> number, rest |-> Empty]
NoVersion == <<Piece(0), Piece(0), Piece(1)>>

Fallback == [name |-> "GodotDistrho", uri |-> "uri", label |-> "godot-distrho",
             description |-> "Godot DISTRHO plugin", maker |-> "godot-distrho",
             homepage |-> "uri", license |-> "MIT", version |-> NoVersion,
             unique_id |-> <<"g", "o", "d", "t">>]

TextOf(script, text) ==
    IF text \in DOMAIN script THEN script[text] ELSE Fallback[text]

(* The array a method returns, if it has one.                              *)
HasArray(script, list) == list \in DOMAIN script /\ script[list] # NotAnArray

ProgramsOf(script) ==
    IF HasArray(script, "programs") THEN script["programs"] ELSE <<>>

(* The parameters or ports that are valid.                                 *)
ItemsOf(script, list) ==
    IF HasArray(script, list)
    THEN SelectSeq(script[list], LAMBDA item : item # Invalid) ELSE <<>>

(* An array has a length; NoNumber is no number.                           *)
ASSUME ScriptsAssumption ==
    /\ \A s \in Scripts : \A list \in Lists : Len(ItemsOf(s, list)) \in Nat
    /\ NoNumber \notin Int

ParameterDefaults ==
    [key \in ParameterKeys |->
        CASE key \in {"name", "short_name", "symbol", "unit", "description"} ->
                Empty
          [] key = "enumeration_values" -> [label \in {} |-> 0]
          [] key = "group_id" -> -1
          [] OTHER -> 0]

PortDefaults ==
    [key \in PortKeys |-> CASE key \in {"name", "symbol"} -> Empty
                            [] key = "group_id" -> -1
                            [] OTHER -> 0]

With(given, defaults) ==
    [key \in DOMAIN defaults |->
        IF key \in DOMAIN given THEN given[key] ELSE defaults[key]]

CreateParameter(item) == With(item, ParameterDefaults)
CreateAudioPort(item) == With(item, PortDefaults)

EachOf(items, Made(_)) == [i \in 1..Len(items) |-> Made(items[i])]

(* Mutant: the keys and values that are empty are kept.                    *)
AnyStatesOf(script) ==
    IF "state_values" \in DOMAIN script THEN script["state_values"]
    ELSE [key \in {} |-> Empty]

(* The states that have a key and a value.                                 *)
StatesOf(script) ==
    IF "state_values" \in DOMAIN script
    THEN LET states == script["state_values"]
         IN  [key \in {k \in DOMAIN states : k # Empty /\ states[k] # Empty}
                |-> states[key]]
    ELSE [key \in {} |-> Empty]

(* DistrhoPluginInstance::get_json.                                        *)
GetJson(script) ==
    [texts        |-> [text \in Texts |-> TextOf(script, text)],
     parameters   |-> EachOf(ItemsOf(script, "parameters"), CreateParameter),
     input_ports  |-> EachOf(ItemsOf(script, "input_ports"), CreateAudioPort),
     output_ports |-> EachOf(ItemsOf(script, "output_ports"), CreateAudioPort),
     state_values |-> StatesOf(script),
     programs     |-> ProgramsOf(script)]

-----------------------------------------------------------------------------
(* The host: DistrhoPluginInfo.                                            *)

(* What it holds before load() has found a file.                           *)
InfoDefaults ==
    [texts        |-> [name |-> "GodotDistrho", uri |-> "uri",
                       label |-> "godot-distrho",
                       description |-> "Godot DISTRHO plugin",
                       maker |-> "godot-distrho", homepage |-> "uri",
                       license |-> "MIT", version |-> NoVersion,
                       unique_id |-> <<"g", "o", "d", "t">>],
     parameters   |-> <<>>,
     input_ports  |-> <<>>,
     output_ports |-> <<>>,
     state_values |-> [key \in {} |-> Empty],
     programs     |-> <<>>]

(* value_to<int> throws unless it is given an int, as_string unless it is  *)
(* given a string.                                                         *)
LoadThrows(description) ==
    \/ \E i \in 1..Len(description.parameters) :
          LET values == description.parameters[i]["enumeration_values"]
          IN  \E label \in DOMAIN values : values[label].kind # "int"
    \/ \E i \in 1..Len(description.programs) :
          description.programs[i].kind # "string"

(* split_string_stream: getline finds nothing after a dot at the end.      *)
Tokens(version) ==
    IF version # <<>> /\ version[Len(version)] = Piece(NoNumber)
    THEN SubSeq(version, 1, Len(version) - 1) ELSE version

(* stoi throws if there are three tokens and one begins with no number.    *)
VersionThrows(version) ==
    /\ Len(Tokens(version)) = 3
    /\ \E i \in 1..3 : Tokens(version)[i].number = NoNumber

(* Three bytes in one number, each in eight bits.                          *)
Byte == 0..255
Packed(major, minor, micro) == 65536 * major + 256 * minor + micro
DVersion(major, minor, micro) ==
    IF {major, minor, micro} \subseteq Byte
    THEN Packed(major, minor, micro) ELSE Garbled

(* stoi takes the number a token begins with and leaves the rest.          *)
GetVersion(version) ==
    LET tokens == Tokens(version) IN
    IF Len(tokens) = 3
    THEN DVersion(tokens[1].number, tokens[2].number, tokens[3].number)
    ELSE DVersion(0, 0, 1)

GetUniqueId(unique_id) ==
    IF Len(unique_id) >= 4
    THEN <<unique_id[1], unique_id[2], unique_id[3], unique_id[4]>>
    ELSE <<"n", "o", "n", "e">>

Only(keys, given) == [key \in keys |-> given[key]]
GetParameter(parameter) == Only(HostParameterKeys, parameter)
GetPort(port) == Only(HostPortKeys, port)

(* Mutant: a port without a name is left out.                              *)
NamedPorts(ports) ==
    EachOf(SelectSeq(ports, LAMBDA port : port["name"] # Empty), GetPort)

GetPorts(ports) == EachOf(ports, GetPort)

(* createPlugin: GodotDistrhoPluginState.                                  *)
StateOf(info) ==
    [texts        |-> [text \in Texts \ {"uri"} |->
                          CASE text = "version" ->
                                  GetVersion(info.texts["version"])
                            [] text = "unique_id" ->
                                  GetUniqueId(info.texts["unique_id"])
                            [] OTHER -> info.texts[text]],
     parameters   |-> EachOf(info.parameters, GetParameter),
     input_ports  |-> GetPorts(info.input_ports),
     output_ports |-> GetPorts(info.output_ports),
     state_values |-> info.state_values,
     programs     |-> info.programs]

(* initAudioPort.                                                          *)
InitAudioPort(port) == IF port["name"] = Empty THEN Numbered ELSE port

-----------------------------------------------------------------------------
VARIABLES
    \* The author.
    script,             \* as it is now
    file,               \* distrho_plugin_info.json: at most one description,
                        \*   and history: the script it is of
    bundle,             \* at most one export: its script and description
    \* The host's process.
    dynamic,            \* GodotDistrhoDynamicInfo, when it was first used
    plugin,             \* at most one plugin, and history: its bundle
    aborted,            \* history: the bundle the process died of, if it did
    replaced            \* history: a new export since this process has read one

authorVars == <<script, file, bundle>>
hostVars   == <<dynamic, plugin, aborted, replaced>>
vars == <<authorVars, hostVars>>

Init ==
    /\ script \in Scripts
    /\ file = {}
    /\ bundle = {}
    /\ dynamic = {}
    /\ plugin = {}
    /\ aborted = {}
    /\ replaced = FALSE

EditScript ==
    /\ script' \in Scripts
    /\ UNCHANGED <<file, bundle, hostVars>>

(* The instance's _init, in the editor.                                    *)
SetDistrhoPlugin ==
    /\ file' = {[json |-> GetJson(script), of |-> script]}
    /\ UNCHANGED <<script, bundle, hostVars>>

(* The game is packed as it is; where there is no file to copy, what an    *)
(* earlier export has left stays.                                          *)
Export ==
    /\ bundle' = {[script |-> script,
                   description |-> IF file # {} THEN file
                                   ELSE UNION {b.description : b \in bundle}]}
    /\ replaced' = (dynamic \cup plugin # {})
    /\ UNCHANGED <<script, file, dynamic, plugin, aborted>>

(* DistrhoPluginInfo::load.                                                *)
Load(b) ==
    IF b.description = {} THEN InfoDefaults
    ELSE (CHOOSE d \in b.description : TRUE).json

Abort(b) ==
    /\ aborted' = {b}
    /\ dynamic' = {}
    /\ plugin' = {}

(* get_instance, for the first time in this process; the client takes the  *)
(* numbers of channels from it.                                            *)
LoadDynamicInfo ==
    /\ aborted = {}
    /\ dynamic = {}
    /\ \E b \in bundle :
          IF LoadThrows(Load(b)) THEN Abort(b)
          ELSE /\ dynamic' = {[uri     |-> Load(b).texts["uri"],
                               inputs  |-> Len(Load(b).input_ports),
                               outputs |-> Len(Load(b).output_ports)]}
               /\ UNCHANGED <<plugin, aborted>>
    /\ UNCHANGED <<authorVars, replaced>>

CreatePlugin ==
    /\ aborted = {}
    /\ plugin = {}
    /\ \E b \in bundle :
          IF LoadThrows(Load(b)) \/ VersionThrows(Load(b).texts["version"])
          THEN Abort(b)
          ELSE /\ plugin' = {[state |-> StateOf(Load(b)), of |-> b]}
               /\ UNCHANGED <<dynamic, aborted>>
    /\ UNCHANGED <<authorVars, replaced>>

DeletePlugin ==
    /\ plugin # {}
    /\ plugin' = {}
    /\ UNCHANGED <<authorVars, dynamic, aborted, replaced>>

HostRestart ==
    /\ dynamic \cup plugin \cup aborted # {}
    /\ dynamic' = {}
    /\ plugin' = {}
    /\ aborted' = {}
    /\ replaced' = FALSE
    /\ UNCHANGED authorVars

Next ==
    \/ EditScript
    \/ SetDistrhoPlugin
    \/ Export
    \/ LoadDynamicInfo
    \/ CreatePlugin
    \/ DeletePlugin
    \/ HostRestart

Spec == Init /\ [][Next]_vars

-----------------------------------------------------------------------------
(* What a script says and what a host has been told agree.                 *)

ItemsAgree(items, told, keys) ==
    /\ Len(told) = Len(items)
    /\ \A i \in 1..Len(items) : \A key \in keys \cap DOMAIN items[i] :
          told[i][key] = items[i][key]

PortsAgree(items, told) ==
    /\ Len(told) = Len(items)
    /\ \A i \in 1..Len(items) :
          "name" \in DOMAIN items[i] /\ items[i]["name"] # Empty =>
              \A key \in HostPortKeys \cap DOMAIN items[i] :
                  InitAudioPort(told[i])[key] = items[i][key]

StatesAgree(said, told) ==
    /\ DOMAIN told \subseteq DOMAIN said \ {Empty}
    /\ \A key \in DOMAIN said \ {Empty} :
          IF said[key] = Empty THEN key \notin DOMAIN told
          ELSE key \in DOMAIN told /\ told[key] = said[key]

(* A version that three bytes can say.                                     *)
Proper(version) ==
    /\ Len(version) = 3
    /\ \A i \in 1..3 : version[i].rest = Empty /\ version[i].number \in Byte

(* The bytes in the number are the numbers in the text.                    *)
VersionAgrees(said, told) ==
    Proper(said) => /\ told \div 65536 = said[1].number
                    /\ (told \div 256) % 256 = said[2].number
                    /\ told % 256 = said[3].number

Describes(state, s) ==
    /\ \A text \in (Texts \ {"uri", "version", "unique_id"}) \cap DOMAIN s :
          state.texts[text] = s[text]
    /\ "version" \in DOMAIN s =>
          VersionAgrees(s["version"], state.texts["version"])
    /\ ItemsAgree(ItemsOf(s, "parameters"), state.parameters,
                  HostParameterKeys)
    /\ PortsAgree(ItemsOf(s, "input_ports"), state.input_ports)
    /\ PortsAgree(ItemsOf(s, "output_ports"), state.output_ports)
    /\ "state_values" \in DOMAIN s =>
          StatesAgree(s["state_values"], state.state_values)
    /\ state.programs = ProgramsOf(s)

(* The values of enumerations are whole numbers, the programs strings, and *)
(* three parts of a version all begin with a number.                       *)
Readable(s) ==
    /\ \A i \in 1..Len(ItemsOf(s, "parameters")) :
          LET item == ItemsOf(s, "parameters")[i]
          IN  "enumeration_values" \in DOMAIN item =>
                  \A label \in DOMAIN item["enumeration_values"] :
                      item["enumeration_values"][label].kind = "int"
    /\ \A i \in 1..Len(ProgramsOf(s)) :
          ProgramsOf(s)[i].kind = "string"
    /\ "version" \in DOMAIN s => ~VersionThrows(s["version"])

UpToDate(b) == {d.of : d \in b.description} = {b.script}

(* What the host shows before any Godot runs is what the script in the     *)
(* game says, unless the script was edited and exported without its        *)
(* instance being made again; of its version, if three bytes can say it.   *)
(* The host dies of a script only if that has something load() or stoi()   *)
(* cannot read, which nothing keeps it from having: a fraction in an       *)
(* enumeration, a program that is no string, a version of words.  Without  *)
(* a description it shows what it would show of a script that says nothing *)
(* (get_json, load, createPlugin).                                         *)
HostKnowsScript ==
    /\ \A p \in plugin :
          /\ UpToDate(p.of) => Describes(p.state, p.of.script)
          /\ p.of.description = {} =>
                p.state = StateOf(GetJson([text \in {} |-> Empty]))
    /\ \A b \in aborted : UpToDate(b) => ~Readable(b.script)

(* The plugin has the ports the shared memory has channels for, however    *)
(* often it is created, unless the bundle was replaced under the process   *)
(* (createPlugin, GodotDistrhoDynamicInfo).                                *)
ChannelsMatchPorts ==
    \A p \in plugin : \A d \in dynamic :
        ~replaced => /\ d.inputs = Len(p.state.input_ports)
                     /\ d.outputs = Len(p.state.output_ports)

=============================================================================
