--------------------------- MODULE PluginInfoProofs ---------------------------
(***************************************************************************)
(* Proofs about PluginInfo, for any scripts: what the host has been told   *)
(* is what the script says, and the channels are those of its ports.       *)
(***************************************************************************)
EXTENDS PluginInfo, SequenceTheorems, TLAPS

-----------------------------------------------------------------------------
(* Arrays.                                                                 *)

LEMMA LengthOf ==
    ASSUME NEW n \in Nat, NEW f, f = [i \in 1..n |-> f[i]]
    PROVE  Len(f) = n
<1> DEFINE S == {f[i] : i \in 1..n}
<1>1. f \in [1..n -> S]
  OBVIOUS
<1>2. f \in Seq(S)
  BY <1>1
<1>3. DOMAIN f = 1..Len(f) /\ Len(f) \in Nat
  BY <1>2, LenProperties
<1>4. DOMAIN f = 1..n
  BY <1>1
<1> QED
  BY <1>3, <1>4

(* The parameters and ports a host is given of those a script has.         *)
LEMMA Parameters ==
    ASSUME NEW items, Len(items) \in Nat
    PROVE  LET json == EachOf(items, CreateParameter)
               told == EachOf(json, GetParameter)
           IN  /\ Len(json) = Len(items)
               /\ Len(told) = Len(items)
               /\ \A i \in 1..Len(items) :
                     /\ json[i] = CreateParameter(items[i])
                     /\ told[i] = GetParameter(CreateParameter(items[i]))
<1> DEFINE json == EachOf(items, CreateParameter)
           told == EachOf(json, GetParameter)
<1>1. json = [i \in 1..Len(items) |-> CreateParameter(items[i])]
  BY Zenon DEF EachOf
<1> HIDE DEF json
<1>2. Len(json) = Len(items)
  BY <1>1, LengthOf
<1>3. told = [i \in 1..Len(json) |-> GetParameter(json[i])]
  BY Zenon DEF EachOf
<1> HIDE DEF told
<1>4. Len(told) = Len(items)
  BY <1>2, <1>3, LengthOf
<1>5. \A i \in 1..Len(items) : json[i] = CreateParameter(items[i])
  BY <1>1
<1>6. \A i \in 1..Len(items) : told[i] = GetParameter(json[i])
  BY <1>2, <1>3
<1> QED
  BY <1>2, <1>4, <1>5, <1>6, Zenon DEF json, told

LEMMA Ports ==
    ASSUME NEW items, Len(items) \in Nat
    PROVE  LET json == EachOf(items, CreateAudioPort)
               told == GetPorts(json)
           IN  /\ Len(json) = Len(items)
               /\ Len(told) = Len(items)
               /\ \A i \in 1..Len(items) :
                     told[i] = GetPort(CreateAudioPort(items[i]))
<1> DEFINE json == EachOf(items, CreateAudioPort)
           told == GetPorts(json)
<1>1. json = [i \in 1..Len(items) |-> CreateAudioPort(items[i])]
  BY Zenon DEF EachOf
<1> HIDE DEF json
<1>2. Len(json) = Len(items)
  BY <1>1, LengthOf
<1>3. told = [i \in 1..Len(json) |-> GetPort(json[i])]
  BY Zenon DEF EachOf, GetPorts
<1> HIDE DEF told
<1>4. Len(told) = Len(items)
  BY <1>2, <1>3, LengthOf
<1>5. \A i \in 1..Len(items) : json[i] = CreateAudioPort(items[i])
  BY <1>1
<1>6. \A i \in 1..Len(items) : told[i] = GetPort(json[i])
  BY <1>2, <1>3
<1> QED
  BY <1>2, <1>4, <1>5, <1>6, Zenon DEF json, told

(* A key the script gives is told.                                         *)
LEMMA GivenParameter ==
    ASSUME NEW item, NEW key \in HostParameterKeys \cap DOMAIN item
    PROVE  GetParameter(CreateParameter(item))[key] = item[key]
BY DEF GetParameter, Only, CreateParameter, With, HostParameterKeys,
       ParameterDefaults

LEMMA GivenPort ==
    ASSUME NEW item, NEW key \in HostPortKeys \cap DOMAIN item
    PROVE  GetPort(CreateAudioPort(item))[key] = item[key]
BY DEF GetPort, Only, CreateAudioPort, With, HostPortKeys, PortDefaults

LEMMA PortsAreTold ==
    ASSUME NEW items, Len(items) \in Nat
    PROVE  PortsAgree(items, GetPorts(EachOf(items, CreateAudioPort)))
<1> DEFINE told == GetPorts(EachOf(items, CreateAudioPort))
<1>1. /\ Len(told) = Len(items)
      /\ \A i \in 1..Len(items) : told[i] = GetPort(CreateAudioPort(items[i]))
  BY Ports, Zenon
<1> HIDE DEF told
<1>2. ASSUME NEW i \in 1..Len(items),
             "name" \in DOMAIN items[i], items[i]["name"] # Empty,
             NEW key \in HostPortKeys \cap DOMAIN items[i]
      PROVE  InitAudioPort(told[i])[key] = items[i][key]
  <2>1. "name" \in HostPortKeys
    BY DEF HostPortKeys, PortKeys
  <2>2. told[i]["name"] = items[i]["name"]
    BY <1>1, <1>2, <2>1, GivenPort
  <2>3. InitAudioPort(told[i]) = told[i]
    BY <1>2, <2>2 DEF InitAudioPort
  <2> QED
    BY <1>1, <1>2, <2>3, GivenPort
<1>3. PortsAgree(items, told)
  BY <1>1, <1>2, Zenon DEF PortsAgree
<1> QED
  BY <1>3, Zenon DEF told

-----------------------------------------------------------------------------
(* A description and what the host makes of it.                            *)

LEMMA ParametersAreTold ==
    ASSUME NEW items, Len(items) \in Nat
    PROVE  ItemsAgree(items,
                      EachOf(EachOf(items, CreateParameter), GetParameter),
                      HostParameterKeys)
<1> DEFINE told == EachOf(EachOf(items, CreateParameter), GetParameter)
<1>1. /\ Len(told) = Len(items)
      /\ \A i \in 1..Len(items) :
            told[i] = GetParameter(CreateParameter(items[i]))
  BY Parameters, Zenon
<1> HIDE DEF told
<1>2. \A i \in 1..Len(items) :
         \A key \in HostParameterKeys \cap DOMAIN items[i] :
            told[i][key] = items[i][key]
  BY <1>1, GivenParameter
<1>3. ItemsAgree(items, told, HostParameterKeys)
  BY <1>1, <1>2, Zenon DEF ItemsAgree
<1> QED
  BY <1>3, Zenon DEF told

LEMMA StatesAreTold ==
    ASSUME NEW s, "state_values" \in DOMAIN s
    PROVE  StatesAgree(s["state_values"], StatesOf(s))
BY DEF StatesAgree, StatesOf

(* Three bytes are found again in the number made of them.                 *)
LEMMA BytesInNumber ==
    ASSUME NEW a, NEW b, NEW c,
           a \in Byte /\ b \in Byte /\ c \in Byte
    PROVE  /\ DVersion(a, b, c) \div 65536 = a
           /\ (DVersion(a, b, c) \div 256) % 256 = b
           /\ DVersion(a, b, c) % 256 = c
<1>1. a \in 0..255 /\ b \in 0..255 /\ c \in 0..255
  BY DEF Byte
<1>2. DVersion(a, b, c) = Packed(a, b, c)
  BY Zenon DEF DVersion
<1> DEFINE number == DVersion(a, b, c)
<1> HIDE DEF number
<1>3. (65536 * a + 256 * b + c) \div 65536 = a
  BY <1>1
<1>4. (65536 * a + 256 * b + c) \div 256 = 256 * a + b
  BY <1>1
<1>5. (256 * a + b) % 256 = b
  BY <1>1
<1>6. (65536 * a + 256 * b + c) % 256 = c
  BY <1>1
<1>7. number = 65536 * a + 256 * b + c
  BY <1>2 DEF number, Packed
<1>8. /\ number \div 65536 = a
      /\ (number \div 256) % 256 = b
      /\ number % 256 = c
  BY <1>1, <1>3, <1>4, <1>5, <1>6, <1>7
<1> QED
  BY <1>8 DEF number

LEMMA VersionIsTold ==
    ASSUME NEW version
    PROVE  VersionAgrees(version, GetVersion(version))
<1> SUFFICES ASSUME Proper(version)
             PROVE  /\ GetVersion(version) \div 65536 = version[1].number
                    /\ (GetVersion(version) \div 256) % 256 = version[2].number
                    /\ GetVersion(version) % 256 = version[3].number
  BY DEF VersionAgrees
<1>1. /\ Len(version) = 3
      /\ version[1].number \in Byte
      /\ version[2].number \in Byte
      /\ version[3].number \in Byte
  BY DEF Proper
<1>2. version[Len(version)] # Piece(NoNumber)
  <2>1. version[3].number # NoNumber
    BY <1>1, ScriptsAssumption DEF Byte
  <2>2. Piece(NoNumber).number = NoNumber
    BY DEF Piece
  <2> QED
    BY <1>1, <2>1, <2>2
<1>3. Tokens(version) = version
  BY <1>2 DEF Tokens
<1>4. GetVersion(version) =
         DVersion(version[1].number, version[2].number, version[3].number)
  BY <1>1, <1>3 DEF GetVersion
<1> DEFINE major == version[1].number
           minor == version[2].number
           micro == version[3].number
<1>5. major \in Byte /\ minor \in Byte /\ micro \in Byte
  BY <1>1
<1>6. GetVersion(version) = DVersion(major, minor, micro)
  BY <1>4
<1> HIDE DEF major, minor, micro
<1>7. /\ DVersion(major, minor, micro) \div 65536 = major
      /\ (DVersion(major, minor, micro) \div 256) % 256 = minor
      /\ DVersion(major, minor, micro) % 256 = micro
  BY <1>5, BytesInNumber
<1>8. /\ GetVersion(version) \div 65536 = major
      /\ (GetVersion(version) \div 256) % 256 = minor
      /\ GetVersion(version) % 256 = micro
  BY <1>6, <1>7
<1> QED
  BY <1>8 DEF major, minor, micro

(* What createPlugin makes of what get_json says of a script.              *)
LEMMA JsonDescribes ==
    ASSUME NEW s \in Scripts
    PROVE  Describes(StateOf(GetJson(s)), s)
<1> DEFINE json  == GetJson(s)
           state == StateOf(json)
<1>1. /\ json.texts = [text \in Texts |-> TextOf(s, text)]
      /\ json.parameters = EachOf(ItemsOf(s, "parameters"), CreateParameter)
      /\ json.input_ports = EachOf(ItemsOf(s, "input_ports"), CreateAudioPort)
      /\ json.output_ports =
            EachOf(ItemsOf(s, "output_ports"), CreateAudioPort)
      /\ json.state_values = StatesOf(s)
      /\ json.programs = ProgramsOf(s)
  BY DEF GetJson
<1> HIDE DEF json
<1>2. /\ state.texts =
            [text \in Texts \ {"uri"} |->
                CASE text = "version" -> GetVersion(json.texts["version"])
                  [] text = "unique_id" -> GetUniqueId(json.texts["unique_id"])
                  [] OTHER -> json.texts[text]]
      /\ state.parameters = EachOf(json.parameters, GetParameter)
      /\ state.input_ports = GetPorts(json.input_ports)
      /\ state.output_ports = GetPorts(json.output_ports)
      /\ state.state_values = json.state_values
      /\ state.programs = json.programs
  BY DEF StateOf
<1> HIDE DEF state
<1>3. \A list \in Lists : Len(ItemsOf(s, list)) \in Nat
  BY ScriptsAssumption
<1>4. /\ Len(ItemsOf(s, "parameters")) \in Nat
      /\ Len(ItemsOf(s, "input_ports")) \in Nat
      /\ Len(ItemsOf(s, "output_ports")) \in Nat
  BY <1>3 DEF Lists
<1>5. \A text \in (Texts \ {"uri", "version", "unique_id"}) \cap DOMAIN s :
         state.texts[text] = s[text]
  BY <1>1, <1>2 DEF TextOf
<1>6. "version" \in DOMAIN s =>
         VersionAgrees(s["version"], state.texts["version"])
  <2> SUFFICES ASSUME "version" \in DOMAIN s
               PROVE  VersionAgrees(s["version"], state.texts["version"])
    OBVIOUS
  <2>1. state.texts["version"] = GetVersion(s["version"])
    BY <1>1, <1>2 DEF TextOf, Texts
  <2> QED
    BY <2>1, VersionIsTold
<1>7. ItemsAgree(ItemsOf(s, "parameters"), state.parameters,
                 HostParameterKeys)
  <2>1. state.parameters =
            EachOf(EachOf(ItemsOf(s, "parameters"), CreateParameter),
                   GetParameter)
    BY <1>1, <1>2, Zenon
  <2> QED
    BY <1>4, <2>1, ParametersAreTold, Zenon
<1>8. /\ PortsAgree(ItemsOf(s, "input_ports"), state.input_ports)
      /\ PortsAgree(ItemsOf(s, "output_ports"), state.output_ports)
  <2>1. /\ state.input_ports =
              GetPorts(EachOf(ItemsOf(s, "input_ports"), CreateAudioPort))
        /\ state.output_ports =
              GetPorts(EachOf(ItemsOf(s, "output_ports"), CreateAudioPort))
    BY <1>1, <1>2, Zenon
  <2>2. PortsAgree(ItemsOf(s, "input_ports"), state.input_ports)
    BY <1>4, <2>1, PortsAreTold, Zenon
  <2>3. PortsAgree(ItemsOf(s, "output_ports"), state.output_ports)
    BY <1>4, <2>1, PortsAreTold, Zenon
  <2> QED
    BY <2>2, <2>3
<1>9. "state_values" \in DOMAIN s =>
         StatesAgree(s["state_values"], state.state_values)
  BY <1>1, <1>2, StatesAreTold, Zenon
<1>10. state.programs = ProgramsOf(s)
  BY <1>1, <1>2, Zenon
<1>11. Describes(state, s)
  BY <1>5, <1>6, <1>7, <1>8, <1>9, <1>10, Zenon DEF Describes
<1> QED
  BY <1>11, Zenon DEF state, json

LEMMA DefaultVersionIsRead == ~VersionThrows(NoVersion)
<1>1. /\ NoVersion # <<>> /\ Len(NoVersion) = 3
      /\ NoVersion[1].number = 0
      /\ NoVersion[2].number = 0
      /\ NoVersion[3].number = 1
  BY DEF NoVersion, Piece
<1>2. NoVersion[3] # Piece(NoNumber)
  <2>1. Piece(NoNumber).number = NoNumber
    BY DEF Piece
  <2> QED
    BY <1>1, <2>1, ScriptsAssumption
<1>3. Tokens(NoVersion) = NoVersion
  BY <1>1, <1>2 DEF Tokens
<1>4. \A i \in 1..3 : NoVersion[i].number # NoNumber
  BY <1>1, ScriptsAssumption
<1> QED
  BY <1>3, <1>4 DEF VersionThrows

(* A description that the host cannot read is of a script that has what    *)
(* cannot be read.                                                         *)
LEMMA ReadableIsRead ==
    ASSUME NEW s \in Scripts, Readable(s)
    PROVE  /\ ~LoadThrows(GetJson(s))
           /\ ~VersionThrows(GetJson(s).texts["version"])
<1> DEFINE items == ItemsOf(s, "parameters")
           json  == EachOf(items, CreateParameter)
<1>1. Len(items) \in Nat
  BY ScriptsAssumption DEF Lists
<1>2. /\ Len(json) = Len(items)
      /\ \A i \in 1..Len(items) : json[i] = CreateParameter(items[i])
  BY <1>1, Parameters, Zenon
<1>3. /\ GetJson(s).parameters = json
      /\ GetJson(s).programs = ProgramsOf(s)
      /\ GetJson(s).texts["version"] = TextOf(s, "version")
  BY DEF GetJson, Texts
<1>4. \A i \in 1..Len(items) :
         "enumeration_values" \in DOMAIN items[i] =>
             \A label \in DOMAIN items[i]["enumeration_values"] :
                 items[i]["enumeration_values"][label].kind = "int"
  BY Zenon DEF Readable
<1> HIDE DEF json, items
<1>5. ASSUME NEW i \in 1..Len(json)
      PROVE  \A label \in DOMAIN json[i]["enumeration_values"] :
                 json[i]["enumeration_values"][label].kind = "int"
  <2>1. json[i] = CreateParameter(items[i]) /\ i \in 1..Len(items)
    BY <1>2, <1>5
  <2>2. CASE "enumeration_values" \in DOMAIN items[i]
    <3>1. json[i]["enumeration_values"] = items[i]["enumeration_values"]
      BY <2>1, <2>2 DEF CreateParameter, With, ParameterDefaults,
                        ParameterKeys
    <3> QED
      BY <1>4, <2>1, <2>2, <3>1, Zenon
  <2>3. CASE "enumeration_values" \notin DOMAIN items[i]
    <3>1. json[i]["enumeration_values"] = [label \in {} |-> 0]
      BY <2>1, <2>3 DEF CreateParameter, With, ParameterDefaults,
                        ParameterKeys
    <3> QED
      BY <3>1
  <2> QED
    BY <2>2, <2>3
<1>6. \A i \in 1..Len(ProgramsOf(s)) : ProgramsOf(s)[i].kind = "string"
  BY Zenon DEF Readable
<1>7. ~LoadThrows(GetJson(s))
  BY <1>3, <1>5, <1>6, Zenon DEF LoadThrows
<1>8. ~VersionThrows(TextOf(s, "version"))
  <2>1. CASE "version" \in DOMAIN s
    BY <2>1, Zenon DEF Readable, TextOf
  <2>2. CASE "version" \notin DOMAIN s
    <3>1. TextOf(s, "version") = NoVersion
      BY <2>2 DEF TextOf, Fallback
    <3>2. ~VersionThrows(NoVersion)
      BY DefaultVersionIsRead
    <3> QED
      BY <3>1, <3>2, Zenon
  <2> QED
    BY <2>1, <2>2
<1> QED
  BY <1>3, <1>7, <1>8, Zenon

(* Both sides agree on what is said of a plugin that says nothing.         *)
LEMMA DefaultsAgree ==
    StateOf(InfoDefaults) = StateOf(GetJson([text \in {} |-> Empty]))
<1> DEFINE s == [text \in {} |-> Empty]
<1>1. \A text \in Texts : TextOf(s, text) = InfoDefaults.texts[text]
  BY DEF TextOf, Fallback, InfoDefaults, Texts
<1>2. InfoDefaults.texts = [text \in Texts |-> InfoDefaults.texts[text]]
  BY DEF InfoDefaults, Texts
<1>3. [text \in Texts |-> TextOf(s, text)] = InfoDefaults.texts
  BY <1>1, <1>2
<1>4. /\ ItemsOf(s, "parameters") = <<>>
      /\ ItemsOf(s, "input_ports") = <<>>
      /\ ItemsOf(s, "output_ports") = <<>>
      /\ ProgramsOf(s) = <<>>
  BY DEF ItemsOf, ProgramsOf, HasArray
<1>5. /\ EachOf(<<>>, CreateParameter) = <<>>
      /\ EachOf(<<>>, CreateAudioPort) = <<>>
  BY DEF EachOf
<1>6. StatesOf(s) = [key \in {} |-> Empty]
  BY DEF StatesOf
<1>7. GetJson(s) = InfoDefaults
  BY <1>3, <1>4, <1>5, <1>6 DEF GetJson, InfoDefaults
<1> QED
  BY <1>7, Zenon

-----------------------------------------------------------------------------
(* The processes.                                                          *)

DescriptionOf(s) == {[json |-> GetJson(s), of |-> s]}

Descriptions == {{}} \cup {DescriptionOf(s) : s \in Scripts}

Bundles == [script : Scripts, description : Descriptions]

PluginOf(b) == [state |-> StateOf(Load(b)), of |-> b]

DynamicOf(b) == [uri     |-> Load(b).texts["uri"],
                 inputs  |-> Len(Load(b).input_ports),
                 outputs |-> Len(Load(b).output_ports)]

Unreadable(b) ==
    LoadThrows(Load(b)) \/ VersionThrows(Load(b).texts["version"])

(* What is read is of the bundle there is, unless that was replaced.       *)
PluginRead ==
    plugin = {} \/ \E b \in Bundles : /\ plugin = {PluginOf(b)}
                                      /\ ~replaced => bundle = {b}

DynamicRead ==
    dynamic = {} \/ \E b \in Bundles : /\ dynamic = {DynamicOf(b)}
                                       /\ ~replaced => bundle = {b}

(* Every description is of some script, and what a process has read is of  *)
(* some bundle.                                                            *)
Inv ==
    /\ script \in Scripts
    /\ file \in Descriptions
    /\ bundle = {} \/ \E b \in Bundles : bundle = {b}
    /\ PluginRead
    /\ DynamicRead
    /\ aborted = {} \/ \E b \in Bundles : aborted = {b} /\ Unreadable(b)

LEMMA LoadsDescription ==
    ASSUME NEW s \in Scripts, NEW b, b.description = DescriptionOf(s)
    PROVE  Load(b) = GetJson(s)
<1> DEFINE description == [json |-> GetJson(s), of |-> s]
<1>1. b.description = {description}
  BY Zenon DEF DescriptionOf
<1>2. description.json = GetJson(s)
  OBVIOUS
<1> HIDE DEF description
<1>3. (CHOOSE d \in {description} : TRUE) = description
  OBVIOUS
<1> QED
  BY <1>1, <1>2, <1>3 DEF Load

LEMMA UpToDateLoads ==
    ASSUME NEW b \in Bundles, UpToDate(b)
    PROVE  Load(b) = GetJson(b.script) /\ b.script \in Scripts
<1>1. b.script \in Scripts /\ b.description \in Descriptions
  BY DEF Bundles
<1>2. b.description # {}
  BY DEF UpToDate
<1>3. PICK s \in Scripts : b.description = DescriptionOf(s)
  BY <1>1, <1>2, Zenon DEF Descriptions
<1>4. s = b.script
  BY <1>3 DEF UpToDate, DescriptionOf
<1> QED
  BY <1>1, <1>3, <1>4, LoadsDescription

(* However a description is read, the host has as many ports as it.        *)
LEMMA PortsKept ==
    ASSUME NEW b \in Bundles
    PROVE  /\ Len(StateOf(Load(b)).input_ports) = Len(Load(b).input_ports)
           /\ Len(StateOf(Load(b)).output_ports) = Len(Load(b).output_ports)
<1>1. /\ StateOf(Load(b)).input_ports = GetPorts(Load(b).input_ports)
      /\ StateOf(Load(b)).output_ports = GetPorts(Load(b).output_ports)
  BY DEF StateOf
<1>2. CASE b.description = {}
  <2>1. Load(b).input_ports = <<>> /\ Load(b).output_ports = <<>>
    BY <1>2 DEF Load, InfoDefaults
  <2>2. GetPorts(<<>>) = <<>>
    BY DEF GetPorts, EachOf
  <2> QED
    BY <1>1, <2>1, <2>2, Zenon
<1>3. CASE b.description # {}
  <2>1. PICK s \in Scripts : b.description = DescriptionOf(s)
    BY <1>3 DEF Bundles, Descriptions
  <2>2. Load(b) = GetJson(s)
    BY <2>1, LoadsDescription
  <2>3. /\ GetJson(s).input_ports =
               EachOf(ItemsOf(s, "input_ports"), CreateAudioPort)
        /\ GetJson(s).output_ports =
               EachOf(ItemsOf(s, "output_ports"), CreateAudioPort)
    BY DEF GetJson
  <2>4. /\ Len(ItemsOf(s, "input_ports")) \in Nat
        /\ Len(ItemsOf(s, "output_ports")) \in Nat
    BY ScriptsAssumption DEF Lists
  <2>5. \A items : Len(items) \in Nat =>
           Len(GetPorts(EachOf(items, CreateAudioPort))) =
               Len(EachOf(items, CreateAudioPort))
    BY Ports, Zenon
  <2> QED
    BY <1>1, <2>2, <2>3, <2>4, <2>5, Zenon
<1> QED
  BY <1>2, <1>3

-----------------------------------------------------------------------------
LEMMA InvInit == Init => Inv
BY DEF Init, Inv, Descriptions, PluginRead, DynamicRead

LEMMA InvNext ==
    ASSUME Inv
    PROVE  [Next]_vars => Inv'
<1>1. EditScript => Inv'
  BY DEF EditScript, hostVars, Inv, PluginRead, DynamicRead
<1>2. SetDistrhoPlugin => Inv'
  <2>1. SetDistrhoPlugin => file' \in Descriptions
    BY DEF SetDistrhoPlugin, Inv, Descriptions, DescriptionOf, PluginRead, DynamicRead
  <2> QED
    BY <2>1 DEF SetDistrhoPlugin, hostVars, Inv, PluginRead, DynamicRead
<1>3. Export => Inv'
  <2> SUFFICES ASSUME Export
               PROVE  Inv'
    OBVIOUS
  <2>1. UNION {b.description : b \in bundle} \in Descriptions
    <3>1. CASE bundle = {}
      BY <3>1 DEF Descriptions
    <3>2. ASSUME NEW b \in Bundles, bundle = {b}
          PROVE  UNION {c.description : c \in bundle} = b.description
      BY <3>2
    <3> QED
      BY <3>1, <3>2 DEF Inv, Bundles, PluginRead, DynamicRead
  <2> DEFINE new == [script |-> script,
                     description |-> IF file # {} THEN file
                                     ELSE UNION {b.description : b \in bundle}]
  <2>2. new \in Bundles
    BY <2>1 DEF Inv, Bundles, PluginRead, DynamicRead
  <2>4. bundle' = {new}
    BY DEF Export
  <2>3. ~replaced' => dynamic' = {} /\ plugin' = {}
    BY DEF Export
  <2> HIDE DEF new
  <2> QED
    BY <2>2, <2>3, <2>4 DEF Export, Inv, PluginRead, DynamicRead
<1>4. LoadDynamicInfo => Inv'
  <2> SUFFICES ASSUME LoadDynamicInfo
               PROVE  Inv'
    OBVIOUS
  <2>1. PICK b \in Bundles :
           /\ bundle = {b}
           /\ IF LoadThrows(Load(b)) THEN Abort(b)
              ELSE dynamic' = {DynamicOf(b)} /\ UNCHANGED <<plugin, aborted>>
    BY DEF LoadDynamicInfo, Inv, DynamicOf, PluginRead, DynamicRead
  <2>2. CASE LoadThrows(Load(b))
    BY <2>1, <2>2 DEF LoadDynamicInfo, authorVars, Inv, Abort, Unreadable, PluginRead, DynamicRead
  <2>3. CASE ~LoadThrows(Load(b))
    BY <2>1, <2>3 DEF LoadDynamicInfo, authorVars, Inv, PluginRead, DynamicRead
  <2> QED
    BY <2>2, <2>3
<1>5. CreatePlugin => Inv'
  <2> SUFFICES ASSUME CreatePlugin
               PROVE  Inv'
    OBVIOUS
  <2>1. PICK b \in Bundles :
           /\ bundle = {b}
           /\ IF Unreadable(b) THEN Abort(b)
              ELSE plugin' = {PluginOf(b)} /\ UNCHANGED <<dynamic, aborted>>
    BY DEF CreatePlugin, Inv, PluginOf, Unreadable, PluginRead, DynamicRead
  <2>2. CASE Unreadable(b)
    BY <2>1, <2>2 DEF CreatePlugin, authorVars, Inv, Abort, PluginRead, DynamicRead
  <2>3. CASE ~Unreadable(b)
    BY <2>1, <2>3 DEF CreatePlugin, authorVars, Inv, PluginRead, DynamicRead
  <2> QED
    BY <2>2, <2>3
<1>6. DeletePlugin => Inv'
  BY DEF DeletePlugin, authorVars, Inv, PluginRead, DynamicRead
<1>7. HostRestart => Inv'
  BY DEF HostRestart, authorVars, Inv, PluginRead, DynamicRead
<1>8. UNCHANGED vars => Inv'
  BY DEF vars, authorVars, hostVars, Inv, PluginRead, DynamicRead
<1> QED
  BY <1>1, <1>2, <1>3, <1>4, <1>5, <1>6, <1>7, <1>8 DEF Next

LEMMA InvKnows == Inv => HostKnowsScript
<1> SUFFICES ASSUME Inv
             PROVE  HostKnowsScript
  OBVIOUS
<1>1. ASSUME NEW p \in plugin
      PROVE  /\ UpToDate(p.of) => Describes(p.state, p.of.script)
             /\ p.of.description = {} =>
                   p.state = StateOf(GetJson([text \in {} |-> Empty]))
  <2>0. plugin # {}
    OBVIOUS
  <2>6. PluginRead
    BY DEF Inv
  <2>1. PICK b \in Bundles : plugin = {PluginOf(b)}
    BY <2>0, <2>6, Zenon DEF PluginRead
  <2>5. p = PluginOf(b)
    BY <2>1, Zenon
  <2>2. p.of = b /\ p.state = StateOf(Load(b))
    BY <2>5 DEF PluginOf
  <2>3. ASSUME UpToDate(b)
        PROVE  Describes(StateOf(Load(b)), b.script)
    BY <2>3, UpToDateLoads, JsonDescribes
  <2>4. ASSUME b.description = {}
        PROVE  StateOf(Load(b)) = StateOf(GetJson([text \in {} |-> Empty]))
    BY <2>4, DefaultsAgree, Zenon DEF Load
  <2> QED
    BY <2>2, <2>3, <2>4, Zenon
<1>2. ASSUME NEW b \in aborted, UpToDate(b)
      PROVE  ~Readable(b.script)
  <2>1. b \in Bundles /\ Unreadable(b)
    BY DEF Inv
  <2>2. Load(b) = GetJson(b.script) /\ b.script \in Scripts
    BY <1>2, <2>1, UpToDateLoads
  <2> QED
    BY <2>1, <2>2, ReadableIsRead DEF Unreadable
<1> QED
  BY <1>1, <1>2, Zenon DEF HostKnowsScript

LEMMA InvMatches == Inv => ChannelsMatchPorts
<1> SUFFICES ASSUME Inv, NEW p \in plugin, NEW d \in dynamic, ~replaced
             PROVE  /\ d.inputs = Len(p.state.input_ports)
                    /\ d.outputs = Len(p.state.output_ports)
  BY DEF ChannelsMatchPorts
<1>0. plugin # {} /\ dynamic # {}
  OBVIOUS
<1>2. PluginRead /\ DynamicRead
  BY DEF Inv
<1>3. PICK b \in Bundles : plugin = {PluginOf(b)} /\ bundle = {b}
  BY <1>0, <1>2, Zenon DEF PluginRead
<1>4. PICK c \in Bundles : dynamic = {DynamicOf(c)} /\ bundle = {c}
  BY <1>0, <1>2, Zenon DEF DynamicRead
<1>1. p = PluginOf(b) /\ d = DynamicOf(b) /\ b \in Bundles
  BY <1>3, <1>4, Zenon
<1>5. /\ p.state = StateOf(Load(b))
      /\ d.inputs = Len(Load(b).input_ports)
      /\ d.outputs = Len(Load(b).output_ports)
  BY <1>1 DEF PluginOf, DynamicOf
<1> QED
  BY <1>1, <1>5, PortsKept

(* What the host has been told of a plugin is what its script says, for    *)
(* any scripts, edits, exports and restarts (get_json, load, createPlugin).*)
THEOREM HostKnows == Spec => []HostKnowsScript
<1>1. Inv /\ [Next]_vars => Inv'
  BY InvNext
<1> QED
  BY InvInit, <1>1, InvKnows, PTL DEF Spec

(* The shared memory has a channel for each port of the plugin, unless the *)
(* bundle was replaced under the host's process.                           *)
THEOREM ChannelsMatch == Spec => []ChannelsMatchPorts
<1>1. Inv /\ [Next]_vars => Inv'
  BY InvNext
<1> QED
  BY InvInit, <1>1, InvMatches, PTL DEF Spec

=============================================================================
