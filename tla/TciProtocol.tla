------------------------------- MODULE TciProtocol -------------------------------
(***************************************************************************)
(* TCI text lines as the program parses and writes them (protocol.rs).     *)
(*                                                                         *)
(* A line is `name:arg,...,arg;`.  An argument is what its text denotes: a *)
(* numeral or a word.  Which numerals fit a Rust integer type is a         *)
(* constant, since only "fits" and "does not fit" make a difference.       *)
(* White space around lines and arguments is left out.                     *)
(***************************************************************************)
EXTENDS Integers, Sequences

CONSTANTS U32, U64, I32, I64    \* the numerals each integer type can hold

ASSUME WidthAssumption ==
    /\ U32 \subseteq U64 /\ U64 \subseteq Nat
    /\ I32 \subseteq I64 /\ I64 \subseteq Int

Num(n)  == [kind |-> "num", val |-> n]
Word(w) == [kind |-> "word", val |-> w]

\* `end`: the line has its semicolon.
Line(name, args) == [name |-> name, args |-> args, end |-> TRUE]

NoLine == Line("", <<>>)

-----------------------------------------------------------------------------
(* Arguments. *)

Width(type) == CASE type = "u32" -> U32 [] type = "u64" -> U64
                 [] type = "i32" -> I32 [] type = "i64" -> I64

Fits(arg, type) ==
    CASE type = "str"  -> TRUE
      [] type = "bool" -> arg.val \in IF arg.kind = "num" THEN {0, 1} ELSE {"true", "false"}
      [] OTHER         -> arg.kind = "num" /\ arg.val \in Width(type)

\* The text of a `str` is kept as it is.
Parsed(arg, type) ==
    CASE type = "str"  -> arg
      [] type = "bool" -> arg.val = IF arg.kind = "num" THEN 1 ELSE "true"
      [] OTHER         -> arg.val

\* A plausible slip: booleans are written the wrong way round.
NegatedText(v, type) ==
    CASE type = "str"  -> v
      [] type = "bool" -> Word(IF v THEN "false" ELSE "true")
      [] OTHER         -> Num(v)

\* to_string of a parsed argument.
Text(v, type) ==
    CASE type = "str"  -> v
      [] type = "bool" -> Word(IF v THEN "true" ELSE "false")
      [] OTHER         -> Num(v)

-----------------------------------------------------------------------------
(* Commands. *)

Arm(name, cmd, types) == [name |-> name, cmd |-> cmd, types |-> types]

\* With one argument less than its setter, a name asks for the value.
ParamArms ==
    {Arm("VFO", "Vfo", <<"u32", "u32", "u64">>), Arm("VFO", "VfoRead", <<"u32", "u32">>),
     Arm("DDS", "Dds", <<"u32", "u64">>), Arm("DDS", "DdsRead", <<"u32">>),
     Arm("IF", "If", <<"u32", "u32", "i64">>), Arm("IF", "IfRead", <<"u32", "u32">>),
     Arm("MODULATION", "Modulation", <<"u32", "str">>),
     Arm("MODULATION", "ModulationRead", <<"u32">>),
     Arm("RX_CHANNEL_ENABLE", "RxChannelEnable", <<"u32", "u32", "bool">>),
     Arm("RX_CHANNEL_ENABLE", "RxChannelEnableRead", <<"u32", "u32">>),
     Arm("RX_FILTER_BAND", "RxFilterBand", <<"u32", "i32", "i32">>),
     Arm("RX_FILTER_BAND", "RxFilterBandRead", <<"u32">>),
     Arm("SPOT", "Spot", <<"str", "str", "u64", "u32", "str">>)}

\* Names for which another number of arguments is an error (need).
StrictArms ==
    {Arm("IQ_SAMPLERATE", "IqSamplerate", <<"u32">>), Arm("IQ_START", "IqStart", <<"u32">>),
     Arm("IQ_STOP", "IqStop", <<"u32">>), Arm("AUDIO_SAMPLERATE", "AudioSamplerate", <<"u32">>),
     Arm("AUDIO_START", "AudioStart", <<"u32">>), Arm("AUDIO_STOP", "AudioStop", <<"u32">>),
     Arm("AUDIO_STREAM_SAMPLE_TYPE", "AudioStreamSampleType", <<"str">>),
     Arm("AUDIO_STREAM_CHANNELS", "AudioStreamChannels", <<"u32">>),
     Arm("AUDIO_STREAM_SAMPLES", "AudioStreamSamples", <<"u32">>),
     Arm("SPOT_DELETE", "SpotDelete", <<"str">>)}

\* Names whose first arguments are read and the others ignored, or, for
\* CW_MACROS, joined to one text.
OpenArms(n) ==
    {Arm("SPOT_CLEAR", "SpotClear", <<>>), Arm("CW_MACROS_STOP", "CwMacrosStop", <<>>),
     Arm("START", "Start", <<>>), Arm("STOP", "Stop", <<>>)}
    \cup (IF n = 1 THEN {Arm("RX_SENSORS_ENABLE", "RxSensorsEnable", <<"bool">>)} ELSE {})
    \cup (IF n > 1 THEN {Arm("RX_SENSORS_ENABLE", "RxSensorsEnable", <<"bool", "u32">>),
                         Arm("CW_MACROS", "CwMacros",
                             [i \in 1 .. n |-> IF i = 1 THEN "u32" ELSE "str"])} ELSE {})

\* What a name and a number of arguments select: at most one arm.
ArmsFor(name, n) ==
    {a \in ParamArms : a.name = name /\ Len(a.types) = n}
    \cup {a \in StrictArms : a.name = name}
    \cup {a \in OpenArms(n) : a.name = name}

\* The spellings of names that differ from the upper-case one.
LowerCase == [vfo |-> "VFO", dds |-> "DDS", if |-> "IF", modulation |-> "MODULATION",
              rx_channel_enable |-> "RX_CHANNEL_ENABLE", rx_filter_band |-> "RX_FILTER_BAND",
              iq_samplerate |-> "IQ_SAMPLERATE", start |-> "START", stop |-> "STOP"]

to_ascii_uppercase(name) == IF name \in DOMAIN LowerCase THEN LowerCase[name] ELSE name

Ok(cmd, args) == [ok |-> TRUE, cmd |-> cmd, args |-> args]
Err(what)     == [ok |-> FALSE, cmd |-> what, args |-> <<>>]

\* A plausible slip: whatever the number is, it is taken.
TypedUnchecked(arm, args) ==
    IF arm \in StrictArms /\ Len(args) # Len(arm.types) THEN Err("BadArgCount")
    ELSE Ok(arm.cmd, [i \in DOMAIN arm.types |-> Parsed(args[i], arm.types[i])])

\* The arguments of an arm, typed; `need` and the first misfit are errors.
Typed(arm, args) ==
    IF arm \in StrictArms /\ Len(args) # Len(arm.types) THEN Err("BadArgCount")
    ELSE IF \E i \in DOMAIN arm.types : ~Fits(args[i], arm.types[i]) THEN Err("BadArg")
    ELSE Ok(arm.cmd, [i \in DOMAIN arm.types |-> Parsed(args[i], arm.types[i])])

parse_command(line) ==
    LET arms == ArmsFor(to_ascii_uppercase(line.name), Len(line.args))
    IN  IF ~line.end THEN Err("NoTerminator")
        ELSE IF arms = {} THEN Ok("Other", line.args)
        ELSE CHOOSE c \in {Typed(arm, line.args) : arm \in arms} : TRUE

-----------------------------------------------------------------------------
(* Lines the program writes. *)

\* The types of the arguments of a setter.
TypesOf == [cmd \in {a.cmd : a \in ParamArms \cup StrictArms} |->
               (CHOOSE a \in ParamArms \cup StrictArms : a.cmd = cmd).types]

\* A line with the arguments of a setter, the values of `args` as text.
format_msg(name, cmd, args) ==
    Line(name, [i \in DOMAIN args |-> Text(args[i], TypesOf[cmd][i])])
==================================================================================
