---------------------------- MODULE TciServerProofs ----------------------------
(* What a TCI server stores, tells its clients and offers the bridge, for  *)
(* any endpoints, sessions and messages.                                   *)
EXTENDS TciServer, SequenceLemmas

-----------------------------------------------------------------------------
(* Lines. *)

LEMMA TypesOfSetters ==
    /\ TypesOf["Vfo"] = <<"u32", "u32", "u64">>
    /\ TypesOf["If"] = <<"u32", "u32", "i64">>
    /\ TypesOf["RxChannelEnable"] = <<"u32", "u32", "bool">>
    /\ TypesOf["Dds"] = <<"u32", "u64">>
    /\ TypesOf["Modulation"] = <<"u32", "str">>
    /\ TypesOf["RxFilterBand"] = <<"u32", "i32", "i32">>
    /\ TypesOf["IqSamplerate"] = <<"u32">>
<1> DEFINE Arms == ParamArms \cup StrictArms
<1>1. /\ Arm("VFO", "Vfo", <<"u32", "u32", "u64">>) \in Arms
      /\ Arm("IF", "If", <<"u32", "u32", "i64">>) \in Arms
      /\ Arm("RX_CHANNEL_ENABLE", "RxChannelEnable", <<"u32", "u32", "bool">>) \in Arms
      /\ Arm("DDS", "Dds", <<"u32", "u64">>) \in Arms
      /\ Arm("MODULATION", "Modulation", <<"u32", "str">>) \in Arms
      /\ Arm("RX_FILTER_BAND", "RxFilterBand", <<"u32", "i32", "i32">>) \in Arms
      /\ Arm("IQ_SAMPLERATE", "IqSamplerate", <<"u32">>) \in Arms
  BY DEF ParamArms, StrictArms
<1>2. \A a \in Arms :
         /\ a.cmd = "Vfo" => a = Arm("VFO", "Vfo", <<"u32", "u32", "u64">>)
         /\ a.cmd = "If" => a = Arm("IF", "If", <<"u32", "u32", "i64">>)
         /\ a.cmd = "RxChannelEnable" =>
              a = Arm("RX_CHANNEL_ENABLE", "RxChannelEnable", <<"u32", "u32", "bool">>)
         /\ a.cmd = "Dds" => a = Arm("DDS", "Dds", <<"u32", "u64">>)
         /\ a.cmd = "Modulation" => a = Arm("MODULATION", "Modulation", <<"u32", "str">>)
         /\ a.cmd = "RxFilterBand" =>
              a = Arm("RX_FILTER_BAND", "RxFilterBand", <<"u32", "i32", "i32">>)
         /\ a.cmd = "IqSamplerate" => a = Arm("IQ_SAMPLERATE", "IqSamplerate", <<"u32">>)
  BY DEF ParamArms, StrictArms, Arm
<1>3. \A n, c, t : Arm(n, c, t).cmd = c /\ Arm(n, c, t).types = t
  BY DEF Arm
<1> HIDE DEF Arms
<1>4. ASSUME NEW n, NEW c, NEW t, Arm(n, c, t) \in Arms, \A a \in Arms : a.cmd = c => a = Arm(n, c, t)
      PROVE  TypesOf[c] = t
  <2>1. TypesOf[c] = (CHOOSE a \in Arms : a.cmd = c).types
    BY <1>3, <1>4 DEF TypesOf, Arms
  <2> QED  BY <2>1, <1>3, <1>4
<1> QED  BY <1>1, <1>2, <1>4

\* The values a parameter can have.
Holds(p, v) ==
    \/ p[1] \in {"vfo", "dds"} /\ \E f \in U64 : v = <<f>>
    \/ p[1] = "if" /\ \E x \in I64 : v = <<x>>
    \/ p[1] = "rx_channel_enable" /\ \E b \in BOOLEAN : v = <<b>>
    \/ p[1] = "modulation" /\ v = <<v[1]>>
    \/ p[1] = "rx_filter_band" /\ \E lo, hi \in I32 : v = <<lo, hi>>
    \/ p[1] = "iq_samplerate" /\ \E r \in U32 : v = <<r>>

Names == {"vfo", "if", "rx_channel_enable", "dds", "modulation", "rx_filter_band", "iq_samplerate"}

LEMMA IndexPrefix ==
    ASSUME NEW a, NEW b
    PROVE  /\ SubSeq(<<a, b>>, 1, 0) = <<>>
           /\ SubSeq(<<a, b>>, 1, 1) = <<a>>
           /\ SubSeq(<<a, b>>, 1, 2) = <<a, b>>
<1> DEFINE s == <<a, b>>
<1>1. s[1] = a /\ s[2] = b
  OBVIOUS
<1> HIDE DEF s
<1>2. SubSeq(s, 1, 0) = <<>> /\ SubSeq(s, 1, 1) = <<s[1]>>
  BY SubSeqEmpty, CutOne
<1>3. 1 + 1 = 2 /\ SubSeq(s, 1, 1 + 1) = <<s[1], s[1 + 1]>>
  BY CutTwo
<1>4. SubSeq(s, 1, 2) = <<s[1], s[2]>>
  BY <1>3
<1> QED  BY <1>1, <1>2, <1>4 DEF s

LEMMA TableEntries ==
    /\ Indices["vfo"] = 2 /\ Indices["if"] = 2 /\ Indices["rx_channel_enable"] = 2
    /\ Indices["dds"] = 1 /\ Indices["modulation"] = 1 /\ Indices["rx_filter_band"] = 1
    /\ Indices["iq_samplerate"] = 0
    /\ SetterOf["vfo"] = "Vfo" /\ SetterOf["if"] = "If"
    /\ SetterOf["rx_channel_enable"] = "RxChannelEnable" /\ SetterOf["dds"] = "Dds"
    /\ SetterOf["modulation"] = "Modulation" /\ SetterOf["rx_filter_band"] = "RxFilterBand"
    /\ SetterOf["iq_samplerate"] = "IqSamplerate"
    /\ DOMAIN SetterOf = Names
BY DEF Indices, SetterOf, Names

LEMMA Formatted ==
    /\ \A n, a, b, f : format_msg(n, "Vfo", <<a, b, f>>) = Line(n, <<Num(a), Num(b), Num(f)>>)
    /\ \A n, a, b, f : format_msg(n, "If", <<a, b, f>>) = Line(n, <<Num(a), Num(b), Num(f)>>)
    /\ \A n, a, b, f : format_msg(n, "RxChannelEnable", <<a, b, f>>)
                          = Line(n, <<Num(a), Num(b), Word(IF f THEN "true" ELSE "false")>>)
    /\ \A n, a, f : format_msg(n, "Dds", <<a, f>>) = Line(n, <<Num(a), Num(f)>>)
    /\ \A n, a, f : format_msg(n, "Modulation", <<a, f>>) = Line(n, <<Num(a), f>>)
    /\ \A n, a, f, g : format_msg(n, "RxFilterBand", <<a, f, g>>)
                          = Line(n, <<Num(a), Num(f), Num(g)>>)
    /\ \A n, f : format_msg(n, "IqSamplerate", <<f>>) = Line(n, <<Num(f)>>)
<1> USE TypesOfSetters DEF format_msg
<1>1. /\ \A v : Text(v, "u32") = Num(v) /\ Text(v, "u64") = Num(v)
      /\ \A v : Text(v, "i32") = Num(v) /\ Text(v, "i64") = Num(v)
      /\ \A v : Text(v, "str") = v /\ Text(v, "bool") = Word(IF v THEN "true" ELSE "false")
  BY DEF Text
<1>2. \A n, a, b, f : format_msg(n, "Vfo", <<a, b, f>>) = Line(n, <<Num(a), Num(b), Num(f)>>)
  BY <1>1
<1>3. \A n, a, b, f : format_msg(n, "If", <<a, b, f>>) = Line(n, <<Num(a), Num(b), Num(f)>>)
  BY <1>1
<1>4. \A n, a, b, f : format_msg(n, "RxChannelEnable", <<a, b, f>>)
                          = Line(n, <<Num(a), Num(b), Word(IF f THEN "true" ELSE "false")>>)
  BY <1>1
<1>5. \A n, a, f : format_msg(n, "Dds", <<a, f>>) = Line(n, <<Num(a), Num(f)>>)
  BY <1>1
<1>6. \A n, a, f : format_msg(n, "Modulation", <<a, f>>) = Line(n, <<Num(a), f>>)
  BY <1>1
<1>7. \A n, a, f, g : format_msg(n, "RxFilterBand", <<a, f, g>>)
                          = Line(n, <<Num(a), Num(f), Num(g)>>)
  BY <1>1
<1>8. \A n, f : format_msg(n, "IqSamplerate", <<f>>) = Line(n, <<Num(f)>>)
  BY <1>1
<1> QED  BY <1>2, <1>3, <1>4, <1>5, <1>6, <1>7, <1>8

\* A line without an arm that fits is an error, or a command nobody handles.
LEMMA ParsedByArm ==
    ASSUME NEW line, parse_command(line).cmd \notin {"NoTerminator", "BadArgCount", "BadArg", "Other"}
    PROVE  \E a \in ArmsFor(to_ascii_uppercase(line.name), Len(line.args)) :
              /\ \A i \in DOMAIN a.types : Fits(line.args[i], a.types[i])
              /\ a \in StrictArms => Len(line.args) = Len(a.types)
              /\ parse_command(line) =
                    Ok(a.cmd, [i \in DOMAIN a.types |-> Parsed(line.args[i], a.types[i])])
<1> DEFINE arms == ArmsFor(to_ascii_uppercase(line.name), Len(line.args))
           C == {Typed(a, line.args) : a \in arms}
<1>1. \A x : Err(x).cmd = x
  BY DEF Err
<1>2. Ok("Other", line.args).cmd = "Other"
  BY DEF Ok
<1> HIDE DEF arms
<1>3. line.end /\ arms # {} /\ parse_command(line) = CHOOSE c \in C : TRUE
  BY <1>1, <1>2 DEF parse_command, arms
<1>4. parse_command(line) \in C
  BY <1>3
<1>5. PICK a \in arms : parse_command(line) = Typed(a, line.args)
  BY <1>4
<1>6. /\ ~(a \in StrictArms /\ Len(line.args) # Len(a.types))
      /\ \A i \in DOMAIN a.types : Fits(line.args[i], a.types[i])
      /\ parse_command(line) = Ok(a.cmd, [i \in DOMAIN a.types |-> Parsed(line.args[i], a.types[i])])
  BY <1>1, <1>5 DEF Typed
<1> QED  BY <1>6 DEF arms

LEMMA FittingArgs ==
    /\ \A g : Fits(g, "u32") => Parsed(g, "u32") \in U32
    /\ \A g : Fits(g, "u64") => Parsed(g, "u64") \in U64
    /\ \A g : Fits(g, "i32") => Parsed(g, "i32") \in I32
    /\ \A g : Fits(g, "i64") => Parsed(g, "i64") \in I64
    /\ \A g : Parsed(g, "bool") \in BOOLEAN
BY DEF Fits, Parsed, Width

\* A setter that is understood has indices and a value of its parameter.
LEMMA SetterParsed ==
    ASSUME NEW line, NEW c, c = parse_command(line)
    PROVE  /\ c.cmd = "Vfo" => \E a, b \in U32, f \in U64 : c.args = <<a, b, f>>
           /\ c.cmd = "If" => \E a, b \in U32, f \in I64 : c.args = <<a, b, f>>
           /\ c.cmd = "RxChannelEnable" => \E a, b \in U32, f \in BOOLEAN : c.args = <<a, b, f>>
           /\ c.cmd = "Dds" => \E a \in U32, f \in U64 : c.args = <<a, f>>
           /\ c.cmd = "Modulation" => \E a \in U32 : \E f : c.args = <<a, f>>
           /\ c.cmd = "RxFilterBand" => \E a \in U32, f, g \in I32 : c.args = <<a, f, g>>
           /\ c.cmd = "IqSamplerate" => \E f \in U32 : c.args = <<f>>
<1> DEFINE Setters == {"Vfo", "If", "RxChannelEnable", "Dds", "Modulation", "RxFilterBand",
                       "IqSamplerate"}
<1> SUFFICES ASSUME c.cmd \in Setters
             PROVE  /\ c.cmd = "Vfo" => \E a, b \in U32, f \in U64 : c.args = <<a, b, f>>
                    /\ c.cmd = "If" => \E a, b \in U32, f \in I64 : c.args = <<a, b, f>>
                    /\ c.cmd = "RxChannelEnable" =>
                         \E a, b \in U32, f \in BOOLEAN : c.args = <<a, b, f>>
                    /\ c.cmd = "Dds" => \E a \in U32, f \in U64 : c.args = <<a, f>>
                    /\ c.cmd = "Modulation" => \E a \in U32 : \E f : c.args = <<a, f>>
                    /\ c.cmd = "RxFilterBand" => \E a \in U32, f, g \in I32 : c.args = <<a, f, g>>
                    /\ c.cmd = "IqSamplerate" => \E f \in U32 : c.args = <<f>>
  OBVIOUS
<1>1. PICK a \in ArmsFor(to_ascii_uppercase(line.name), Len(line.args)) :
         /\ \A i \in DOMAIN a.types : Fits(line.args[i], a.types[i])
         /\ c = Ok(a.cmd, [i \in DOMAIN a.types |-> Parsed(line.args[i], a.types[i])])
  BY ParsedByArm
<1>2. c.cmd = a.cmd /\ c.args = [i \in DOMAIN a.types |-> Parsed(line.args[i], a.types[i])]
  BY <1>1 DEF Ok
<1>3. a \in ParamArms \cup StrictArms
  BY <1>1, <1>2 DEF ArmsFor, OpenArms, Arm
<1>4. /\ a.cmd = "Vfo" => a.types = <<"u32", "u32", "u64">>
      /\ a.cmd = "If" => a.types = <<"u32", "u32", "i64">>
      /\ a.cmd = "RxChannelEnable" => a.types = <<"u32", "u32", "bool">>
      /\ a.cmd = "Dds" => a.types = <<"u32", "u64">>
      /\ a.cmd = "Modulation" => a.types = <<"u32", "str">>
      /\ a.cmd = "RxFilterBand" => a.types = <<"u32", "i32", "i32">>
      /\ a.cmd = "IqSamplerate" => a.types = <<"u32">>
  BY <1>3 DEF ParamArms, StrictArms, Arm
<1>5. ASSUME NEW s, NEW t, NEW u, a.types = <<s, t, u>>
      PROVE  /\ c.args = <<Parsed(line.args[1], s), Parsed(line.args[2], t), Parsed(line.args[3], u)>>
             /\ Fits(line.args[1], s) /\ Fits(line.args[2], t) /\ Fits(line.args[3], u)
  BY <1>1, <1>2, <1>5
<1>6. ASSUME NEW s, NEW t, a.types = <<s, t>>
      PROVE  /\ c.args = <<Parsed(line.args[1], s), Parsed(line.args[2], t)>>
             /\ Fits(line.args[1], s) /\ Fits(line.args[2], t)
  BY <1>1, <1>2, <1>6
<1>7. ASSUME NEW s, a.types = <<s>>
      PROVE  c.args = <<Parsed(line.args[1], s)>> /\ Fits(line.args[1], s)
  BY <1>1, <1>2, <1>7
<1>8. CASE c.cmd = "Vfo"
  BY <1>2, <1>4, <1>5, <1>8, FittingArgs
<1>9. CASE c.cmd = "If"
  BY <1>2, <1>4, <1>5, <1>9, FittingArgs
<1>10. CASE c.cmd = "RxChannelEnable"
  BY <1>2, <1>4, <1>5, <1>10, FittingArgs
<1>11. CASE c.cmd = "Dds"
  BY <1>2, <1>4, <1>6, <1>11, FittingArgs
<1>12. CASE c.cmd = "Modulation"
  <2>1. a.types = <<"u32", "str">>
    BY <1>2, <1>4, <1>12
  <2>2. /\ c.args = <<Parsed(line.args[1], "u32"), Parsed(line.args[2], "str")>>
        /\ Fits(line.args[1], "u32")
    BY <1>6, <2>1
  <2>3. Parsed(line.args[1], "u32") \in U32
    BY <2>2, FittingArgs
  <2>4. \E x \in U32 : \E f : c.args = <<x, f>>
    BY <2>2, <2>3
  <2> QED  BY <1>12, <2>4
<1>13. CASE c.cmd = "RxFilterBand"
  BY <1>2, <1>4, <1>5, <1>13, FittingArgs
<1>14. CASE c.cmd = "IqSamplerate"
  BY <1>2, <1>4, <1>7, <1>14, FittingArgs
<1> QED  BY <1>8, <1>9, <1>10, <1>11, <1>12, <1>13, <1>14

\* The one arm that reads the line of a setter.
LEMMA SetterArms ==
    /\ ArmsFor("VFO", 3) = {Arm("VFO", "Vfo", <<"u32", "u32", "u64">>)}
    /\ ArmsFor("IF", 3) = {Arm("IF", "If", <<"u32", "u32", "i64">>)}
    /\ ArmsFor("RX_CHANNEL_ENABLE", 3) =
         {Arm("RX_CHANNEL_ENABLE", "RxChannelEnable", <<"u32", "u32", "bool">>)}
    /\ ArmsFor("DDS", 2) = {Arm("DDS", "Dds", <<"u32", "u64">>)}
    /\ ArmsFor("MODULATION", 2) = {Arm("MODULATION", "Modulation", <<"u32", "str">>)}
    /\ ArmsFor("RX_FILTER_BAND", 3) =
         {Arm("RX_FILTER_BAND", "RxFilterBand", <<"u32", "i32", "i32">>)}
    /\ ArmsFor("IQ_SAMPLERATE", 1) = {Arm("IQ_SAMPLERATE", "IqSamplerate", <<"u32">>)}
<1>0. \A n : \A a \in OpenArms(n) :
         a.name \in {"SPOT_CLEAR", "CW_MACROS_STOP", "START", "STOP", "RX_SENSORS_ENABLE", "CW_MACROS"}
  BY DEF OpenArms, Arm
<1>1. ArmsFor("VFO", 3) = {Arm("VFO", "Vfo", <<"u32", "u32", "u64">>)}
  BY <1>0 DEF ArmsFor, ParamArms, StrictArms, Arm
<1>2. ArmsFor("IF", 3) = {Arm("IF", "If", <<"u32", "u32", "i64">>)}
  BY <1>0 DEF ArmsFor, ParamArms, StrictArms, Arm
<1>3. ArmsFor("RX_CHANNEL_ENABLE", 3) =
         {Arm("RX_CHANNEL_ENABLE", "RxChannelEnable", <<"u32", "u32", "bool">>)}
  BY <1>0 DEF ArmsFor, ParamArms, StrictArms, Arm
<1>4. ArmsFor("DDS", 2) = {Arm("DDS", "Dds", <<"u32", "u64">>)}
  BY <1>0 DEF ArmsFor, ParamArms, StrictArms, Arm
<1>5. ArmsFor("MODULATION", 2) = {Arm("MODULATION", "Modulation", <<"u32", "str">>)}
  BY <1>0 DEF ArmsFor, ParamArms, StrictArms, Arm
<1>6. ArmsFor("RX_FILTER_BAND", 3) =
         {Arm("RX_FILTER_BAND", "RxFilterBand", <<"u32", "i32", "i32">>)}
  BY <1>0 DEF ArmsFor, ParamArms, StrictArms, Arm
<1>7. ArmsFor("IQ_SAMPLERATE", 1) = {Arm("IQ_SAMPLERATE", "IqSamplerate", <<"u32">>)}
  BY <1>0 DEF ArmsFor, ParamArms, StrictArms, Arm
<1> QED  BY <1>1, <1>2, <1>3, <1>4, <1>5, <1>6, <1>7

LEMMA UpperCaseNames ==
    /\ to_ascii_uppercase("vfo") = "VFO" /\ to_ascii_uppercase("if") = "IF"
    /\ to_ascii_uppercase("rx_channel_enable") = "RX_CHANNEL_ENABLE"
    /\ to_ascii_uppercase("dds") = "DDS" /\ to_ascii_uppercase("modulation") = "MODULATION"
    /\ to_ascii_uppercase("rx_filter_band") = "RX_FILTER_BAND"
    /\ to_ascii_uppercase("iq_samplerate") = "IQ_SAMPLERATE"
BY DEF to_ascii_uppercase, LowerCase

LEMMA FittingText ==
    /\ \A v \in U32 : Fits(Num(v), "u32")
    /\ \A v \in U64 : Fits(Num(v), "u64")
    /\ \A v \in I32 : Fits(Num(v), "i32")
    /\ \A v \in I64 : Fits(Num(v), "i64")
    /\ \A v : Parsed(Num(v), "u32") = v /\ Parsed(Num(v), "u64") = v
    /\ \A v : Parsed(Num(v), "i32") = v /\ Parsed(Num(v), "i64") = v
    /\ \A v \in BOOLEAN : LET w == Word(IF v THEN "true" ELSE "false")
                          IN  Fits(w, "bool") /\ Parsed(w, "bool") = v
    /\ \A v : Fits(v, "str") /\ Parsed(v, "str") = v
BY DEF Fits, Parsed, Width, Num, Word

\* With one arm, that arm decides.
LEMMA ParsedByOne ==
    ASSUME NEW n, NEW args, NEW a, ArmsFor(to_ascii_uppercase(n), Len(args)) = {a},
           Len(args) = Len(a.types), \A i \in DOMAIN a.types : Fits(args[i], a.types[i])
    PROVE  parse_command(Line(n, args)) =
              Ok(a.cmd, [i \in DOMAIN a.types |-> Parsed(args[i], a.types[i])])
<1>1. Line(n, args).name = n /\ Line(n, args).args = args /\ Line(n, args).end
  BY DEF Line
<1>2. Typed(a, args) = Ok(a.cmd, [i \in DOMAIN a.types |-> Parsed(args[i], a.types[i])])
  BY DEF Typed
<1>3. parse_command(Line(n, args)) = CHOOSE c \in {Typed(a, args)} : TRUE
  BY <1>1 DEF parse_command
<1> QED  BY <1>2, <1>3

\* What a server reports, a client reads back.
LEMMA ReportedParsed ==
    /\ \A a, b \in U32, f \in U64 :
         parse_command(Line("vfo", <<Num(a), Num(b), Num(f)>>)) = Ok("Vfo", <<a, b, f>>)
    /\ \A a, b \in U32, f \in I64 :
         parse_command(Line("if", <<Num(a), Num(b), Num(f)>>)) = Ok("If", <<a, b, f>>)
    /\ \A a, b \in U32, f \in BOOLEAN :
         parse_command(Line("rx_channel_enable",
                            <<Num(a), Num(b), Word(IF f THEN "true" ELSE "false")>>))
            = Ok("RxChannelEnable", <<a, b, f>>)
    /\ \A a \in U32, f \in U64 :
         parse_command(Line("dds", <<Num(a), Num(f)>>)) = Ok("Dds", <<a, f>>)
    /\ \A a \in U32 : \A f :
         parse_command(Line("modulation", <<Num(a), f>>)) = Ok("Modulation", <<a, f>>)
    /\ \A a \in U32, f, g \in I32 :
         parse_command(Line("rx_filter_band", <<Num(a), Num(f), Num(g)>>))
            = Ok("RxFilterBand", <<a, f, g>>)
    /\ \A f \in U32 :
         parse_command(Line("iq_samplerate", <<Num(f)>>)) = Ok("IqSamplerate", <<f>>)
<1>3. ASSUME NEW n, NEW a, ArmsFor(to_ascii_uppercase(n), 3) = {a},
             Len(a.types) = 3, DOMAIN a.types = 1 .. 3, NEW x, NEW y, NEW z,
             Fits(x, a.types[1]), Fits(y, a.types[2]), Fits(z, a.types[3])
      PROVE  parse_command(Line(n, <<x, y, z>>)) =
                Ok(a.cmd, <<Parsed(x, a.types[1]), Parsed(y, a.types[2]), Parsed(z, a.types[3])>>)
  <2> DEFINE args == <<x, y, z>>
  <2>1. Len(args) = Len(a.types) /\ \A i \in DOMAIN a.types : Fits(args[i], a.types[i])
    BY <1>3
  <2>2. [i \in DOMAIN a.types |-> Parsed(args[i], a.types[i])] =
           <<Parsed(x, a.types[1]), Parsed(y, a.types[2]), Parsed(z, a.types[3])>>
    BY <1>3
  <2>3. ArmsFor(to_ascii_uppercase(n), Len(args)) = {a}
    BY <1>3
  <2> HIDE DEF args
  <2>4. parse_command(Line(n, args)) =
           Ok(a.cmd, [i \in DOMAIN a.types |-> Parsed(args[i], a.types[i])])
    BY <2>1, <2>3, ParsedByOne
  <2> QED  BY <2>2, <2>4 DEF args
<1>2. ASSUME NEW n, NEW a, ArmsFor(to_ascii_uppercase(n), 2) = {a},
             Len(a.types) = 2, DOMAIN a.types = 1 .. 2, NEW x, NEW y,
             Fits(x, a.types[1]), Fits(y, a.types[2])
      PROVE  parse_command(Line(n, <<x, y>>)) =
                Ok(a.cmd, <<Parsed(x, a.types[1]), Parsed(y, a.types[2])>>)
  <2> DEFINE args == <<x, y>>
  <2>1. Len(args) = Len(a.types) /\ \A i \in DOMAIN a.types : Fits(args[i], a.types[i])
    BY <1>2
  <2>2. [i \in DOMAIN a.types |-> Parsed(args[i], a.types[i])] =
           <<Parsed(x, a.types[1]), Parsed(y, a.types[2])>>
    BY <1>2
  <2>3. ArmsFor(to_ascii_uppercase(n), Len(args)) = {a}
    BY <1>2
  <2> HIDE DEF args
  <2>4. parse_command(Line(n, args)) =
           Ok(a.cmd, [i \in DOMAIN a.types |-> Parsed(args[i], a.types[i])])
    BY <2>1, <2>3, ParsedByOne
  <2> QED  BY <2>2, <2>4 DEF args
<1>1. ASSUME NEW n, NEW a, ArmsFor(to_ascii_uppercase(n), 1) = {a},
             Len(a.types) = 1, DOMAIN a.types = 1 .. 1, NEW x,
             Fits(x, a.types[1])
      PROVE  parse_command(Line(n, <<x>>)) =
                Ok(a.cmd, <<Parsed(x, a.types[1])>>)
  <2> DEFINE args == <<x>>
  <2>1. Len(args) = Len(a.types) /\ \A i \in DOMAIN a.types : Fits(args[i], a.types[i])
    BY <1>1
  <2>2. [i \in DOMAIN a.types |-> Parsed(args[i], a.types[i])] =
           <<Parsed(x, a.types[1])>>
    BY <1>1
  <2>3. ArmsFor(to_ascii_uppercase(n), Len(args)) = {a}
    BY <1>1
  <2> HIDE DEF args
  <2>4. parse_command(Line(n, args)) =
           Ok(a.cmd, [i \in DOMAIN a.types |-> Parsed(args[i], a.types[i])])
    BY <2>1, <2>3, ParsedByOne
  <2> QED  BY <2>2, <2>4 DEF args
<1>4. ASSUME NEW a \in U32, NEW b \in U32, NEW f \in U64
      PROVE  parse_command(Line("vfo", <<Num(a), Num(b), Num(f)>>)) =
                Ok("Vfo", <<a, b, f>>)
  <2> DEFINE r == Arm("VFO", "Vfo", <<"u32", "u32", "u64">>)
  <2>1. r.cmd = "Vfo" /\ r.types = <<"u32", "u32", "u64">>
    BY DEF Arm
  <2>2. ArmsFor(to_ascii_uppercase("vfo"), 3) = {r}
    BY UpperCaseNames, SetterArms
  <2> HIDE DEF r
  <2>3. /\ Len(r.types) = 3 /\ DOMAIN r.types = 1 .. 3
        /\ r.types[1] = "u32" /\ r.types[2] = "u32" /\ r.types[3] = "u64"
    BY <2>1
  <2>4. \A x, y, z : Fits(x, "u32") /\ Fits(y, "u32") /\ Fits(z, "u64")
           => parse_command(Line("vfo", <<x, y, z>>)) =
                Ok("Vfo", <<Parsed(x, "u32"), Parsed(y, "u32"), Parsed(z, "u64")>>)
    BY <1>3, <2>1, <2>2, <2>3
  <2>5. /\ Fits(Num(a), "u32") /\ Parsed(Num(a), "u32") = a
        /\ Fits(Num(b), "u32") /\ Parsed(Num(b), "u32") = b
        /\ Fits(Num(f), "u64") /\ Parsed(Num(f), "u64") = f
    BY FittingText
  <2> QED  BY <2>4, <2>5
<1>5. ASSUME NEW a \in U32, NEW b \in U32, NEW f \in I64
      PROVE  parse_command(Line("if", <<Num(a), Num(b), Num(f)>>)) =
                Ok("If", <<a, b, f>>)
  <2> DEFINE r == Arm("IF", "If", <<"u32", "u32", "i64">>)
  <2>1. r.cmd = "If" /\ r.types = <<"u32", "u32", "i64">>
    BY DEF Arm
  <2>2. ArmsFor(to_ascii_uppercase("if"), 3) = {r}
    BY UpperCaseNames, SetterArms
  <2> HIDE DEF r
  <2>3. /\ Len(r.types) = 3 /\ DOMAIN r.types = 1 .. 3
        /\ r.types[1] = "u32" /\ r.types[2] = "u32" /\ r.types[3] = "i64"
    BY <2>1
  <2>4. \A x, y, z : Fits(x, "u32") /\ Fits(y, "u32") /\ Fits(z, "i64")
           => parse_command(Line("if", <<x, y, z>>)) =
                Ok("If", <<Parsed(x, "u32"), Parsed(y, "u32"), Parsed(z, "i64")>>)
    BY <1>3, <2>1, <2>2, <2>3
  <2>5. /\ Fits(Num(a), "u32") /\ Parsed(Num(a), "u32") = a
        /\ Fits(Num(b), "u32") /\ Parsed(Num(b), "u32") = b
        /\ Fits(Num(f), "i64") /\ Parsed(Num(f), "i64") = f
    BY FittingText
  <2> QED  BY <2>4, <2>5
<1>6. ASSUME NEW a \in U32, NEW b \in U32, NEW f \in BOOLEAN
      PROVE  parse_command(Line("rx_channel_enable", <<Num(a), Num(b), Word(IF f THEN "true" ELSE "false")>>)) =
                Ok("RxChannelEnable", <<a, b, f>>)
  <2> DEFINE r == Arm("RX_CHANNEL_ENABLE", "RxChannelEnable", <<"u32", "u32", "bool">>)
  <2>1. r.cmd = "RxChannelEnable" /\ r.types = <<"u32", "u32", "bool">>
    BY DEF Arm
  <2>2. ArmsFor(to_ascii_uppercase("rx_channel_enable"), 3) = {r}
    BY UpperCaseNames, SetterArms
  <2> HIDE DEF r
  <2>3. /\ Len(r.types) = 3 /\ DOMAIN r.types = 1 .. 3
        /\ r.types[1] = "u32" /\ r.types[2] = "u32" /\ r.types[3] = "bool"
    BY <2>1
  <2>4. \A x, y, z : Fits(x, "u32") /\ Fits(y, "u32") /\ Fits(z, "bool")
           => parse_command(Line("rx_channel_enable", <<x, y, z>>)) =
                Ok("RxChannelEnable", <<Parsed(x, "u32"), Parsed(y, "u32"), Parsed(z, "bool")>>)
    BY <1>3, <2>1, <2>2, <2>3
  <2>5. /\ Fits(Num(a), "u32") /\ Parsed(Num(a), "u32") = a
        /\ Fits(Num(b), "u32") /\ Parsed(Num(b), "u32") = b
        /\ Fits(Word(IF f THEN "true" ELSE "false"), "bool") /\ Parsed(Word(IF f THEN "true" ELSE "false"), "bool") = f
    BY FittingText
  <2> QED  BY <2>4, <2>5
<1>7. ASSUME NEW a \in U32, NEW f \in U64
      PROVE  parse_command(Line("dds", <<Num(a), Num(f)>>)) =
                Ok("Dds", <<a, f>>)
  <2> DEFINE r == Arm("DDS", "Dds", <<"u32", "u64">>)
  <2>1. r.cmd = "Dds" /\ r.types = <<"u32", "u64">>
    BY DEF Arm
  <2>2. ArmsFor(to_ascii_uppercase("dds"), 2) = {r}
    BY UpperCaseNames, SetterArms
  <2> HIDE DEF r
  <2>3. /\ Len(r.types) = 2 /\ DOMAIN r.types = 1 .. 2
        /\ r.types[1] = "u32" /\ r.types[2] = "u64"
    BY <2>1
  <2>4. \A x, y : Fits(x, "u32") /\ Fits(y, "u64")
           => parse_command(Line("dds", <<x, y>>)) =
                Ok("Dds", <<Parsed(x, "u32"), Parsed(y, "u64")>>)
    BY <1>2, <2>1, <2>2, <2>3
  <2>5. /\ Fits(Num(a), "u32") /\ Parsed(Num(a), "u32") = a
        /\ Fits(Num(f), "u64") /\ Parsed(Num(f), "u64") = f
    BY FittingText
  <2> QED  BY <2>4, <2>5
<1>8. ASSUME NEW a \in U32, NEW f
      PROVE  parse_command(Line("modulation", <<Num(a), f>>)) =
                Ok("Modulation", <<a, f>>)
  <2> DEFINE r == Arm("MODULATION", "Modulation", <<"u32", "str">>)
  <2>1. r.cmd = "Modulation" /\ r.types = <<"u32", "str">>
    BY DEF Arm
  <2>2. ArmsFor(to_ascii_uppercase("modulation"), 2) = {r}
    BY UpperCaseNames, SetterArms
  <2> HIDE DEF r
  <2>3. /\ Len(r.types) = 2 /\ DOMAIN r.types = 1 .. 2
        /\ r.types[1] = "u32" /\ r.types[2] = "str"
    BY <2>1
  <2>4. \A x, y : Fits(x, "u32") /\ Fits(y, "str")
           => parse_command(Line("modulation", <<x, y>>)) =
                Ok("Modulation", <<Parsed(x, "u32"), Parsed(y, "str")>>)
    BY <1>2, <2>1, <2>2, <2>3
  <2>5. /\ Fits(Num(a), "u32") /\ Parsed(Num(a), "u32") = a
        /\ Fits(f, "str") /\ Parsed(f, "str") = f
    BY FittingText
  <2> QED  BY <2>4, <2>5
<1>9. ASSUME NEW a \in U32, NEW f \in I32, NEW g \in I32
      PROVE  parse_command(Line("rx_filter_band", <<Num(a), Num(f), Num(g)>>)) =
                Ok("RxFilterBand", <<a, f, g>>)
  <2> DEFINE r == Arm("RX_FILTER_BAND", "RxFilterBand", <<"u32", "i32", "i32">>)
  <2>1. r.cmd = "RxFilterBand" /\ r.types = <<"u32", "i32", "i32">>
    BY DEF Arm
  <2>2. ArmsFor(to_ascii_uppercase("rx_filter_band"), 3) = {r}
    BY UpperCaseNames, SetterArms
  <2> HIDE DEF r
  <2>3. /\ Len(r.types) = 3 /\ DOMAIN r.types = 1 .. 3
        /\ r.types[1] = "u32" /\ r.types[2] = "i32" /\ r.types[3] = "i32"
    BY <2>1
  <2>4. \A x, y, z : Fits(x, "u32") /\ Fits(y, "i32") /\ Fits(z, "i32")
           => parse_command(Line("rx_filter_band", <<x, y, z>>)) =
                Ok("RxFilterBand", <<Parsed(x, "u32"), Parsed(y, "i32"), Parsed(z, "i32")>>)
    BY <1>3, <2>1, <2>2, <2>3
  <2>5. /\ Fits(Num(a), "u32") /\ Parsed(Num(a), "u32") = a
        /\ Fits(Num(f), "i32") /\ Parsed(Num(f), "i32") = f
        /\ Fits(Num(g), "i32") /\ Parsed(Num(g), "i32") = g
    BY FittingText
  <2> QED  BY <2>4, <2>5
<1>10. ASSUME NEW f \in U32
      PROVE  parse_command(Line("iq_samplerate", <<Num(f)>>)) =
                Ok("IqSamplerate", <<f>>)
  <2> DEFINE r == Arm("IQ_SAMPLERATE", "IqSamplerate", <<"u32">>)
  <2>1. r.cmd = "IqSamplerate" /\ r.types = <<"u32">>
    BY DEF Arm
  <2>2. ArmsFor(to_ascii_uppercase("iq_samplerate"), 1) = {r}
    BY UpperCaseNames, SetterArms
  <2> HIDE DEF r
  <2>3. /\ Len(r.types) = 1 /\ DOMAIN r.types = 1 .. 1
        /\ r.types[1] = "u32"
    BY <2>1
  <2>4. \A x : Fits(x, "u32")
           => parse_command(Line("iq_samplerate", <<x>>)) =
                Ok("IqSamplerate", <<Parsed(x, "u32")>>)
    BY <1>1, <2>1, <2>2, <2>3
  <2>5. /\ Fits(Num(f), "u32") /\ Parsed(Num(f), "u32") = f
    BY FittingText
  <2> QED  BY <2>4, <2>5
<1> QED  BY <1>4, <1>5, <1>6, <1>7, <1>8, <1>9, <1>10

-----------------------------------------------------------------------------
(* Parameters. *)

LEMMA ParamShape ==
    ASSUME NEW e \in Endpoint, NEW p \in Param[e]
    PROVE  /\ p = <<p[1], p[2], p[3]>> /\ p[1] \in Names
           /\ p[2] \in U32 /\ p[3] \in U32 /\ p[3] \in {0, 1}
           /\ Indices[p[1]] \in 0 .. 2
           /\ Indices[p[1]] < 2 => p[3] = 0
           /\ Indices[p[1]] < 1 => p[2] = 0
           /\ p[2] # 0 => p[2] \in Trx(e)
<1>1. /\ Trx(e) \subseteq U32 /\ 0 \in U32 /\ 1 \in U32
  BY ServerAssumption
<1> QED  BY <1>1, TableEntries DEF Param, Names

LEMMA ReportArgs ==
    ASSUME NEW p
    PROVE  /\ Indices[p[1]] = 2 => \A f :
                Report(p, <<f>>) = format_msg(p[1], SetterOf[p[1]], <<p[2], p[3], f>>)
           /\ Indices[p[1]] = 1 => \A f :
                Report(p, <<f>>) = format_msg(p[1], SetterOf[p[1]], <<p[2], f>>)
           /\ Indices[p[1]] = 1 => \A f, g :
                Report(p, <<f, g>>) = format_msg(p[1], SetterOf[p[1]], <<p[2], f, g>>)
           /\ Indices[p[1]] = 0 => \A f :
                Report(p, <<f>>) = format_msg(p[1], SetterOf[p[1]], <<f>>)
<1> DEFINE index == SubSeq(<<p[2], p[3]>>, 1, Indices[p[1]])
           F(args) == format_msg(p[1], SetterOf[p[1]], args)
<1>1. \A v : Report(p, v) = F(index \o v)
  BY DEF Report
<1>2. /\ Indices[p[1]] = 2 => index = <<p[2], p[3]>>
      /\ Indices[p[1]] = 1 => index = <<p[2]>>
      /\ Indices[p[1]] = 0 => index = <<>>
  BY IndexPrefix
<1> HIDE DEF index, F
<1>3. ASSUME Indices[p[1]] = 2, NEW f PROVE Report(p, <<f>>) = F(<<p[2], p[3], f>>)
  <2>1. index = <<p[2], p[3]>>
    BY <1>2, <1>3
  <2>2. index \o <<f>> = <<p[2], p[3], f>>
    BY <2>1, Joined
  <2> QED  BY <1>1, <2>2
<1>4. ASSUME Indices[p[1]] = 1, NEW f PROVE Report(p, <<f>>) = F(<<p[2], f>>)
  <2>1. index = <<p[2]>>
    BY <1>2, <1>4
  <2>2. index \o <<f>> = <<p[2], f>>
    BY <2>1, Joined
  <2> QED  BY <1>1, <2>2
<1>5. ASSUME Indices[p[1]] = 1, NEW f, NEW g PROVE Report(p, <<f, g>>) = F(<<p[2], f, g>>)
  <2>1. index = <<p[2]>>
    BY <1>2, <1>5
  <2>2. index \o <<f, g>> = <<p[2], f, g>>
    BY <2>1, Joined
  <2> QED  BY <1>1, <2>2
<1>6. ASSUME Indices[p[1]] = 0, NEW f PROVE Report(p, <<f>>) = F(<<f>>)
  <2>1. index = <<>>
    BY <1>2, <1>6
  <2>2. index \o <<f>> = <<f>>
    BY <2>1, Joined
  <2> QED  BY <1>1, <2>2
<1> QED  BY <1>3, <1>4, <1>5, <1>6 DEF F

\* Value v of parameter p as a line.
LEMMA ReportLine ==
    ASSUME NEW p, p = <<p[1], p[2], p[3]>>
    PROVE  /\ p[1] = "vfo" => \A f : Report(p, <<f>>) = Line("vfo", <<Num(p[2]), Num(p[3]), Num(f)>>)
           /\ p[1] = "if" => \A f : Report(p, <<f>>) = Line("if", <<Num(p[2]), Num(p[3]), Num(f)>>)
           /\ p[1] = "rx_channel_enable" => \A f :
                Report(p, <<f>>) = Line("rx_channel_enable",
                    <<Num(p[2]), Num(p[3]), Word(IF f THEN "true" ELSE "false")>>)
           /\ p[1] = "dds" => \A f : Report(p, <<f>>) = Line("dds", <<Num(p[2]), Num(f)>>)
           /\ p[1] = "modulation" => \A f : Report(p, <<f>>) = Line("modulation", <<Num(p[2]), f>>)
           /\ p[1] = "rx_filter_band" => \A f, g :
                Report(p, <<f, g>>) = Line("rx_filter_band", <<Num(p[2]), Num(f), Num(g)>>)
           /\ p[1] = "iq_samplerate" => \A f : Report(p, <<f>>) = Line("iq_samplerate", <<Num(f)>>)
<1>5. ASSUME p[1] = "vfo", NEW f
      PROVE  Report(p, <<f>>) = Line("vfo",
                <<Num(p[2]), Num(p[3]), Num(f)>>)
  <2>1. Indices[p[1]] = 2 /\ SetterOf[p[1]] = "Vfo"
    BY <1>5, TableEntries
  <2>2. Report(p, <<f>>) = format_msg(p[1], SetterOf[p[1]], <<p[2], p[3], f>>)
    BY <2>1, ReportArgs
  <2> QED  BY <1>5, <2>1, <2>2, Formatted
<1>6. ASSUME p[1] = "if", NEW f
      PROVE  Report(p, <<f>>) = Line("if",
                <<Num(p[2]), Num(p[3]), Num(f)>>)
  <2>1. Indices[p[1]] = 2 /\ SetterOf[p[1]] = "If"
    BY <1>6, TableEntries
  <2>2. Report(p, <<f>>) = format_msg(p[1], SetterOf[p[1]], <<p[2], p[3], f>>)
    BY <2>1, ReportArgs
  <2> QED  BY <1>6, <2>1, <2>2, Formatted
<1>7. ASSUME p[1] = "rx_channel_enable", NEW f
      PROVE  Report(p, <<f>>) = Line("rx_channel_enable",
                <<Num(p[2]), Num(p[3]), Word(IF f THEN "true" ELSE "false")>>)
  <2>1. Indices[p[1]] = 2 /\ SetterOf[p[1]] = "RxChannelEnable"
    BY <1>7, TableEntries
  <2>2. Report(p, <<f>>) = format_msg(p[1], SetterOf[p[1]], <<p[2], p[3], f>>)
    BY <2>1, ReportArgs
  <2> QED  BY <1>7, <2>1, <2>2, Formatted
<1>8. ASSUME p[1] = "dds", NEW f
      PROVE  Report(p, <<f>>) = Line("dds",
                <<Num(p[2]), Num(f)>>)
  <2>1. Indices[p[1]] = 1 /\ SetterOf[p[1]] = "Dds"
    BY <1>8, TableEntries
  <2>2. Report(p, <<f>>) = format_msg(p[1], SetterOf[p[1]], <<p[2], f>>)
    BY <2>1, ReportArgs
  <2> QED  BY <1>8, <2>1, <2>2, Formatted
<1>9. ASSUME p[1] = "modulation", NEW f
      PROVE  Report(p, <<f>>) = Line("modulation",
                <<Num(p[2]), f>>)
  <2>1. Indices[p[1]] = 1 /\ SetterOf[p[1]] = "Modulation"
    BY <1>9, TableEntries
  <2>2. Report(p, <<f>>) = format_msg(p[1], SetterOf[p[1]], <<p[2], f>>)
    BY <2>1, ReportArgs
  <2> QED  BY <1>9, <2>1, <2>2, Formatted
<1>10. ASSUME p[1] = "rx_filter_band", NEW f, NEW g
      PROVE  Report(p, <<f, g>>) = Line("rx_filter_band",
                <<Num(p[2]), Num(f), Num(g)>>)
  <2>1. Indices[p[1]] = 1 /\ SetterOf[p[1]] = "RxFilterBand"
    BY <1>10, TableEntries
  <2>2. Report(p, <<f, g>>) = format_msg(p[1], SetterOf[p[1]], <<p[2], f, g>>)
    BY <2>1, ReportArgs
  <2> QED  BY <1>10, <2>1, <2>2, Formatted
<1>11. ASSUME p[1] = "iq_samplerate", NEW f
      PROVE  Report(p, <<f>>) = Line("iq_samplerate",
                <<Num(f)>>)
  <2>1. Indices[p[1]] = 0 /\ SetterOf[p[1]] = "IqSamplerate"
    BY <1>11, TableEntries
  <2>2. Report(p, <<f>>) = format_msg(p[1], SetterOf[p[1]], <<f>>)
    BY <2>1, ReportArgs
  <2> QED  BY <1>11, <2>1, <2>2, Formatted
<1> QED  BY <1>5, <1>6, <1>7, <1>8, <1>9, <1>10, <1>11

\* What comes after the indices.
ValueIn(p, args) == SubSeq(args, Indices[p[1]] + 1, Len(args))

LEMMA ValueSuffix ==
    /\ \A a, b, f : SubSeq(<<a, b, f>>, 3, Len(<<a, b, f>>)) = <<f>>
    /\ \A a, f : SubSeq(<<a, f>>, 2, Len(<<a, f>>)) = <<f>>
    /\ \A a, f, g : SubSeq(<<a, f, g>>, 2, Len(<<a, f, g>>)) = <<f, g>>
    /\ \A f : SubSeq(<<f>>, 1, Len(<<f>>)) = <<f>>
<1>1. \A s : SubSeq(s, 3, 3) = <<s[3]>> /\ SubSeq(s, 2, 2) = <<s[2]>> /\ SubSeq(s, 1, 1) = <<s[1]>>
  BY CutOne
<1>2. 2 + 1 = 3 /\ \A s : SubSeq(s, 2, 2 + 1) = <<s[2], s[2 + 1]>>
  BY CutTwo
<1>3. \A s : SubSeq(s, 2, 3) = <<s[2], s[3]>>
  BY <1>2
<1> QED  BY <1>1, <1>3, ShortTuples

LEMMA ValueInArgs ==
    ASSUME NEW p
    PROVE  /\ Indices[p[1]] = 2 => \A a, b, f : ValueIn(p, <<a, b, f>>) = <<f>>
           /\ Indices[p[1]] = 1 => \A a, f : ValueIn(p, <<a, f>>) = <<f>>
           /\ Indices[p[1]] = 1 => \A a, f, g : ValueIn(p, <<a, f, g>>) = <<f, g>>
           /\ Indices[p[1]] = 0 => \A f : ValueIn(p, <<f>>) = <<f>>
<1> DEFINE n == Indices[p[1]] + 1
<1>1. \A args : ValueIn(p, args) = SubSeq(args, n, Len(args))
  BY DEF ValueIn
<1>2. /\ Indices[p[1]] = 2 => n = 3
      /\ Indices[p[1]] = 1 => n = 2
      /\ Indices[p[1]] = 0 => n = 1
  OBVIOUS
<1> HIDE DEF n
<1>3. ASSUME Indices[p[1]] = 2, NEW a, NEW b, NEW f PROVE ValueIn(p, <<a, b, f>>) = <<f>>
  <2>1. ValueIn(p, <<a, b, f>>) = SubSeq(<<a, b, f>>, 3, Len(<<a, b, f>>))
    BY <1>1, <1>2, <1>3
  <2> QED  BY <2>1, ValueSuffix
<1>4. ASSUME Indices[p[1]] = 1, NEW a, NEW f PROVE ValueIn(p, <<a, f>>) = <<f>>
  <2>1. ValueIn(p, <<a, f>>) = SubSeq(<<a, f>>, 2, Len(<<a, f>>))
    BY <1>1, <1>2, <1>4
  <2> QED  BY <2>1, ValueSuffix
<1>5. ASSUME Indices[p[1]] = 1, NEW a, NEW f, NEW g PROVE ValueIn(p, <<a, f, g>>) = <<f, g>>
  <2>1. ValueIn(p, <<a, f, g>>) = SubSeq(<<a, f, g>>, 2, Len(<<a, f, g>>))
    BY <1>1, <1>2, <1>5
  <2> QED  BY <2>1, ValueSuffix
<1>6. ASSUME Indices[p[1]] = 0 PROVE \A f : ValueIn(p, <<f>>) = <<f>>
  BY <1>1, <1>2, <1>6, ValueSuffix
<1> QED  BY <1>3, <1>4, <1>5, <1>6

LEMMA IndexPrefixes ==
    /\ \A a, b, f : SubSeq(<<a, b, f>>, 1, 2) = <<a, b>>
    /\ \A a, f : SubSeq(<<a, f>>, 1, 1) = <<a>>
    /\ \A a, f, g : SubSeq(<<a, f, g>>, 1, 1) = <<a>>
    /\ \A f : SubSeq(<<f>>, 1, 0) = <<>>
<1>1. \A s : SubSeq(s, 1, 1) = <<s[1]>> /\ SubSeq(s, 1, 0) = <<>>
  BY CutOne, SubSeqEmpty
<1>2. 1 + 1 = 2 /\ \A s : SubSeq(s, 1, 1 + 1) = <<s[1], s[1 + 1]>>
  BY CutTwo
<1>3. \A s : SubSeq(s, 1, 2) = <<s[1], s[2]>>
  BY <1>2
<1> QED  BY <1>1, <1>3, ShortTuples

LEMMA ReportRead ==
    ASSUME NEW e \in Endpoint, NEW p \in Param[e], NEW v, Holds(p, v)
    PROVE  /\ parse_command(Report(p, v)).cmd = SetterOf[p[1]]
           /\ ValueIn(p, parse_command(Report(p, v)).args) = v
           /\ Report(p, v).name = p[1]
           /\ SubSeq(Report(p, v).args, 1, Indices[p[1]]) =
                 SubSeq(<<Num(p[2]), Num(p[3])>>, 1, Indices[p[1]])
<1>1. /\ p = <<p[1], p[2], p[3]>> /\ p[1] \in Names
      /\ p[2] \in U32 /\ p[3] \in U32
  BY ParamShape
<1>2. \A n, a : Line(n, a).name = n /\ Line(n, a).args = a
  BY DEF Line
<1>3. \A c, a : Ok(c, a).cmd = c /\ Ok(c, a).args = a
  BY DEF Ok
<1>5. CASE p[1] = "vfo"
  <2>1. Indices[p[1]] = 2 /\ SetterOf[p[1]] = "Vfo"
    BY <1>5, TableEntries
  <2>2. PICK f \in U64 : v = <<f>>
    BY <1>5 DEF Holds
  <2>3. Report(p, v) = Line("vfo", <<Num(p[2]), Num(p[3]), Num(f)>>)
    BY <1>1, <1>5, <2>2, ReportLine
  <2>4. parse_command(Report(p, v)) = Ok("Vfo", <<p[2], p[3], f>>)
    BY <1>1, <2>2, <2>3, ReportedParsed
  <2>5. ValueIn(p, <<p[2], p[3], f>>) = v
    BY <2>1, <2>2, ValueInArgs
  <2>6. SubSeq(<<Num(p[2]), Num(p[3]), Num(f)>>, 1, 2) =
           SubSeq(<<Num(p[2]), Num(p[3])>>, 1, 2)
    BY IndexPrefix, IndexPrefixes
  <2> QED  BY <1>2, <1>3, <1>5, <2>1, <2>3, <2>4, <2>5, <2>6
<1>6. CASE p[1] = "if"
  <2>1. Indices[p[1]] = 2 /\ SetterOf[p[1]] = "If"
    BY <1>6, TableEntries
  <2>2. PICK f \in I64 : v = <<f>>
    BY <1>6 DEF Holds
  <2>3. Report(p, v) = Line("if", <<Num(p[2]), Num(p[3]), Num(f)>>)
    BY <1>1, <1>6, <2>2, ReportLine
  <2>4. parse_command(Report(p, v)) = Ok("If", <<p[2], p[3], f>>)
    BY <1>1, <2>2, <2>3, ReportedParsed
  <2>5. ValueIn(p, <<p[2], p[3], f>>) = v
    BY <2>1, <2>2, ValueInArgs
  <2>6. SubSeq(<<Num(p[2]), Num(p[3]), Num(f)>>, 1, 2) =
           SubSeq(<<Num(p[2]), Num(p[3])>>, 1, 2)
    BY IndexPrefix, IndexPrefixes
  <2> QED  BY <1>2, <1>3, <1>6, <2>1, <2>3, <2>4, <2>5, <2>6
<1>7. CASE p[1] = "rx_channel_enable"
  <2>1. Indices[p[1]] = 2 /\ SetterOf[p[1]] = "RxChannelEnable"
    BY <1>7, TableEntries
  <2>2. PICK f \in BOOLEAN : v = <<f>>
    BY <1>7 DEF Holds
  <2>3. Report(p, v) = Line("rx_channel_enable", <<Num(p[2]), Num(p[3]), Word(IF f THEN "true" ELSE "false")>>)
    BY <1>1, <1>7, <2>2, ReportLine
  <2>4. parse_command(Report(p, v)) = Ok("RxChannelEnable", <<p[2], p[3], f>>)
    BY <1>1, <2>2, <2>3, ReportedParsed
  <2>5. ValueIn(p, <<p[2], p[3], f>>) = v
    BY <2>1, <2>2, ValueInArgs
  <2>6. SubSeq(<<Num(p[2]), Num(p[3]), Word(IF f THEN "true" ELSE "false")>>, 1, 2) =
           SubSeq(<<Num(p[2]), Num(p[3])>>, 1, 2)
    BY IndexPrefix, IndexPrefixes
  <2> QED  BY <1>2, <1>3, <1>7, <2>1, <2>3, <2>4, <2>5, <2>6
<1>8. CASE p[1] = "dds"
  <2>1. Indices[p[1]] = 1 /\ SetterOf[p[1]] = "Dds"
    BY <1>8, TableEntries
  <2>2. PICK f \in U64 : v = <<f>>
    BY <1>8 DEF Holds
  <2>3. Report(p, v) = Line("dds", <<Num(p[2]), Num(f)>>)
    BY <1>1, <1>8, <2>2, ReportLine
  <2>4. parse_command(Report(p, v)) = Ok("Dds", <<p[2], f>>)
    BY <1>1, <2>2, <2>3, ReportedParsed
  <2>5. ValueIn(p, <<p[2], f>>) = v
    BY <2>1, <2>2, ValueInArgs
  <2>6. SubSeq(<<Num(p[2]), Num(f)>>, 1, 1) =
           SubSeq(<<Num(p[2]), Num(p[3])>>, 1, 1)
    BY IndexPrefix, IndexPrefixes
  <2> QED  BY <1>2, <1>3, <1>8, <2>1, <2>3, <2>4, <2>5, <2>6
<1>9. CASE p[1] = "modulation"
  <2>1. Indices[p[1]] = 1 /\ SetterOf[p[1]] = "Modulation"
    BY <1>9, TableEntries
  <2>2. v = <<v[1]>>
    BY <1>9 DEF Holds
  <2>3. Report(p, v) = Line("modulation", <<Num(p[2]), v[1]>>)
    BY <1>1, <1>9, <2>2, ReportLine
  <2>4. parse_command(Report(p, v)) = Ok("Modulation", <<p[2], v[1]>>)
    BY <1>1, <2>2, <2>3, ReportedParsed
  <2>5. ValueIn(p, <<p[2], v[1]>>) = v
    BY <2>1, <2>2, ValueInArgs
  <2>6. SubSeq(<<Num(p[2]), v[1]>>, 1, 1) =
           SubSeq(<<Num(p[2]), Num(p[3])>>, 1, 1)
    BY IndexPrefix, IndexPrefixes
  <2> QED  BY <1>2, <1>3, <1>9, <2>1, <2>3, <2>4, <2>5, <2>6
<1>10. CASE p[1] = "rx_filter_band"
  <2>1. Indices[p[1]] = 1 /\ SetterOf[p[1]] = "RxFilterBand"
    BY <1>10, TableEntries
  <2>2. PICK f, g \in I32 : v = <<f, g>>
    BY <1>10 DEF Holds
  <2>3. Report(p, v) = Line("rx_filter_band", <<Num(p[2]), Num(f), Num(g)>>)
    BY <1>1, <1>10, <2>2, ReportLine
  <2>4. parse_command(Report(p, v)) = Ok("RxFilterBand", <<p[2], f, g>>)
    BY <1>1, <2>2, <2>3, ReportedParsed
  <2>5. ValueIn(p, <<p[2], f, g>>) = v
    BY <2>1, <2>2, ValueInArgs
  <2>6. SubSeq(<<Num(p[2]), Num(f), Num(g)>>, 1, 1) =
           SubSeq(<<Num(p[2]), Num(p[3])>>, 1, 1)
    BY IndexPrefix, IndexPrefixes
  <2> QED  BY <1>2, <1>3, <1>10, <2>1, <2>3, <2>4, <2>5, <2>6
<1>11. CASE p[1] = "iq_samplerate"
  <2>1. Indices[p[1]] = 0 /\ SetterOf[p[1]] = "IqSamplerate"
    BY <1>11, TableEntries
  <2>2. PICK f \in U32 : v = <<f>>
    BY <1>11 DEF Holds
  <2>3. Report(p, v) = Line("iq_samplerate", <<Num(f)>>)
    BY <1>1, <1>11, <2>2, ReportLine
  <2>4. parse_command(Report(p, v)) = Ok("IqSamplerate", <<f>>)
    BY <1>1, <2>2, <2>3, ReportedParsed
  <2>5. ValueIn(p, <<f>>) = v
    BY <2>1, <2>2, ValueInArgs
  <2>6. SubSeq(<<Num(f)>>, 1, 0) =
           SubSeq(<<Num(p[2]), Num(p[3])>>, 1, 0)
    BY IndexPrefix, IndexPrefixes
  <2> QED  BY <1>2, <1>3, <1>11, <2>1, <2>3, <2>4, <2>5, <2>6
<1> QED  BY <1>1, <1>5, <1>6, <1>7, <1>8, <1>9, <1>10, <1>11 DEF Names

\* A report is about its own parameter only.
LEMMA ReportAbout ==
    ASSUME NEW e \in Endpoint, NEW p \in Param[e], NEW v, Holds(p, v), NEW q \in Param[e]
    PROVE  About(Report(p, v), q) <=> q = p
<1>1. /\ Report(p, v).name = p[1]
      /\ SubSeq(Report(p, v).args, 1, Indices[p[1]]) =
            SubSeq(<<Num(p[2]), Num(p[3])>>, 1, Indices[p[1]])
  BY ReportRead
<1>2. CASE q = p
  BY <1>1, <1>2 DEF About
<1>3. ASSUME About(Report(p, v), q) PROVE q = p
  <2> DEFINE n == Indices[p[1]]
  <2>1. q[1] = p[1]
    BY <1>1, <1>3 DEF About
  <2>2. SubSeq(<<Num(p[2]), Num(p[3])>>, 1, n) = SubSeq(<<Num(q[2]), Num(q[3])>>, 1, n)
    BY <1>1, <1>3, <2>1 DEF About
  <2>3. n \in 0 .. 2
    BY ParamShape
  <2>4. \A x, y : Num(x) = Num(y) => x = y
    BY DEF Num
  <2>5. /\ n < 2 => p[3] = 0 /\ q[3] = 0
        /\ n < 1 => p[2] = 0 /\ q[2] = 0
    BY <2>1, ParamShape
  <2> HIDE DEF n
  <2>6. n = 0 \/ n = 1 \/ n = 2
    BY <2>3
  <2>7. p[2] = q[2] /\ p[3] = q[3]
    <3>1. CASE n = 0
      BY <3>1, <2>5
    <3>2. CASE n = 1
      BY <3>2, <2>2, <2>4, <2>5, IndexPrefix
    <3>3. CASE n = 2
      BY <3>3, <2>2, <2>4, IndexPrefix
    <3> QED  BY <2>6, <3>1, <3>2, <3>3
  <2>8. p = <<p[1], p[2], p[3]>> /\ q = <<q[1], q[2], q[3]>>
    BY ParamShape
  <2> QED  BY <2>1, <2>7, <2>8
<1> QED  BY <1>2, <1>3

LEMMA OtherLine ==
    ASSUME NEW e \in Endpoint, NEW q \in Param[e], NEW l, l.name \notin Names
    PROVE  ~About(l, q)
BY ParamShape DEF About

\* A setter that is understood carries a value of its parameter.
LEMMA SetterHolds ==
    ASSUME NEW e \in Endpoint, NEW p \in Param[e], NEW line, NEW c, c = parse_command(line),
           c.cmd = SetterOf[p[1]]
    PROVE  Holds(p, ValueIn(p, c.args))
<1>1. p[1] \in Names
  BY ParamShape
<1>2. CASE p[1] = "vfo"
  <2>1. Indices[p[1]] = 2 /\ SetterOf[p[1]] = "Vfo"
    BY <1>2, TableEntries
  <2>2. PICK a, b \in U32, f \in U64 : c.args = <<a, b, f>>
    BY <1>2, <2>1, SetterParsed
  <2>3. ValueIn(p, c.args) = <<f>>
    BY <2>1, <2>2, ValueInArgs
  <2> QED  BY <1>2, <2>3 DEF Holds
<1>3. CASE p[1] = "if"
  <2>1. Indices[p[1]] = 2 /\ SetterOf[p[1]] = "If"
    BY <1>3, TableEntries
  <2>2. PICK a, b \in U32, f \in I64 : c.args = <<a, b, f>>
    BY <1>3, <2>1, SetterParsed
  <2>3. ValueIn(p, c.args) = <<f>>
    BY <2>1, <2>2, ValueInArgs
  <2> QED  BY <1>3, <2>3 DEF Holds
<1>4. CASE p[1] = "rx_channel_enable"
  <2>1. Indices[p[1]] = 2 /\ SetterOf[p[1]] = "RxChannelEnable"
    BY <1>4, TableEntries
  <2>2. PICK a, b \in U32, f \in BOOLEAN : c.args = <<a, b, f>>
    BY <1>4, <2>1, SetterParsed
  <2>3. ValueIn(p, c.args) = <<f>>
    BY <2>1, <2>2, ValueInArgs
  <2> QED  BY <1>4, <2>3 DEF Holds
<1>5. CASE p[1] = "dds"
  <2>1. Indices[p[1]] = 1 /\ SetterOf[p[1]] = "Dds"
    BY <1>5, TableEntries
  <2>2. PICK a \in U32, f \in U64 : c.args = <<a, f>>
    BY <1>5, <2>1, SetterParsed
  <2>3. ValueIn(p, c.args) = <<f>>
    BY <2>1, <2>2, ValueInArgs
  <2> QED  BY <1>5, <2>3 DEF Holds
<1>6. CASE p[1] = "modulation"
  <2>1. Indices[p[1]] = 1 /\ SetterOf[p[1]] = "Modulation"
    BY <1>6, TableEntries
  <2>2. PICK a \in U32 : \E f : c.args = <<a, f>>
    BY <1>6, <2>1, SetterParsed
  <2>3. PICK f : c.args = <<a, f>>
    BY <2>2
  <2>4. ValueIn(p, c.args) = <<f>>
    BY <2>1, <2>3, ValueInArgs
  <2> QED  BY <1>6, <2>4 DEF Holds
<1>7. CASE p[1] = "rx_filter_band"
  <2>1. Indices[p[1]] = 1 /\ SetterOf[p[1]] = "RxFilterBand"
    BY <1>7, TableEntries
  <2>2. PICK a \in U32, f, g \in I32 : c.args = <<a, f, g>>
    BY <1>7, <2>1, SetterParsed
  <2>3. ValueIn(p, c.args) = <<f, g>>
    BY <2>1, <2>2, ValueInArgs
  <2> QED  BY <1>7, <2>3 DEF Holds
<1>8. CASE p[1] = "iq_samplerate"
  <2>1. Indices[p[1]] = 0 /\ SetterOf[p[1]] = "IqSamplerate"
    BY <1>8, TableEntries
  <2>2. PICK f \in U32 : c.args = <<f>>
    BY <1>8, <2>1, SetterParsed
  <2>3. ValueIn(p, c.args) = <<f>>
    BY <2>1, <2>2, ValueInArgs
  <2> QED  BY <1>8, <2>3 DEF Holds
<1> QED  BY <1>1, <1>2, <1>3, <1>4, <1>5, <1>6, <1>7, <1>8 DEF Names

LEMMA HoldsIsValue ==
    ASSUME NEW p, NEW v, Holds(p, v)
    PROVE  IsValue(p, v)
<1>1. \A a, b, c : Len(<<a, b, c>>) = 3 /\ DOMAIN <<a, b, c>> = 1 .. 3
  OBVIOUS
<1>2. \A a, b : Len(<<a, b>>) = 2 /\ DOMAIN <<a, b>> = 1 .. 2
  OBVIOUS
<1>3. \A a : Len(<<a>>) = 1 /\ DOMAIN <<a>> = 1 .. 1
  OBVIOUS
<1>4. /\ \A v1 \in U32 : Fits(Text(v1, "u32"), "u32")
      /\ \A v1 \in U64 : Fits(Text(v1, "u64"), "u64")
      /\ \A v1 \in I32 : Fits(Text(v1, "i32"), "i32")
      /\ \A v1 \in I64 : Fits(Text(v1, "i64"), "i64")
      /\ \A v1 : Fits(Text(v1, "str"), "str")
      /\ \A v1 : Fits(Text(v1, "bool"), "bool")
  BY DEF Fits, Text, Width, Num, Word
<1> DEFINE types == TypesOf[SetterOf[p[1]]]
           n == Indices[p[1]]
<1> SUFFICES /\ Len(v) = Len(types) - n
             /\ \A i \in DOMAIN v : Fits(Text(v[i], types[n + i]), types[n + i])
  BY DEF IsValue
<1>5. CASE p[1] = "vfo"
  <2>1. n = 2 /\ types = <<"u32", "u32", "u64">>
    BY <1>5, TableEntries, TypesOfSetters
  <2>2. PICK f \in U64 : v = <<f>>
    BY <1>5 DEF Holds
  <2>3. Len(types) = 3 /\ types[3] = "u64"
    BY <2>1
  <2>4. Len(v) = 1 /\ DOMAIN v = 1 .. 1
    BY <2>2
  <2>5. Fits(Text(v[1], "u64"), "u64")
    BY <1>4, <2>2
  <2> HIDE DEF types, n
  <2>6. \A i \in 1 .. 1 : (i = 1 /\ 2 + i = 3)
    OBVIOUS
  <2>7. ASSUME NEW i \in DOMAIN v PROVE Fits(Text(v[i], types[n + i]), types[n + i])
    BY <2>1, <2>3, <2>4, <2>5, <2>6
  <2> QED  BY <2>1, <2>3, <2>4, <2>7
<1>6. CASE p[1] = "if"
  <2>1. n = 2 /\ types = <<"u32", "u32", "i64">>
    BY <1>6, TableEntries, TypesOfSetters
  <2>2. PICK f \in I64 : v = <<f>>
    BY <1>6 DEF Holds
  <2>3. Len(types) = 3 /\ types[3] = "i64"
    BY <2>1
  <2>4. Len(v) = 1 /\ DOMAIN v = 1 .. 1
    BY <2>2
  <2>5. Fits(Text(v[1], "i64"), "i64")
    BY <1>4, <2>2
  <2> HIDE DEF types, n
  <2>6. \A i \in 1 .. 1 : (i = 1 /\ 2 + i = 3)
    OBVIOUS
  <2>7. ASSUME NEW i \in DOMAIN v PROVE Fits(Text(v[i], types[n + i]), types[n + i])
    BY <2>1, <2>3, <2>4, <2>5, <2>6
  <2> QED  BY <2>1, <2>3, <2>4, <2>7
<1>7. CASE p[1] = "rx_channel_enable"
  <2>1. n = 2 /\ types = <<"u32", "u32", "bool">>
    BY <1>7, TableEntries, TypesOfSetters
  <2>2. PICK f \in BOOLEAN : v = <<f>>
    BY <1>7 DEF Holds
  <2>3. Len(types) = 3 /\ types[3] = "bool"
    BY <2>1
  <2>4. Len(v) = 1 /\ DOMAIN v = 1 .. 1
    BY <2>2
  <2>5. Fits(Text(v[1], "bool"), "bool")
    BY <1>4, <2>2
  <2> HIDE DEF types, n
  <2>6. \A i \in 1 .. 1 : (i = 1 /\ 2 + i = 3)
    OBVIOUS
  <2>7. ASSUME NEW i \in DOMAIN v PROVE Fits(Text(v[i], types[n + i]), types[n + i])
    BY <2>1, <2>3, <2>4, <2>5, <2>6
  <2> QED  BY <2>1, <2>3, <2>4, <2>7
<1>8. CASE p[1] = "dds"
  <2>1. n = 1 /\ types = <<"u32", "u64">>
    BY <1>8, TableEntries, TypesOfSetters
  <2>2. PICK f \in U64 : v = <<f>>
    BY <1>8 DEF Holds
  <2>3. Len(types) = 2 /\ types[2] = "u64"
    BY <2>1
  <2>4. Len(v) = 1 /\ DOMAIN v = 1 .. 1
    BY <2>2
  <2>5. Fits(Text(v[1], "u64"), "u64")
    BY <1>4, <2>2
  <2> HIDE DEF types, n
  <2>6. \A i \in 1 .. 1 : (i = 1 /\ 1 + i = 2)
    OBVIOUS
  <2>7. ASSUME NEW i \in DOMAIN v PROVE Fits(Text(v[i], types[n + i]), types[n + i])
    BY <2>1, <2>3, <2>4, <2>5, <2>6
  <2> QED  BY <2>1, <2>3, <2>4, <2>7
<1>9. CASE p[1] = "modulation"
  <2>1. n = 1 /\ types = <<"u32", "str">>
    BY <1>9, TableEntries, TypesOfSetters
  <2>2. v = <<v[1]>>
    BY <1>9 DEF Holds
  <2>3. Len(types) = 2 /\ types[2] = "str"
    BY <2>1
  <2>4. Len(v) = 1 /\ DOMAIN v = 1 .. 1
    BY <2>2
  <2>5. Fits(Text(v[1], "str"), "str")
    BY <1>4, <2>2
  <2> HIDE DEF types, n
  <2>6. \A i \in 1 .. 1 : (i = 1 /\ 1 + i = 2)
    OBVIOUS
  <2>7. ASSUME NEW i \in DOMAIN v PROVE Fits(Text(v[i], types[n + i]), types[n + i])
    BY <2>1, <2>3, <2>4, <2>5, <2>6
  <2> QED  BY <2>1, <2>3, <2>4, <2>7
<1>10. CASE p[1] = "rx_filter_band"
  <2>1. n = 1 /\ types = <<"u32", "i32", "i32">>
    BY <1>10, TableEntries, TypesOfSetters
  <2>2. PICK f, g \in I32 : v = <<f, g>>
    BY <1>10 DEF Holds
  <2>3. Len(types) = 3 /\ types[2] = "i32" /\ types[3] = "i32"
    BY <2>1
  <2>4. Len(v) = 2 /\ DOMAIN v = 1 .. 2
    BY <2>2
  <2>5. Fits(Text(v[1], "i32"), "i32") /\ Fits(Text(v[2], "i32"), "i32")
    BY <1>4, <2>2
  <2> HIDE DEF types, n
  <2>6. \A i \in 1 .. 2 : (i = 1 /\ 1 + i = 2) \/ (i = 2 /\ 1 + i = 3)
    OBVIOUS
  <2>7. ASSUME NEW i \in DOMAIN v PROVE Fits(Text(v[i], types[n + i]), types[n + i])
    BY <2>1, <2>3, <2>4, <2>5, <2>6
  <2> QED  BY <2>1, <2>3, <2>4, <2>7
<1>11. CASE p[1] = "iq_samplerate"
  <2>1. n = 0 /\ types = <<"u32">>
    BY <1>11, TableEntries, TypesOfSetters
  <2>2. PICK f \in U32 : v = <<f>>
    BY <1>11 DEF Holds
  <2>3. Len(types) = 1 /\ types[1] = "u32"
    BY <2>1
  <2>4. Len(v) = 1 /\ DOMAIN v = 1 .. 1
    BY <2>2
  <2>5. Fits(Text(v[1], "u32"), "u32")
    BY <1>4, <2>2
  <2> HIDE DEF types, n
  <2>6. \A i \in 1 .. 1 : (i = 1 /\ 0 + i = 1)
    OBVIOUS
  <2>7. ASSUME NEW i \in DOMAIN v PROVE Fits(Text(v[i], types[n + i]), types[n + i])
    BY <2>1, <2>3, <2>4, <2>5, <2>6
  <2> QED  BY <2>1, <2>3, <2>4, <2>7
<1> QED  BY <1>5, <1>6, <1>7, <1>8, <1>9, <1>10, <1>11 DEF Holds

LEMMA SeqIsSeq ==
    ASSUME NEW S, NEW s \in Seq(S)
    PROVE  IsSeq(s) /\ Len(s) \in Nat /\ DOMAIN s = 1 .. Len(s)
<1>1. Len(s) \in Nat /\ DOMAIN s = 1 .. Len(s) /\ s \in [1 .. Len(s) -> S]
  BY LenProperties
<1>2. s \in [1 .. Len(s) -> {s[i] : i \in DOMAIN s}]
  BY <1>1
<1> QED  BY <1>1, <1>2 DEF IsSeq

-----------------------------------------------------------------------------
(* What lines tell a client. *)

LEMMA ToldBy ==
    ASSUME NEW n \in Nat, NEW ls, DOMAIN ls = 1 .. n, NEW p, NEW old
    PROVE  \/ Told(ls, p, old) = old /\ \A i \in DOMAIN ls : ~About(ls[i], p)
           \/ \E i \in DOMAIN ls : About(ls[i], p) /\ Told(ls, p, old) = ls[i]
<1> DEFINE I == {i \in DOMAIN ls : About(ls[i], p)}
<1>1. CASE I = {}
  BY <1>1 DEF Told
<1>2. CASE I # {}
  <2>1. Told(ls, p, old) = ls[CHOOSE i \in I : \A j \in I : j <= i]
    BY <1>2 DEF Told
  <2>2. I \subseteq 1 .. n
    OBVIOUS
  <2> HIDE DEF I
  <2>3. \E i \in I : \A j \in I : j <= i
    BY <1>2, <2>2, Largest
  <2>4. PICK i \in I : Told(ls, p, old) = ls[i]
    BY <2>1, <2>3
  <2> QED  BY <2>4 DEF I
<1> QED  BY <1>1, <1>2

LEMMA ToldNothing == \A p, old : Told(<<>>, p, old) = old
BY DEF Told

\* ls reports nothing but what s holds.
Reports(e, s, ls) ==
    \A i \in DOMAIN ls : \A q \in Param[e] : About(ls[i], q) => ls[i] = Report(q, s[q])

LEMMA OneReport ==
    ASSUME NEW e \in Endpoint, NEW p \in Param[e], NEW s, Holds(p, s[p])
    PROVE  Reports(e, s, <<Report(p, s[p])>>)
BY ReportAbout DEF Reports

LEMMA OneOther ==
    ASSUME NEW e \in Endpoint, NEW s, NEW l, l.name \notin Names
    PROVE  Reports(e, s, <<l>>)
BY OtherLine DEF Reports

LEMMA HandshakeLines ==
    ASSUME NEW e \in Endpoint, NEW s, NEW p, p = <<"iq_samplerate", 0, 0>>, Holds(p, s[p])
    PROVE  /\ DOMAIN Handshake(e, s[p]) = 1 .. 10
           /\ IsSeq(Handshake(e, s[p]))
           /\ Reports(e, s, Handshake(e, s[p]))
<1> DEFINE h == Handshake(e, s[p])
<1>1. p \in Param[e]
  BY DEF Param
<1>2. \A n, w : Words(n, w).name = n
  BY DEF Words, Line
<1>3. \A n, a : Line(n, a).name = n
  BY DEF Line
<1>4. /\ DOMAIN h = 1 .. 10 /\ h[9] = Report(p, s[p])
      /\ h[1].name = "protocol" /\ h[2].name = "device" /\ h[3].name = "receive_only"
      /\ h[4].name = "trx_count" /\ h[5].name = "channel_count" /\ h[6].name = "vfo_limits"
      /\ h[7].name = "if_limits" /\ h[8].name = "modulations_list" /\ h[10].name = "ready"
  BY <1>2, <1>3 DEF Handshake
<1> HIDE DEF h
<1>5. ASSUME NEW i \in DOMAIN h, NEW q \in Param[e], About(h[i], q) PROVE h[i] = Report(q, s[q])
  <2>1. h[i].name \in Names
    BY <1>5, OtherLine
  <2>2. i = 9
    <3>1. \A j \in 1 .. 10 : j = 1 \/ j = 2 \/ j = 3 \/ j = 4 \/ j = 5 \/ j = 6 \/ j = 7 \/ j = 8
                               \/ j = 9 \/ j = 10
      OBVIOUS
    <3> QED  BY <2>1, <3>1, <1>4 DEF Names
  <2>3. q = p
    BY <1>1, <1>4, <1>5, <2>2, ReportAbout
  <2> QED  BY <1>4, <2>2, <2>3
<1>6. Reports(e, s, h)
  BY <1>5 DEF Reports
<1>7. IsSeq(h)
  <2> DEFINE S == {h[i] : i \in DOMAIN h}
  <2>1. h = [i \in 1 .. 10 |-> h[i]]
    BY DEF Handshake, h
  <2>2. \A i \in 1 .. 10 : h[i] \in S
    BY <1>4
  <2> HIDE DEF S
  <2>3. h \in [1 .. 10 -> S]
    BY <2>1, <2>2
  <2>4. h \in Seq(S)
    <3>1. 10 \in Nat
      OBVIOUS
    <3> QED  BY <2>3, <3>1, SeqDef
  <2> QED  BY <2>4 DEF IsSeq, S
<1> QED  BY <1>4, <1>6, <1>7 DEF h

LEMMA TrxDumpLines ==
    ASSUME NEW s, NEW t
    PROVE  LET d == TrxDump(s, t) IN
           /\ \A i \in 1 .. 3 : d[i].name \notin Names
           /\ d[4] = Report(<<"dds", t, 0>>, s[<<"dds", t, 0>>])
           /\ d[5] = Report(<<"vfo", t, 0>>, s[<<"vfo", t, 0>>])
           /\ d[6] = Report(<<"vfo", t, 1>>, s[<<"vfo", t, 1>>])
           /\ d[7] = Report(<<"rx_channel_enable", t, 1>>, s[<<"rx_channel_enable", t, 1>>])
           /\ d[8] = Report(<<"modulation", t, 0>>, s[<<"modulation", t, 0>>])
           /\ d[9] = Report(<<"rx_filter_band", t, 0>>, s[<<"rx_filter_band", t, 0>>])
<1> DEFINE head == <<Line("tx_enable", <<Num(t), Word("false")>>),
                     Line("trx", <<Num(t), Word("false")>>),
                     Line("rx_enable", <<Num(t), Word("true")>>)>>
           ps == << <<"dds", t, 0>>, <<"vfo", t, 0>>, <<"vfo", t, 1>>,
                    <<"rx_channel_enable", t, 1>>, <<"modulation", t, 0>>,
                    <<"rx_filter_band", t, 0>> >>
           rest == [i \in 1 .. 6 |-> Report(ps[i], s[ps[i]])]
           S == {head[i] : i \in 1 .. 3} \cup {rest[i] : i \in 1 .. 6}
<1>1. TrxDump(s, t) = head \o rest
  BY DEF TrxDump
<1>2. /\ ps[1] = <<"dds", t, 0>> /\ ps[2] = <<"vfo", t, 0>> /\ ps[3] = <<"vfo", t, 1>>
      /\ ps[4] = <<"rx_channel_enable", t, 1>> /\ ps[5] = <<"modulation", t, 0>>
      /\ ps[6] = <<"rx_filter_band", t, 0>>
  OBVIOUS
<1>3. head[1].name = "tx_enable" /\ head[2].name = "trx" /\ head[3].name = "rx_enable"
  BY DEF Line
<1>4. head \in Seq(S) /\ Len(head) = 3
  OBVIOUS
<1> HIDE DEF ps
<1>5. rest \in Seq(S) /\ Len(rest) = 6
  OBVIOUS
<1>6. \A i \in 1 .. 6 : rest[i] = Report(ps[i], s[ps[i]])
  OBVIOUS
<1> HIDE DEF head, rest, S
<1>7. /\ \A i \in 1 .. Len(head) : (head \o rest)[i] = head[i]
      /\ \A i \in 1 .. Len(rest) : (head \o rest)[Len(head) + i] = rest[i]
  <2>1. head \in Seq(S) /\ rest \in Seq(S)
    BY <1>4, <1>5
  <2> QED  BY <2>1, Appended
<1>8. \A i \in 1 .. 3 : (head \o rest)[i] = head[i]
  BY <1>4, <1>7
<1>9. \A i \in 1 .. 6 : (head \o rest)[3 + i] = rest[i]
  BY <1>4, <1>5, <1>7
<1>10. \A i \in 1 .. 3 : head[i].name \notin Names
  <2>1. \A i \in 1 .. 3 : i = 1 \/ i = 2 \/ i = 3
    OBVIOUS
  <2> QED  BY <2>1, <1>3 DEF Names
<1>11. /\ (head \o rest)[4] = rest[1] /\ (head \o rest)[5] = rest[2] /\ (head \o rest)[6] = rest[3]
       /\ (head \o rest)[7] = rest[4] /\ (head \o rest)[8] = rest[5] /\ (head \o rest)[9] = rest[6]
  <2> DEFINE d(i) == (head \o rest)[i]
  <2>1. \A i \in 1 .. 6 : d(3 + i) = rest[i]
    BY <1>9
  <2> HIDE DEF d
  <2>2. d(4) = rest[1] /\ d(5) = rest[2] /\ d(6) = rest[3]
    BY <2>1
  <2>3. d(7) = rest[4] /\ d(8) = rest[5] /\ d(9) = rest[6]
    BY <2>1
  <2> QED  BY <2>2, <2>3 DEF d
<1>12. \A i \in 1 .. 3 : (head \o rest)[i].name \notin Names
  BY <1>8, <1>10
<1>13. /\ rest[1] = Report(ps[1], s[ps[1]]) /\ rest[2] = Report(ps[2], s[ps[2]])
       /\ rest[3] = Report(ps[3], s[ps[3]]) /\ rest[4] = Report(ps[4], s[ps[4]])
       /\ rest[5] = Report(ps[5], s[ps[5]]) /\ rest[6] = Report(ps[6], s[ps[6]])
  BY <1>6
<1> QED  BY <1>1, <1>2, <1>11, <1>12, <1>13

LEMMA TrxCounted ==
    ASSUME NEW e \in Endpoint
    PROVE  TrxCount[e] \in Nat \ {0} /\ Trx(e) = 0 .. TrxCount[e] - 1 /\ 0 \in Trx(e)
<1> DEFINE S == {TrxConfig[e][i] : i \in DOMAIN TrxConfig[e]}
<1>1. TrxConfig[e] \in Seq(S)
  BY ServerAssumption DEF IsSeq
<1> HIDE DEF S
<1>2. TrxConfig[e] # <<>> => Len(TrxConfig[e]) \in Nat \ {0}
  BY <1>1, EmptySeq
<1>3. TrxCount[e] \in Nat \ {0}
  BY <1>2 DEF TrxCount
<1> QED  BY <1>3 DEF Trx

\* The dump reports every parameter as it is, VFO A and the centre of each TRX
\* among them.
LEMMA DumpLines ==
    ASSUME NEW e \in Endpoint, \A p \in Param[e] : Holds(p, state[e][p])
    PROVE  LET d == current_state_messages(e) IN
           /\ DOMAIN d = 1 .. 9 * TrxCount[e] + 1
           /\ d # <<>> /\ IsSeq(d)
           /\ Reports(e, state[e], d)
           /\ \A t \in Trx(e) : /\ \E i \in DOMAIN d : About(d[i], <<"dds", t, 0>>)
                                /\ \E i \in DOMAIN d : About(d[i], <<"vfo", t, 0>>)
<1> DEFINE N == TrxCount[e]
           s == state[e]
           all == [i \in 1 .. 9 * N |-> TrxDump(s, (i - 1) \div 9)[1 + ((i - 1) % 9)]]
           start == <<Line("start", <<>>)>>
           d == current_state_messages(e)
           S == {all[i] : i \in 1 .. 9 * N} \cup {Line("start", <<>>)}
<1>1. N \in Nat \ {0} /\ Trx(e) = 0 .. N - 1
  BY TrxCounted
<1>2. d = all \o start
  BY DEF current_state_messages
<1> HIDE DEF N, s
<1>3. all \in Seq(S) /\ Len(all) = 9 * N
  <2> DEFINE M == 9 * N
             F(i) == TrxDump(s, (i - 1) \div 9)[1 + ((i - 1) % 9)]
  <2>1. M \in Nat
    BY <1>1
  <2>2. \A i \in 1 .. M : F(i) = all[i]
    OBVIOUS
  <2>3. all = [i \in 1 .. M |-> F(i)]
    OBVIOUS
  <2> HIDE DEF all, F
  <2>4. \A i \in 1 .. M : F(i) \in S
    BY <2>2
  <2> HIDE DEF S, M
  <2>5. all \in Seq(S) /\ Len(all) = M
    BY <2>1, <2>3, <2>4
  <2> QED  BY <2>5 DEF M
<1>4. start \in Seq(S) /\ Len(start) = 1 /\ start[1] = Line("start", <<>>)
  OBVIOUS
<1>5. \A i \in 1 .. 9 * N : all[i] = TrxDump(s, (i - 1) \div 9)[1 + ((i - 1) % 9)]
  OBVIOUS
<1> HIDE DEF all, start, S, d
<1>6. /\ d \in Seq(S) /\ Len(d) = 9 * N + 1 /\ DOMAIN d = 1 .. 9 * N + 1
      /\ \A i \in 1 .. 9 * N : d[i] = all[i]
      /\ \A i \in 1 .. 1 : d[9 * N + i] = start[i]
  <2>1. all \in Seq(S) /\ start \in Seq(S)
    BY <1>3, <1>4
  <2>2. /\ d \in Seq(S) /\ Len(d) = Len(all) + Len(start) /\ DOMAIN d = 1 .. Len(all) + Len(start)
        /\ \A i \in 1 .. Len(all) : d[i] = all[i]
        /\ \A i \in 1 .. Len(start) : d[Len(all) + i] = start[i]
    BY <1>2, <2>1, Appended
  <2> QED  BY <1>3, <1>4, <2>2
<1>7. DOMAIN d = 1 .. 9 * N + 1 /\ d # <<>>
  <2>1. 9 * N + 1 # 0
    BY <1>1
  <2> QED  BY <1>6, <2>1, EmptySeq
<1>8. \A i \in 1 .. 9 * N : d[i] = TrxDump(s, (i - 1) \div 9)[1 + ((i - 1) % 9)]
  BY <1>5, <1>6
<1>9. d[9 * N + 1] = Line("start", <<>>)
  BY <1>4, <1>6
<1>10. \A p \in Param[e] : Holds(p, s[p])
  BY DEF s
<1>11. \A t \in Trx(e) : /\ <<"dds", t, 0>> \in Param[e]
                         /\ <<"vfo", t, 0>> \in Param[e] /\ <<"vfo", t, 1>> \in Param[e]
                         /\ <<"rx_channel_enable", t, 1>> \in Param[e]
                         /\ <<"modulation", t, 0>> \in Param[e]
                         /\ <<"rx_filter_band", t, 0>> \in Param[e]
  BY DEF Param
<1>12. ASSUME NEW t \in Trx(e), NEW j \in 1 .. 9, NEW q \in Param[e], About(TrxDump(s, t)[j], q)
       PROVE  TrxDump(s, t)[j] = Report(q, s[q])
  <2> DEFINE l == TrxDump(s, t)[j]
  <2>1. CASE j \in 1 .. 3
    BY <2>1, <1>12, OtherLine, TrxDumpLines
  <2>2. ASSUME NEW p \in Param[e], l = Report(p, s[p]) PROVE l = Report(q, s[q])
    BY <1>10, <1>12, <2>2, ReportAbout
  <2> HIDE DEF l
  <2>3. CASE j = 4
    <3>1. l = Report(<<"dds", t, 0>>, s[<<"dds", t, 0>>])
      BY <2>3, TrxDumpLines DEF l
    <3> QED  BY <3>1, <2>2, <1>11 DEF l
  <2>4. CASE j = 5
    <3>1. l = Report(<<"vfo", t, 0>>, s[<<"vfo", t, 0>>])
      BY <2>4, TrxDumpLines DEF l
    <3> QED  BY <3>1, <2>2, <1>11 DEF l
  <2>5. CASE j = 6
    <3>1. l = Report(<<"vfo", t, 1>>, s[<<"vfo", t, 1>>])
      BY <2>5, TrxDumpLines DEF l
    <3> QED  BY <3>1, <2>2, <1>11 DEF l
  <2>6. CASE j = 7
    <3>1. l = Report(<<"rx_channel_enable", t, 1>>, s[<<"rx_channel_enable", t, 1>>])
      BY <2>6, TrxDumpLines DEF l
    <3> QED  BY <3>1, <2>2, <1>11 DEF l
  <2>7. CASE j = 8
    <3>1. l = Report(<<"modulation", t, 0>>, s[<<"modulation", t, 0>>])
      BY <2>7, TrxDumpLines DEF l
    <3> QED  BY <3>1, <2>2, <1>11 DEF l
  <2>8. CASE j = 9
    <3>1. l = Report(<<"rx_filter_band", t, 0>>, s[<<"rx_filter_band", t, 0>>])
      BY <2>8, TrxDumpLines DEF l
    <3> QED  BY <3>1, <2>2, <1>11 DEF l
  <2> QED  BY <2>1, <2>3, <2>4, <2>5, <2>6, <2>7, <2>8
<1>13. ASSUME NEW i \in 1 .. 9 * N
       PROVE  (i - 1) \div 9 \in 0 .. N - 1 /\ 1 + ((i - 1) % 9) \in 1 .. 9
  <2> DEFINE a == (i - 1) \div 9
             b == (i - 1) % 9
  <2>1. i - 1 \in Nat /\ i - 1 < 9 * N
    BY <1>1
  <2>2. a \in Nat /\ b \in 0 .. 8 /\ i - 1 = 9 * a + b
    BY <2>1
  <2> HIDE DEF a, b
  <2>3. a < N
    BY <1>1, <2>1, <2>2
  <2>4. a \in 0 .. N - 1 /\ 1 + b \in 1 .. 9
    BY <1>1, <2>2, <2>3
  <2> QED  BY <2>4 DEF a, b
<1>14. Reports(e, s, d)
  <2> SUFFICES ASSUME NEW i \in DOMAIN d, NEW q \in Param[e], About(d[i], q)
               PROVE  d[i] = Report(q, s[q])
    BY DEF Reports
  <2>1. CASE i <= 9 * N
    <3>1. i \in 1 .. 9 * N
      BY <1>1, <1>7, <2>1
    <3> DEFINE a == (i - 1) \div 9
               b == 1 + ((i - 1) % 9)
    <3>2. a \in Trx(e) /\ b \in 1 .. 9
      BY <3>1, <1>1, <1>13
    <3>3. d[i] = TrxDump(s, a)[b]
      BY <3>1, <1>8
    <3> HIDE DEF a, b
    <3> QED  BY <3>2, <3>3, <1>12
  <2>2. CASE i = 9 * N + 1
    <3>1. d[i].name = "start"
      BY <1>9, <2>2 DEF Line
    <3> QED  BY <3>1, OtherLine DEF Names
  <2> QED  BY <1>1, <1>7, <2>1, <2>2
<1>15. ASSUME NEW t \in Trx(e)
       PROVE  /\ \E i \in DOMAIN d : About(d[i], <<"dds", t, 0>>)
              /\ \E i \in DOMAIN d : About(d[i], <<"vfo", t, 0>>)
  <2> DEFINE a == 9 * t + 4
             b == 9 * t + 5
  <2>1. t \in Nat /\ t <= N - 1 /\ N \in Nat
    BY <1>1
  <2>2. a \in 1 .. 9 * N /\ b \in 1 .. 9 * N
    BY <2>1
  <2>3. (a - 1) \div 9 = t /\ 1 + ((a - 1) % 9) = 4
    BY <2>1
  <2>4. (b - 1) \div 9 = t /\ 1 + ((b - 1) % 9) = 5
    BY <2>1
  <2> HIDE DEF a, b
  <2>5. d[a] = TrxDump(s, t)[4] /\ d[b] = TrxDump(s, t)[5]
    BY <1>8, <2>2, <2>3, <2>4
  <2>6. /\ d[a] = Report(<<"dds", t, 0>>, s[<<"dds", t, 0>>])
        /\ d[b] = Report(<<"vfo", t, 0>>, s[<<"vfo", t, 0>>])
    BY <2>5, TrxDumpLines
  <2>7. a \in DOMAIN d /\ b \in DOMAIN d
    BY <1>1, <1>7, <2>2
  <2>8. About(d[a], <<"dds", t, 0>>)
    <3> DEFINE p == <<"dds", t, 0>>
    <3>1. p \in Param[e]
      BY <1>11
    <3>2. d[a] = Report(p, s[p])
      BY <2>6
    <3> HIDE DEF p
    <3>3. About(d[a], p)
      BY <3>1, <3>2, <1>10, ReportAbout
    <3> QED  BY <3>3 DEF p
  <2>9. About(d[b], <<"vfo", t, 0>>)
    <3> DEFINE p == <<"vfo", t, 0>>
    <3>1. p \in Param[e]
      BY <1>11
    <3>2. d[b] = Report(p, s[p])
      BY <2>6
    <3> HIDE DEF p
    <3>3. About(d[b], p)
      BY <3>1, <3>2, <1>10, ReportAbout
    <3> QED  BY <3>3 DEF p
  <2> QED  BY <2>7, <2>8, <2>9
<1>16. IsSeq(d)
  BY <1>6, SeqIsSeq
<1>17. N = TrxCount[e] /\ s = state[e] /\ d = current_state_messages(e)
  BY DEF N, s, d
<1> QED  BY <1>7, <1>14, <1>15, <1>16, <1>17

-----------------------------------------------------------------------------
(* The inductive invariant. *)

Phases == {"offline", "handshake", "dump", "loop", "frame"}

\* What a session can have to offer.
Offers ==
    {Tune(c, f) : c \in Channels, f \in U64} \cup {SetSr(e, r) : e \in Endpoint, r \in U32}
    \cup {EnableRx(c, on) : c \in Channels, on \in BOOLEAN}

\* A line that reports a value of q.
IsReport(q, l) ==
    LET v == ValueIn(q, parse_command(l).args) IN Holds(q, v) /\ l = Report(q, v)

\* Lines the client of session k can have written.
FromClient(k, ls) ==
    /\ IsSeq(ls)
    /\ \A i \in DOMAIN ls : \E m \in Message[k] : \E j \in DOMAIN m : ls[i] = m[j]

StateOK ==
    /\ DOMAIN state = Endpoint
    /\ \A e \in Endpoint : /\ DOMAIN state[e] = Param[e]
                           /\ \A p \in Param[e] : Holds(p, state[e][p])

SessionOK(k) ==
    /\ phase[k] \in Phases
    /\ pending[k] \in Offers \cup {NoCmd}
    /\ iq_active[k] \subseteq Trx(ServerOf[k])
    /\ IsSeq(out[k])
    /\ FromClient(k, lines[k]) /\ FromClient(k, sock[k])
    /\ DOMAIN view[k] = Param[ServerOf[k]]
    /\ \A q \in Param[ServerOf[k]] :
         /\ view[k][q] = NoLine \/ IsReport(q, view[k][q])
         /\ \A i \in DOMAIN out[k] : About(out[k][i], q) => IsReport(q, out[k][i])
    /\ phase[k] = "offline" => out[k] = <<>>
    /\ phase[k] # "loop" => lines[k] = <<>> /\ pending[k] = NoCmd

DomainsOK ==
    /\ DOMAIN phase = Session /\ DOMAIN pending = Session /\ DOMAIN iq_active = Session
    /\ DOMAIN out = Session /\ DOMAIN lines = Session /\ DOMAIN sock = Session
    /\ DOMAIN view = Session
    /\ phase = [k \in Session |-> phase[k]] /\ pending = [k \in Session |-> pending[k]]

TypeInv ==
    /\ StateOK /\ DomainsOK /\ \A k \in Session : SessionOK(k)
    /\ cmds \in Seq(Offers) /\ Len(cmds) <= CmdCap

\* The last a client knows of a parameter when it has read what is written to it.
Latest(k, p) == Told(out[k], p, view[k][p])

\* What only a client changes, it will know as it is.
KnowsInv ==
    \A k \in Session : \A p \in Own[k] :
        Latest(k, p) # NoLine => Latest(k, p) = Report(p, state[ServerOf[k]][p])

\* VFO A and the centre that follows it agree, in the state and in every dump.
CenterInv ==
    \A e \in Endpoint : \A t \in FollowingTrx[e] :
        /\ state[e][<<"vfo", t, 0>>] = state[e][<<"dds", t, 0>>]
        /\ \A k \in Session : ServerOf[k] = e /\ phase[k] = "dump" =>
             \E f \in U64 : /\ Latest(k, <<"vfo", t, 0>>) = Report(<<"vfo", t, 0>>, <<f>>)
                            /\ Latest(k, <<"dds", t, 0>>) = Report(<<"dds", t, 0>>, <<f>>)

LEMMA IsSeqDomain ==
    ASSUME NEW s, IsSeq(s)
    PROVE  Len(s) \in Nat /\ DOMAIN s = 1 .. Len(s)
<1> DEFINE S == {s[i] : i \in DOMAIN s}
<1>1. s \in Seq(S)
  BY DEF IsSeq
<1> HIDE DEF S
<1> QED  BY <1>1, LenProperties

LEMMA NoLines ==
    ASSUME NEW k
    PROVE  IsSeq(<<>>) /\ FromClient(k, <<>>) /\ DOMAIN <<>> = {}
<1>1. <<>> \in Seq({}) /\ Len(<<>>) = 0
  BY EmptySeq
<1>2. IsSeq(<<>>) /\ DOMAIN <<>> = 1 .. 0
  BY <1>1, SeqIsSeq
<1>3. DOMAIN <<>> = {}
  BY <1>2
<1> QED  BY <1>2, <1>3 DEF FromClient

\* The first line of a message, and what is left of it.
LEMMA NextLine ==
    ASSUME NEW k, NEW ls, FromClient(k, ls), ls # <<>>
    PROVE  /\ FromClient(k, Tail(ls))
           /\ \E m \in Message[k] : \E j \in DOMAIN m : Head(ls) = m[j]
<1> DEFINE S == {ls[i] : i \in DOMAIN ls}
<1>1. ls \in Seq(S)
  BY DEF FromClient, IsSeq
<1>2. \A l \in S : \E m \in Message[k] : \E j \in DOMAIN m : l = m[j]
  BY DEF FromClient
<1> HIDE DEF S
<1>3. Head(ls) \in S /\ Tail(ls) \in Seq(S)
  BY <1>1, HeadTailProperties
<1>4. IsSeq(Tail(ls)) /\ \A i \in DOMAIN Tail(ls) : Tail(ls)[i] \in S
  BY <1>3, SeqIsSeq, ElementOfSeq
<1> QED  BY <1>2, <1>3, <1>4 DEF FromClient

LEMMA ReportIsReport ==
    ASSUME NEW e \in Endpoint, NEW p \in Param[e], NEW v, Holds(p, v)
    PROVE  IsReport(p, Report(p, v))
BY ReportRead DEF IsReport

LEMMA ReportsAreReports ==
    ASSUME NEW e \in Endpoint, NEW s, \A p \in Param[e] : Holds(p, s[p]), NEW ls, Reports(e, s, ls)
    PROVE  \A q \in Param[e] : \A i \in DOMAIN ls : About(ls[i], q) => IsReport(q, ls[i])
BY ReportIsReport DEF Reports

\* The line of the client that is handled sets a parameter.
LEMMA SetStep ==
    ASSUME TypeInv, NEW k \in Session, lines[k] # <<>>,
           HandleSet(k, parse_command(Head(lines[k])))
    PROVE  \E p \in Param[ServerOf[k]] : \E v :
              /\ Holds(p, v) /\ Sets(k, p)
              /\ state' = [state EXCEPT ![ServerOf[k]] = Stored(@, p, v)]
              /\ pending' = [pending EXCEPT ![k] = CmdFor(ServerOf[k], p, v)]
              /\ out' = [out EXCEPT ![k] = <<Report(p, v)>>]
              /\ UNCHANGED iq_active
<1> DEFINE e == ServerOf[k]
           c == parse_command(Head(lines[k]))
<1>1. e \in Endpoint
  BY ServerAssumption
<1>2. PICK p \in Targets(k, c, SetterOf) :
         LET v == SubSeq(c.args, Indices[p[1]] + 1, Len(c.args)) IN
         /\ state' = [state EXCEPT ![e] = Stored(@, p, v)]
         /\ pending' = [pending EXCEPT ![k] = CmdFor(e, p, v)]
         /\ out' = [out EXCEPT ![k] = <<Report(p, v)>>]
  BY DEF HandleSet
<1>3. p \in Param[e] /\ SetterOf[p[1]] = c.cmd /\ p = Addressed(p[1], c.args)
  BY DEF Targets
<1>4. Holds(p, ValueIn(p, c.args))
  BY <1>1, <1>3, SetterHolds
<1>5. Sets(k, p)
  <2>1. FromClient(k, lines[k])
    BY DEF TypeInv, SessionOK
  <2>2. PICK m \in Message[k] : \E j \in DOMAIN m : Head(lines[k]) = m[j]
    BY <2>1, NextLine
  <2> QED  BY <2>2, <1>3 DEF Sets
<1>6. UNCHANGED iq_active
  BY DEF HandleSet
<1> QED  BY <1>2, <1>3, <1>4, <1>5, <1>6 DEF ValueIn

LEMMA StoredHolds ==
    ASSUME NEW e \in Endpoint, NEW s, DOMAIN s = Param[e], \A q \in Param[e] : Holds(q, s[q]),
           NEW p \in Param[e], NEW v, Holds(p, v)
    PROVE  /\ DOMAIN Stored(s, p, v) = Param[e]
           /\ \A q \in Param[e] : Holds(q, Stored(s, p, v)[q])
           /\ Stored(s, p, v)[p] = v
           /\ \A q \in Param[e] : q # p /\ ~(p[1] = "vfo" /\ p[3] = 0 /\ q = <<"dds", p[2], 0>>)
                => Stored(s, p, v)[q] = s[q]
<1>1. p[1] = "vfo" => Holds(<<"dds", p[2], 0>>, v)
  BY DEF Holds
<1> QED  BY <1>1 DEF Stored

LEMMA CmdOffered ==
    ASSUME NEW e \in Endpoint, NEW p \in Param[e], NEW v, Holds(p, v)
    PROVE  CmdFor(e, p, v) \in Offers \cup {NoCmd}
<1>1. p[1] \in Names
  BY ParamShape
<1>2. p[1] \in {"vfo", "rx_channel_enable"} => <<e, p[2], p[3]>> \in Channels
  <2>1. p[1] \in {"vfo", "rx_channel_enable"} => p[2] \in Trx(e) /\ p[3] \in {0, 1}
    BY DEF Param
  <2> QED  BY <2>1 DEF Channels
<1>3. CASE p[1] = "vfo" /\ p[3] = 0
  <2>1. v[1] \in U64
    BY <1>3 DEF Holds
  <2>2. CmdFor(e, p, v) = Tune(<<e, p[2], p[3]>>, v[1])
    BY <1>3 DEF CmdFor
  <2> QED  BY <1>2, <1>3, <2>1, <2>2 DEF Offers
<1>4. CASE p[1] = "rx_channel_enable"
  <2>1. v[1] \in BOOLEAN
    BY <1>4 DEF Holds
  <2>2. CmdFor(e, p, v) = EnableRx(<<e, p[2], p[3]>>, v[1])
    BY <1>4 DEF CmdFor
  <2> QED  BY <1>2, <1>4, <2>1, <2>2 DEF Offers
<1>5. CASE p[1] = "iq_samplerate"
  <2>1. v[1] \in U32
    BY <1>5 DEF Holds
  <2>2. CmdFor(e, p, v) = SetSr(e, v[1])
    BY <1>5 DEF CmdFor
  <2> QED  BY <1>5, <2>1, <2>2 DEF Offers
<1>6. CASE ~(p[1] = "vfo" /\ p[3] = 0) /\ p[1] \notin {"rx_channel_enable", "iq_samplerate"}
  BY <1>6 DEF CmdFor
<1> QED  BY <1>3, <1>4, <1>5, <1>6

-----------------------------------------------------------------------------
(* The steps of one session. *)

Steps(k) ==
    \/ Works(k) \/ Connect(k) \/ TellFails(k) \/ RecvMessage(k) \/ RecvClose(k) \/ RecvFrame(k)
    \/ \E m \in Message[k] : ClientSends(k, m)

\* The other sessions stay where they are.
OthersStay(k) ==
    \A j \in Session \ {k} :
        /\ phase'[j] = phase[j] /\ pending'[j] = pending[j] /\ iq_active'[j] = iq_active[j]
        /\ out'[j] = out[j] /\ lines'[j] = lines[j] /\ sock'[j] = sock[j] /\ view'[j] = view[j]

LEMMA OneSessionMoves ==
    ASSUME DomainsOK, NEW k \in Session, Steps(k)
    PROVE  DomainsOK' /\ OthersStay(k)
<1> USE DEF DomainsOK, OthersStay, taskVars
<1>1. CASE Connect(k)
  BY <1>1 DEF Connect
<1>2. CASE DumpState(k)
  BY <1>2 DEF DumpState
<1>3. CASE Subscribe(k)
  BY <1>3 DEF Subscribe
<1>4. CASE Tell(k)
  BY <1>4 DEF Tell
<1>5. CASE SendFrame(k)
  BY <1>5 DEF SendFrame
<1>6. CASE send_bridge_cmd(k)
  BY <1>6 DEF send_bridge_cmd
<1>7. CASE HandleLine(k)
  <2>1. /\ lines' = [lines EXCEPT ![k] = Tail(@)]
        /\ UNCHANGED <<phase, sock, view>>
    BY <1>7 DEF HandleLine
  <2>2. PICK c : HandleSet(k, c) \/ HandleRead(k, c) \/ HandleStream(k, c)
                  \/ HandleStartStop(k, c) \/ HandleNothing(k, c)
    BY <1>7 DEF HandleLine
  <2>3. CASE HandleSet(k, c)
    BY <2>1, <2>3 DEF HandleSet
  <2>4. CASE HandleRead(k, c)
    BY <2>1, <2>4 DEF HandleRead
  <2>5. CASE HandleStream(k, c)
    BY <2>1, <2>5 DEF HandleStream
  <2>6. CASE HandleStartStop(k, c)
    BY <2>1, <2>6 DEF HandleStartStop
  <2>7. CASE HandleNothing(k, c)
    BY <2>1, <2>7 DEF HandleNothing
  <2> QED  BY <2>2, <2>3, <2>4, <2>5, <2>6, <2>7
<1>8. CASE TellFails(k)
  BY <1>8 DEF TellFails, Closed
<1>9. CASE RecvMessage(k)
  BY <1>9 DEF RecvMessage
<1>10. CASE RecvClose(k)
  BY <1>10 DEF RecvClose, Closed
<1>11. CASE RecvFrame(k)
  BY <1>11 DEF RecvFrame
<1>12. CASE \E m \in Message[k] : ClientSends(k, m)
  BY <1>12 DEF ClientSends
<1> QED  BY <1>1, <1>2, <1>3, <1>4, <1>5, <1>6, <1>7, <1>8, <1>9, <1>10, <1>11, <1>12
         DEF Steps, Works

\* What handling a line comes to.
LEMMA LineStep ==
    ASSUME TypeInv, NEW k \in Session, HandleLine(k)
    PROVE  LET e == ServerOf[k] IN
           /\ phase[k] = "loop" /\ out[k] = <<>> /\ pending[k] = NoCmd /\ lines[k] # <<>>
           /\ lines' = [lines EXCEPT ![k] = Tail(@)]
           /\ UNCHANGED <<cmds, phase, sock, view>>
           /\ \/ \E p \in Param[e] : \E v :
                    /\ Holds(p, v) /\ Sets(k, p)
                    /\ state' = [state EXCEPT ![e] = Stored(@, p, v)]
                    /\ pending' = [pending EXCEPT ![k] = CmdFor(e, p, v)]
                    /\ out' = [out EXCEPT ![k] = <<Report(p, v)>>]
                    /\ UNCHANGED iq_active
              \/ /\ UNCHANGED <<state, pending, iq_active>>
                 /\ \E l : out' = [out EXCEPT ![k] = <<l>>] /\ Reports(e, state[e], <<l>>)
              \/ /\ UNCHANGED <<state, pending, out>>
                 /\ iq_active'[k] \subseteq Trx(e)
<1> DEFINE e == ServerOf[k]
           c == parse_command(Head(lines[k]))
<1>1. /\ phase[k] = "loop" /\ out[k] = <<>> /\ pending[k] = NoCmd /\ lines[k] # <<>>
      /\ lines' = [lines EXCEPT ![k] = Tail(@)]
      /\ UNCHANGED <<cmds, phase, sock, view>>
  BY DEF HandleLine, Sent
<1>2. \/ HandleSet(k, c) \/ HandleRead(k, c) \/ HandleStream(k, c)
      \/ HandleStartStop(k, c) \/ HandleNothing(k, c)
  BY DEF HandleLine
<1>3. e \in Endpoint
  BY ServerAssumption
<1>4. StateOK /\ DomainsOK /\ SessionOK(k)
  BY DEF TypeInv
<1>5. CASE HandleSet(k, c)
  BY <1>1, <1>5, SetStep
<1>6. CASE HandleRead(k, c)
  <2>1. /\ UNCHANGED <<state, pending, iq_active>>
        /\ \E p \in Targets(k, c, ReaderOf) : out' = [out EXCEPT ![k] = <<Report(p, state[e][p])>>]
    BY <1>6 DEF HandleRead
  <2>2. PICK p \in Param[e] : out' = [out EXCEPT ![k] = <<Report(p, state[e][p])>>]
    BY <2>1 DEF Targets
  <2>3. Holds(p, state[e][p])
    BY <1>3, <1>4 DEF StateOK
  <2>4. Reports(e, state[e], <<Report(p, state[e][p])>>)
    BY <1>3, <2>3, OneReport
  <2> QED  BY <1>1, <2>1, <2>2, <2>4
<1>7. CASE HandleStream(k, c)
  <2>1. UNCHANGED <<state, pending, out>> /\ c.args[1] \in Trx(e)
    BY <1>7 DEF HandleStream
  <2>2. iq_active[k] \subseteq Trx(e) /\ k \in DOMAIN iq_active
    BY <1>4 DEF SessionOK, DomainsOK
  <2>3. iq_active'[k] \subseteq Trx(e)
    BY <1>7, <2>1, <2>2 DEF HandleStream
  <2> QED  BY <1>1, <2>1, <2>3
<1>8. CASE HandleStartStop(k, c)
  <2>1. PICK n \in {"start", "stop"} : out' = [out EXCEPT ![k] = <<Line(n, <<>>)>>]
    BY <1>8 DEF HandleStartStop
  <2>2. Line(n, <<>>).name \notin Names
    BY <2>1 DEF Line, Names
  <2>3. Reports(e, state[e], <<Line(n, <<>>)>>)
    BY <1>3, <2>2, OneOther
  <2>4. UNCHANGED <<state, pending, iq_active>>
    BY <1>8 DEF HandleStartStop
  <2> QED  BY <1>1, <2>1, <2>3, <2>4
<1>9. CASE HandleNothing(k, c)
  BY <1>1, <1>4, <1>9 DEF HandleNothing, SessionOK
<1> QED  BY <1>2, <1>5, <1>6, <1>7, <1>8, <1>9

\* A session that keeps what it told, and what it has still to tell, is as good
\* as before.
LEMMA QuietOK ==
    ASSUME NEW k \in Session, SessionOK(k), out'[k] = out[k], view'[k] = view[k],
           phase'[k] \in Phases, phase'[k] = "offline" => out[k] = <<>>,
           pending'[k] \in Offers \cup {NoCmd}, iq_active'[k] \subseteq Trx(ServerOf[k]),
           FromClient(k, lines'[k]), FromClient(k, sock'[k]),
           phase'[k] # "loop" => lines'[k] = <<>> /\ pending'[k] = NoCmd
    PROVE  SessionOK(k)'
BY DEF SessionOK

\* So is one that writes reports.
LEMMA WritingOK ==
    ASSUME TypeInv, NEW k \in Session, NEW s, NEW ls, IsSeq(ls),
           \A p \in Param[ServerOf[k]] : Holds(p, s[p]), Reports(ServerOf[k], s, ls),
           out'[k] = ls, view'[k] = view[k],
           phase'[k] \in Phases \ {"offline"},
           pending'[k] \in Offers \cup {NoCmd}, iq_active'[k] \subseteq Trx(ServerOf[k]),
           FromClient(k, lines'[k]), sock'[k] = sock[k],
           phase'[k] # "loop" => lines'[k] = <<>> /\ pending'[k] = NoCmd
    PROVE  SessionOK(k)'
<1>1. ServerOf[k] \in Endpoint
  BY ServerAssumption
<1>2. \A q \in Param[ServerOf[k]] : \A i \in DOMAIN ls : About(ls[i], q) => IsReport(q, ls[i])
  BY <1>1, ReportsAreReports
<1> QED  BY <1>2 DEF TypeInv, SessionOK

\* A connection that is gone.
LEMMA GoneOK ==
    ASSUME TypeInv, NEW k \in Session, Closed(k), pending[k] = NoCmd, pending' = pending
    PROVE  SessionOK(k)'
<1>1. /\ phase'[k] = "offline" /\ sock'[k] = <<>> /\ lines'[k] = <<>> /\ out'[k] = <<>>
      /\ iq_active'[k] = {} /\ view'[k] = Untold(ServerOf[k]) /\ pending'[k] = NoCmd
  BY DEF TypeInv, DomainsOK, Closed
<1>2. /\ DOMAIN Untold(ServerOf[k]) = Param[ServerOf[k]]
      /\ \A p \in Param[ServerOf[k]] : Untold(ServerOf[k])[p] = NoLine
  BY DEF Untold
<1>3. IsSeq(<<>>) /\ FromClient(k, <<>>) /\ DOMAIN <<>> = {}
  BY NoLines
<1> QED  BY <1>1, <1>2, <1>3 DEF SessionOK, Phases

\* What has been sent was reports.
LEMMA ToldOK ==
    ASSUME TypeInv, NEW k \in Session, Tell(k)
    PROVE  SessionOK(k)'
<1> DEFINE e == ServerOf[k]
<1>1. /\ phase' = phase /\ pending' = pending /\ iq_active' = iq_active /\ lines' = lines
      /\ sock' = sock /\ out'[k] = <<>>
      /\ view'[k] = [p \in DOMAIN view[k] |-> Told(out[k], p, view[k][p])]
  BY DEF TypeInv, DomainsOK, Tell
<1>2. SessionOK(k)
  BY DEF TypeInv
<1>3. Len(out[k]) \in Nat /\ DOMAIN out[k] = 1 .. Len(out[k])
  BY <1>2, IsSeqDomain DEF SessionOK
<1>4. ASSUME NEW q \in Param[e]
      PROVE  view'[k][q] = NoLine \/ IsReport(q, view'[k][q])
  <2>1. view'[k][q] = Told(out[k], q, view[k][q])
    BY <1>1, <1>2 DEF SessionOK
  <2>2. view[k][q] = NoLine \/ IsReport(q, view[k][q])
    BY <1>2 DEF SessionOK
  <2>3. \A i \in DOMAIN out[k] : About(out[k][i], q) => IsReport(q, out[k][i])
    BY <1>2 DEF SessionOK
  <2>4. \/ Told(out[k], q, view[k][q]) = view[k][q]
        \/ \E i \in DOMAIN out[k] : /\ About(out[k][i], q)
                                    /\ Told(out[k], q, view[k][q]) = out[k][i]
    BY <1>3, ToldBy
  <2> QED  BY <2>1, <2>2, <2>3, <2>4
<1>5. IsSeq(<<>>) /\ DOMAIN <<>> = {}
  BY NoLines
<1>6. DOMAIN view'[k] = Param[e]
  BY <1>1, <1>2 DEF SessionOK
<1> QED  BY <1>1, <1>2, <1>4, <1>5, <1>6 DEF SessionOK

LEMMA TypeInit == Init => TypeInv
<1> SUFFICES ASSUME Init PROVE TypeInv
  OBVIOUS
<1>1. ASSUME NEW e \in Endpoint, NEW p \in Param[e] PROVE Holds(p, new_with_initial(e)[p])
  <2> DEFINE v == new_with_initial(e)[p]
  <2>1. p[1] \in Names /\ (p[1] \in {"vfo", "dds", "modulation"} => p[2] \in Trx(e))
    BY ParamShape DEF Param
  <2>2. TrxCount[e] \in Nat \ {0} /\ Trx(e) = 0 .. TrxCount[e] - 1
    BY TrxCounted
  <2>3. CASE p[1] \in {"vfo", "dds"}
    <3>1. v = <<InitialFreq(e, p[2], p[3])>>
      BY <2>3 DEF new_with_initial
    <3>2. p[2] \in Nat
      BY <2>1, <2>2, <2>3
    <3>3. IsSeq(TrxConfig[e])
      BY ServerAssumption
    <3>4. Len(TrxConfig[e]) \in Nat /\ DOMAIN TrxConfig[e] = 1 .. Len(TrxConfig[e])
      BY <3>3, IsSeqDomain
    <3>5. ~(p[2] >= Len(TrxConfig[e])) => p[2] + 1 \in DOMAIN TrxConfig[e]
      BY <3>2, <3>4
    <3>6. \A i \in DOMAIN TrxConfig[e] : /\ TrxConfig[e][i].freq \in U64
                                        /\ TrxConfig[e][i].freq_b \in U64 \cup {NoFreqB}
      BY ServerAssumption
    <3>7. InitialFreq(e, p[2], p[3]) \in U64
      BY <3>5, <3>6, DefaultsFit DEF InitialFreq
    <3> QED  BY <2>3, <3>1, <3>7 DEF Holds
  <2>4. CASE p[1] = "if"
    BY <2>4, DefaultsFit DEF Holds, new_with_initial
  <2>5. CASE p[1] = "rx_channel_enable"
    BY <2>5 DEF Holds, new_with_initial
  <2>6. CASE p[1] = "modulation"
    BY <2>6 DEF Holds, new_with_initial
  <2>7. CASE p[1] = "rx_filter_band"
    <3>1. v = DefaultFilter
      BY <2>7 DEF new_with_initial
    <3>2. DefaultFilter = <<DefaultFilter[1], DefaultFilter[2]>>
      BY DEF DefaultFilter
    <3>3. DefaultFilter[1] \in I32 /\ DefaultFilter[2] \in I32
      BY DefaultsFit
    <3> QED  BY <2>7, <3>1, <3>2, <3>3 DEF Holds
  <2>8. CASE p[1] = "iq_samplerate"
    <3>1. v = <<IqSamplerate[e]>> /\ IqSamplerate[e] \in U32
      BY <2>8, ServerAssumption DEF new_with_initial
    <3> QED  BY <2>8, <3>1 DEF Holds
  <2> QED  BY <2>1, <2>3, <2>4, <2>5, <2>6, <2>7, <2>8 DEF Names
<1>2. StateOK
  BY <1>1 DEF Init, StateOK, new_with_initial
<1>3. DomainsOK
  BY DEF Init, DomainsOK
<1>4. ASSUME NEW k \in Session PROVE SessionOK(k)
  <2>1. IsSeq(<<>>) /\ FromClient(k, <<>>) /\ DOMAIN <<>> = {}
    BY NoLines
  <2>2. /\ DOMAIN Untold(ServerOf[k]) = Param[ServerOf[k]]
        /\ \A p \in Param[ServerOf[k]] : Untold(ServerOf[k])[p] = NoLine
    BY DEF Untold
  <2>3. /\ phase[k] = "offline" /\ sock[k] = <<>> /\ lines[k] = <<>> /\ out[k] = <<>>
        /\ iq_active[k] = {} /\ view[k] = Untold(ServerOf[k]) /\ pending[k] = NoCmd
    BY DEF Init
  <2> QED  BY <2>1, <2>2, <2>3 DEF SessionOK, Phases
<1>5. cmds \in Seq(Offers) /\ Len(cmds) <= CmdCap
  <2>1. cmds = <<>> /\ CmdCap \in Nat
    BY ServerAssumption DEF Init
  <2> QED  BY <2>1
<1> QED  BY <1>2, <1>3, <1>4, <1>5 DEF TypeInv

LEMMA TypeOfStep ==
    ASSUME TypeInv, NEW k \in Session, Steps(k), StateOK', SessionOK(k)',
           cmds' \in Seq(Offers), Len(cmds') <= CmdCap
    PROVE  TypeInv'
<1>1. DomainsOK' /\ OthersStay(k)
  BY OneSessionMoves DEF TypeInv
<1>2. ASSUME NEW j \in Session \ {k} PROVE SessionOK(j)'
  BY <1>1, <1>2 DEF TypeInv, SessionOK, OthersStay
<1> QED  BY <1>1, <1>2 DEF TypeInv

LEMMA TypeStep ==
    ASSUME TypeInv, NEW k \in Session, Steps(k)
    PROVE  TypeInv'
<1> DEFINE e == ServerOf[k]
           rate == <<"iq_samplerate", 0, 0>>
<1>1. e \in Endpoint /\ CmdCap \in Nat
  BY ServerAssumption
<1>2. StateOK /\ DomainsOK /\ SessionOK(k) /\ cmds \in Seq(Offers) /\ Len(cmds) <= CmdCap
  BY DEF TypeInv
<1>3. \A p \in Param[e] : Holds(p, state[e][p])
  BY <1>1, <1>2 DEF StateOK
<1>4. state' = state => StateOK'
  BY <1>2 DEF StateOK
<1> USE DEF DomainsOK
<1>5. CASE Connect(k)
  <2>1. rate \in Param[e]
    BY <1>1 DEF Param
  <2>2. /\ IsSeq(Handshake(e, state[e][rate]))
        /\ Reports(e, state[e], Handshake(e, state[e][rate]))
    BY <1>1, <1>3, <2>1, HandshakeLines
  <2>3. /\ phase'[k] = "handshake" /\ out'[k] = Handshake(e, state[e][rate])
        /\ phase[k] = "offline"
        /\ UNCHANGED <<state, cmds, sock, lines, pending, iq_active, view>>
    BY <1>2, <1>5 DEF Connect
  <2>4. SessionOK(k)'
    BY <1>2, <1>3, <2>2, <2>3, WritingOK DEF SessionOK, Phases
  <2> QED  BY <1>2, <1>4, <2>3, <2>4, TypeOfStep
<1>6. CASE DumpState(k)
  <2>1. /\ IsSeq(current_state_messages(e))
        /\ Reports(e, state[e], current_state_messages(e))
    BY <1>1, <1>3, DumpLines
  <2>2. /\ phase'[k] = "dump" /\ out'[k] = current_state_messages(e)
        /\ phase[k] = "handshake"
        /\ UNCHANGED <<state, cmds, sock, lines, pending, iq_active, view>>
    BY <1>2, <1>6 DEF DumpState
  <2>3. SessionOK(k)'
    BY <1>2, <1>3, <2>1, <2>2, WritingOK DEF SessionOK, Phases
  <2> QED  BY <1>2, <1>4, <2>2, <2>3, TypeOfStep
<1>7. CASE Subscribe(k)
  <2>1. /\ phase'[k] = "loop" /\ phase[k] = "dump"
        /\ UNCHANGED <<state, cmds, sock, lines, pending, out, iq_active, view>>
    BY <1>2, <1>7 DEF Subscribe
  <2>2. SessionOK(k)'
    BY <1>2, <2>1 DEF SessionOK, Phases
  <2> QED  BY <1>2, <1>4, <2>1, <2>2, TypeOfStep
<1>8. CASE Tell(k)
  <2>1. state' = state /\ cmds' = cmds
    BY <1>8 DEF Tell
  <2>2. SessionOK(k)'
    BY <1>8, ToldOK
  <2> QED  BY <1>2, <1>4, <2>1, <2>2, TypeOfStep
<1>9. CASE SendFrame(k)
  <2>1. /\ phase'[k] = "loop" /\ phase[k] = "frame"
        /\ UNCHANGED <<state, cmds, sock, lines, pending, out, iq_active, view>>
    BY <1>2, <1>9 DEF SendFrame
  <2>2. SessionOK(k)'
    BY <1>2, <2>1 DEF SessionOK, Phases
  <2> QED  BY <1>2, <1>4, <2>1, <2>2, TypeOfStep
<1>10. CASE send_bridge_cmd(k)
  <2>1. /\ pending[k] # NoCmd /\ pending'[k] = NoCmd
        /\ cmds' = IF Len(cmds) < CmdCap THEN Append(cmds, pending[k]) ELSE cmds
        /\ UNCHANGED <<state, phase, sock, lines, out, iq_active, view>>
    BY <1>2, <1>10 DEF send_bridge_cmd
  <2>2. SessionOK(k)'
    BY <1>2, <2>1 DEF SessionOK
  <2>3. pending[k] \in Offers
    BY <1>2, <2>1 DEF SessionOK
  <2>4. cmds' \in Seq(Offers) /\ Len(cmds') <= CmdCap
    <3>1. CASE Len(cmds) < CmdCap
      <4>1. Append(cmds, pending[k]) \in Seq(Offers) /\ Len(Append(cmds, pending[k])) = Len(cmds) + 1
        BY <1>2, <2>3, AppendProperties
      <4>2. Len(cmds) \in Nat
        BY <1>2, LenProperties
      <4> QED  BY <1>1, <2>1, <3>1, <4>1, <4>2
    <3>2. CASE ~(Len(cmds) < CmdCap)
      BY <1>2, <2>1, <3>2
    <3> QED  BY <3>1, <3>2
  <2> QED  BY <1>4, <2>1, <2>2, <2>4, TypeOfStep
<1>11. CASE HandleLine(k)
  <2>1. /\ phase[k] = "loop" /\ out[k] = <<>> /\ pending[k] = NoCmd /\ lines[k] # <<>>
        /\ lines' = [lines EXCEPT ![k] = Tail(@)]
        /\ UNCHANGED <<cmds, phase, sock, view>>
    BY <1>11, LineStep
  <2>2. FromClient(k, lines'[k])
    BY <1>2, <2>1, NextLine DEF SessionOK
  <2>3. ASSUME NEW p \in Param[e], NEW v, Holds(p, v),
               state' = [state EXCEPT ![e] = Stored(@, p, v)],
               pending' = [pending EXCEPT ![k] = CmdFor(e, p, v)],
               out' = [out EXCEPT ![k] = <<Report(p, v)>>], UNCHANGED iq_active
        PROVE  TypeInv'
    <3>1. DOMAIN state = Endpoint /\ DOMAIN state[e] = Param[e]
      BY <1>1, <1>2 DEF StateOK
    <3>2. state'[e] = Stored(state[e], p, v)
      BY <1>1, <2>3, <3>1
    <3>3. /\ DOMAIN state'[e] = Param[e] /\ state'[e][p] = v
          /\ \A q \in Param[e] : Holds(q, state'[e][q])
      BY <1>1, <1>3, <2>3, <3>1, <3>2, StoredHolds
    <3>4. StateOK'
      <4>1. DOMAIN state' = Endpoint /\ \A f \in Endpoint \ {e} : state'[f] = state[f]
        BY <2>3, <3>1
      <4> QED  BY <1>2, <3>3, <4>1 DEF StateOK
    <3>5. Reports(e, state'[e], <<Report(p, v)>>)
      BY <1>1, <2>3, <3>3, OneReport
    <3>6. CmdFor(e, p, v) \in Offers \cup {NoCmd}
      BY <1>1, <2>3, CmdOffered
    <3>7. IsSeq(<<Report(p, v)>>)
      BY ShortTuples, SeqIsSeq
    <3>8. /\ out'[k] = <<Report(p, v)>> /\ pending'[k] = CmdFor(e, p, v)
          /\ iq_active'[k] \subseteq Trx(e)
      BY <1>2, <2>3 DEF SessionOK
    <3>9. SessionOK(k)'
      BY <2>1, <2>2, <3>3, <3>5, <3>6, <3>7, <3>8, WritingOK DEF Phases
    <3> QED  BY <1>2, <2>1, <3>4, <3>9, TypeOfStep
  <2>4. ASSUME UNCHANGED <<state, pending, iq_active>>, NEW l,
               out' = [out EXCEPT ![k] = <<l>>], Reports(e, state[e], <<l>>)
        PROVE  TypeInv'
    <3>1. IsSeq(<<l>>)
      BY ShortTuples, SeqIsSeq
    <3>2. /\ out'[k] = <<l>> /\ pending'[k] \in Offers \cup {NoCmd}
          /\ iq_active'[k] \subseteq Trx(e)
      BY <1>2, <2>4 DEF SessionOK
    <3>3. SessionOK(k)'
      BY <1>3, <2>1, <2>2, <2>4, <3>1, <3>2, WritingOK DEF Phases
    <3> QED  BY <1>2, <1>4, <2>1, <2>4, <3>3, TypeOfStep
  <2>5. ASSUME UNCHANGED <<state, pending, out>>, iq_active'[k] \subseteq Trx(e)
        PROVE  TypeInv'
    <3>1. SessionOK(k)'
      BY <1>2, <2>1, <2>2, <2>5 DEF SessionOK
    <3> QED  BY <1>2, <1>4, <2>1, <2>5, <3>1, TypeOfStep
  <2> QED  BY <1>11, <2>3, <2>4, <2>5, LineStep
<1>12. CASE TellFails(k)
  <2>1. Closed(k) /\ pending[k] = NoCmd /\ UNCHANGED <<state, cmds, pending>>
    BY <1>12 DEF TellFails
  <2>2. SessionOK(k)'
    BY <2>1, GoneOK
  <2> QED  BY <1>2, <1>4, <2>1, <2>2, TypeOfStep
<1>13. CASE RecvMessage(k)
  <2>1. /\ phase[k] = "loop" /\ lines'[k] = sock[k] /\ sock'[k] = <<>>
        /\ UNCHANGED <<state, cmds, phase, pending, out, iq_active, view>>
    BY <1>2, <1>13 DEF RecvMessage, Selecting
  <2>2. FromClient(k, <<>>)
    BY NoLines
  <2>3. SessionOK(k)'
    BY <1>2, <2>1, <2>2 DEF SessionOK
  <2> QED  BY <1>2, <1>4, <2>1, <2>3, TypeOfStep
<1>14. CASE RecvClose(k)
  <2>1. Closed(k) /\ pending[k] = NoCmd /\ UNCHANGED <<state, cmds, pending>>
    BY <1>14 DEF RecvClose, Selecting, Sent
  <2>2. SessionOK(k)'
    BY <2>1, GoneOK
  <2> QED  BY <1>2, <1>4, <2>1, <2>2, TypeOfStep
<1>15. CASE RecvFrame(k)
  <2>1. /\ phase'[k] = "frame" /\ phase[k] = "loop" /\ out[k] = <<>> /\ pending[k] = NoCmd
        /\ lines[k] = <<>>
        /\ UNCHANGED <<state, cmds, sock, lines, pending, out, iq_active, view>>
    BY <1>2, <1>15 DEF RecvFrame, Selecting, Sent
  <2>2. SessionOK(k)'
    BY <1>2, <2>1 DEF SessionOK, Phases
  <2> QED  BY <1>2, <1>4, <2>1, <2>2, TypeOfStep
<1>16. ASSUME NEW m \in Message[k], ClientSends(k, m) PROVE TypeInv'
  <2>1. sock'[k] = m /\ UNCHANGED <<state, cmds, taskVars, view>>
    BY <1>2, <1>16 DEF ClientSends
  <2>2. IsSeq(m)
    BY ServerAssumption
  <2>3. FromClient(k, m)
    BY <2>2 DEF FromClient
  <2>4. SessionOK(k)'
    BY <1>2, <2>1, <2>3 DEF SessionOK, taskVars
  <2> QED  BY <1>2, <1>4, <2>1, <2>4, TypeOfStep DEF taskVars
<1> QED  BY <1>5, <1>6, <1>7, <1>8, <1>9, <1>10, <1>11, <1>12, <1>13, <1>14, <1>15, <1>16
         DEF Steps, Works

\* What the servers store, tell and offer is always as the protocol has it.
LEMMA TypePreserved == TypeInv /\ [Next]_vars => TypeInv'
<1> SUFFICES ASSUME TypeInv, [Next]_vars PROVE TypeInv'
  OBVIOUS
<1>1. ASSUME NEW k \in Session, Steps(k) PROVE TypeInv'
  BY <1>1, TypeStep
<1>2. CASE BridgeReceives
  <2>1. cmds \in Seq(Offers) /\ Len(cmds) <= CmdCap /\ cmds # <<>> /\ cmds' = Tail(cmds)
    BY <1>2 DEF BridgeReceives, TypeInv
  <2>2. Len(Tail(cmds)) = Len(cmds) - 1 /\ Tail(cmds) \in Seq(Offers) /\ Len(cmds) \in Nat
    BY <2>1, HeadTailProperties, LenProperties
  <2>3. Len(cmds') <= CmdCap
    BY <2>1, <2>2, ServerAssumption
  <2>4. UNCHANGED <<state, phase, lines, pending, out, iq_active, sock, view>>
    BY <1>2 DEF BridgeReceives, taskVars
  <2>5. (StateOK /\ DomainsOK)' /\ \A k \in Session : SessionOK(k)'
    BY <2>4 DEF TypeInv, StateOK, DomainsOK, SessionOK
  <2> QED  BY <2>1, <2>2, <2>3, <2>5 DEF TypeInv
<1>3. CASE UNCHANGED vars
  BY <1>3 DEF vars, taskVars, TypeInv, StateOK, DomainsOK, SessionOK
<1> QED  BY <1>1, <1>2, <1>3 DEF Next, Steps

-----------------------------------------------------------------------------
(* What the clients know. *)

\* What a step of session k does to what its client will know, and to the state.
LEMMA LatestStep ==
    ASSUME TypeInv, NEW k \in Session, Steps(k)
    PROVE  LET e == ServerOf[k] IN
           \/ /\ state' = state /\ (phase'[k] = "dump" => phase[k] = "dump")
              /\ \/ \A q \in Param[e] : Latest(k, q)' = Latest(k, q)
                 \/ phase'[k] # "dump" /\ \A q \in Param[e] : Latest(k, q)' = NoLine
                 \/ /\ phase'[k] # "dump"
                    /\ \A q \in Param[e] : Latest(k, q)' \in {Latest(k, q), Report(q, state[e][q])}
           \/ /\ state' = state
              /\ \A q \in Param[e] : Latest(k, q)' \in {Latest(k, q), Report(q, state[e][q])}
              /\ \A t \in Trx(e) : \A q \in {<<"vfo", t, 0>>, <<"dds", t, 0>>} :
                    Latest(k, q)' = Report(q, state[e][q])
           \/ /\ phase'[k] # "dump"
              /\ \E p \in Param[e] : \E v :
                    /\ Holds(p, v) /\ Sets(k, p)
                    /\ state' = [state EXCEPT ![e] = Stored(@, p, v)]
                    /\ Latest(k, p)' = Report(p, v)
                    /\ \A q \in Param[e] \ {p} : Latest(k, q)' = Latest(k, q)
<1> DEFINE e == ServerOf[k]
           rate == <<"iq_samplerate", 0, 0>>
<1>1. e \in Endpoint
  BY ServerAssumption
<1>2. StateOK /\ DomainsOK /\ SessionOK(k)
  BY DEF TypeInv
<1>3. \A p \in Param[e] : Holds(p, state[e][p])
  BY <1>1, <1>2 DEF StateOK
\* Lines written when nothing was left to send.
<1>4. ASSUME out[k] = <<>>, view' = view, NEW s, NEW ls, IsSeq(ls), out'[k] = ls,
             Reports(e, s, ls), NEW q \in Param[e]
      PROVE  /\ Latest(k, q)' \in {Latest(k, q), Report(q, s[q])}
             /\ (\E i \in DOMAIN ls : About(ls[i], q)) => Latest(k, q)' = Report(q, s[q])
             /\ (\A i \in DOMAIN ls : ~About(ls[i], q)) => Latest(k, q)' = Latest(k, q)
  <2>1. Latest(k, q) = view[k][q] /\ Latest(k, q)' = Told(ls, q, view[k][q])
    BY <1>4, ToldNothing DEF Latest
  <2>2. Len(ls) \in Nat /\ DOMAIN ls = 1 .. Len(ls)
    BY <1>4, IsSeqDomain
  <2>3. \/ Told(ls, q, view[k][q]) = view[k][q] /\ \A i \in DOMAIN ls : ~About(ls[i], q)
        \/ \E i \in DOMAIN ls : About(ls[i], q) /\ Told(ls, q, view[k][q]) = ls[i]
    BY <2>2, ToldBy
  <2>4. \A i \in DOMAIN ls : About(ls[i], q) => ls[i] = Report(q, s[q])
    BY <1>4 DEF Reports
  <2> QED  BY <2>1, <2>3, <2>4
<1>5. ASSUME out'[k] = out[k], view' = view, state' = state, phase'[k] = "dump" => phase[k] = "dump"
      PROVE  /\ state' = state /\ (phase'[k] = "dump" => phase[k] = "dump")
             /\ \A q \in Param[e] : Latest(k, q)' = Latest(k, q)
  BY <1>5 DEF Latest
<1>6. ASSUME Closed(k), state' = state
      PROVE  /\ state' = state /\ phase'[k] # "dump"
             /\ \A q \in Param[e] : Latest(k, q)' = NoLine
  <2>1. phase'[k] = "offline" /\ out'[k] = <<>> /\ view'[k] = Untold(e)
    BY <1>2, <1>6 DEF DomainsOK, Closed
  <2>2. \A q \in Param[e] : Latest(k, q)' = NoLine
    BY <2>1, ToldNothing DEF Latest, Untold
  <2> QED  BY <1>6, <2>1, <2>2
<1> USE DEF DomainsOK
<1>7. CASE Connect(k)
  <2>1. rate \in Param[e]
    BY <1>1 DEF Param
  <2>2. /\ IsSeq(Handshake(e, state[e][rate]))
        /\ Reports(e, state[e], Handshake(e, state[e][rate]))
    BY <1>1, <1>3, <2>1, HandshakeLines
  <2>3. /\ phase[k] = "offline" /\ phase'[k] = "handshake" /\ state' = state /\ view' = view
        /\ out'[k] = Handshake(e, state[e][rate])
    BY <1>2, <1>7 DEF Connect
  <2>4. out[k] = <<>>
    BY <1>2, <2>3 DEF SessionOK
  <2>5. \A q \in Param[e] : Latest(k, q)' \in {Latest(k, q), Report(q, state[e][q])}
    BY <1>4, <2>2, <2>3, <2>4
  <2> QED  BY <2>3, <2>5
<1>8. CASE DumpState(k)
  <2> DEFINE d == current_state_messages(e)
  <2>1. /\ IsSeq(d) /\ Reports(e, state[e], d)
        /\ \A t \in Trx(e) : /\ \E i \in DOMAIN d : About(d[i], <<"dds", t, 0>>)
                             /\ \E i \in DOMAIN d : About(d[i], <<"vfo", t, 0>>)
    BY <1>1, <1>3, DumpLines
  <2>2. state' = state /\ view' = view /\ out'[k] = d /\ out[k] = <<>>
    BY <1>2, <1>8 DEF DumpState, Sent
  <2> HIDE DEF d
  <2>3. \A q \in Param[e] : Latest(k, q)' \in {Latest(k, q), Report(q, state[e][q])}
    BY <1>4, <2>1, <2>2
  <2>4. ASSUME NEW t \in Trx(e), NEW q \in {<<"vfo", t, 0>>, <<"dds", t, 0>>}
        PROVE  Latest(k, q)' = Report(q, state[e][q])
    <3>1. q \in Param[e]
      BY <1>1 DEF Param
    <3>2. \E i \in DOMAIN d : About(d[i], q)
      BY <2>1
    <3> QED  BY <1>4, <2>1, <2>2, <3>1, <3>2
  <2> QED  BY <2>2, <2>3, <2>4
<1>9. CASE Subscribe(k)
  <2>1. out'[k] = out[k] /\ view' = view /\ state' = state /\ phase'[k] = "loop"
    BY <1>2, <1>9 DEF Subscribe
  <2> QED  BY <1>5, <2>1
<1>10. CASE Tell(k)
  <2>1. /\ state' = state /\ phase' = phase /\ out'[k] = <<>>
        /\ view'[k] = [p \in DOMAIN view[k] |-> Told(out[k], p, view[k][p])]
    BY <1>2, <1>10 DEF Tell
  <2>2. DOMAIN view[k] = Param[e]
    BY <1>2 DEF SessionOK
  <2>3. \A q \in Param[e] : Latest(k, q)' = Latest(k, q)
    BY <2>1, <2>2, ToldNothing DEF Latest
  <2> QED  BY <2>1, <2>3
<1>11. CASE SendFrame(k)
  <2>1. out'[k] = out[k] /\ view' = view /\ state' = state /\ phase'[k] = "loop"
    BY <1>2, <1>11 DEF SendFrame
  <2> QED  BY <1>5, <2>1
<1>12. CASE send_bridge_cmd(k)
  <2>1. out'[k] = out[k] /\ view' = view /\ state' = state /\ phase' = phase
    BY <1>2, <1>12 DEF send_bridge_cmd
  <2> QED  BY <1>5, <2>1
<1>13. CASE HandleLine(k)
  <2>1. phase[k] = "loop" /\ phase' = phase /\ out[k] = <<>> /\ view' = view
    BY <1>13, LineStep
  <2>2. ASSUME NEW p \in Param[e], NEW v, Holds(p, v), out' = [out EXCEPT ![k] = <<Report(p, v)>>]
        PROVE  /\ Latest(k, p)' = Report(p, v)
               /\ \A q \in Param[e] \ {p} : Latest(k, q)' = Latest(k, q)
    <3> DEFINE ls == <<Report(p, v)>>
               s == [q \in {p} |-> v]
    <3>1. IsSeq(ls) /\ DOMAIN ls = {1} /\ ls[1] = Report(p, v)
      <4>1. ls \in Seq({Report(p, v)}) /\ Len(ls) = 1 /\ ls[1] = Report(p, v)
        BY ShortTuples
      <4>2. DOMAIN ls = 1 .. 1
        OBVIOUS
      <4> HIDE DEF ls
      <4>3. 1 .. 1 = {1}
        OBVIOUS
      <4> QED  BY <4>1, <4>2, <4>3, SeqIsSeq
    <3>2. s[p] = v
      OBVIOUS
    <3> HIDE DEF ls, s
    <3>3. \A q \in Param[e] : About(ls[1], q) <=> q = p
      BY <1>1, <2>2, <3>1, ReportAbout
    <3>4. Reports(e, s, ls)
      BY <3>1, <3>2, <3>3 DEF Reports
    <3>5. out'[k] = ls
      BY <1>2, <2>2 DEF ls
    <3>6. Latest(k, p)' = Report(p, s[p])
      <4>1. \E i \in DOMAIN ls : About(ls[i], p)
        BY <3>1, <3>3
      <4> QED  BY <1>4, <2>1, <3>1, <3>4, <3>5, <4>1
    <3>7. ASSUME NEW q \in Param[e] \ {p} PROVE Latest(k, q)' = Latest(k, q)
      <4>1. \A i \in DOMAIN ls : ~About(ls[i], q)
        BY <3>1, <3>3
      <4> QED  BY <1>4, <2>1, <3>1, <3>4, <3>5, <4>1
    <3> QED  BY <3>2, <3>6, <3>7
  <2>3. ASSUME UNCHANGED <<state, pending, iq_active>>, NEW l,
               out' = [out EXCEPT ![k] = <<l>>], Reports(e, state[e], <<l>>)
        PROVE  \A q \in Param[e] : Latest(k, q)' \in {Latest(k, q), Report(q, state[e][q])}
    <3>1. IsSeq(<<l>>)
      BY ShortTuples, SeqIsSeq
    <3>2. out'[k] = <<l>>
      BY <1>2, <2>3
    <3> QED  BY <1>4, <2>1, <2>3, <3>1, <3>2
  <2>4. \/ \E p \in Param[e] : \E v :
              /\ Holds(p, v) /\ Sets(k, p)
              /\ state' = [state EXCEPT ![e] = Stored(@, p, v)]
              /\ out' = [out EXCEPT ![k] = <<Report(p, v)>>]
        \/ /\ UNCHANGED <<state, pending, iq_active>>
           /\ \E l : out' = [out EXCEPT ![k] = <<l>>] /\ Reports(e, state[e], <<l>>)
        \/ UNCHANGED <<state, pending, out>>
    BY <1>13, LineStep
  <2>5. phase'[k] # "dump"
    BY <2>1
  <2>6. CASE \E p \in Param[e] : \E v :
                /\ Holds(p, v) /\ Sets(k, p)
                /\ state' = [state EXCEPT ![e] = Stored(@, p, v)]
                /\ out' = [out EXCEPT ![k] = <<Report(p, v)>>]
    BY <2>2, <2>5, <2>6
  <2>7. CASE /\ UNCHANGED <<state, pending, iq_active>>
             /\ \E l : out' = [out EXCEPT ![k] = <<l>>] /\ Reports(e, state[e], <<l>>)
    <3>1. \A q \in Param[e] : Latest(k, q)' \in {Latest(k, q), Report(q, state[e][q])}
      BY <2>3, <2>7
    <3> QED  BY <2>5, <2>7, <3>1
  <2>8. CASE UNCHANGED <<state, pending, out>>
    BY <1>5, <2>1, <2>5, <2>8
  <2> QED  BY <2>4, <2>6, <2>7, <2>8
<1>14. CASE TellFails(k)
  <2>1. Closed(k) /\ state' = state
    BY <1>14 DEF TellFails
  <2> QED  BY <1>6, <2>1
<1>15. CASE RecvMessage(k)
  <2>1. out'[k] = out[k] /\ view' = view /\ state' = state /\ phase' = phase
    BY <1>2, <1>15 DEF RecvMessage
  <2> QED  BY <1>5, <2>1
<1>16. CASE RecvClose(k)
  <2>1. Closed(k) /\ state' = state
    BY <1>16 DEF RecvClose
  <2> QED  BY <1>6, <2>1
<1>17. CASE RecvFrame(k)
  <2>1. out'[k] = out[k] /\ view' = view /\ state' = state /\ phase'[k] = "frame"
    BY <1>2, <1>17 DEF RecvFrame
  <2> QED  BY <1>5, <2>1
<1>18. CASE \E m \in Message[k] : ClientSends(k, m)
  <2>1. out'[k] = out[k] /\ view' = view /\ state' = state /\ phase' = phase
    BY <1>2, <1>18 DEF ClientSends, taskVars
  <2> QED  BY <1>5, <2>1
<1> QED  BY <1>7, <1>8, <1>9, <1>10, <1>11, <1>12, <1>13, <1>14, <1>15, <1>16, <1>17, <1>18
         DEF Steps, Works

LEMMA OthersLatest ==
    ASSUME NEW k \in Session, OthersStay(k), NEW j \in Session \ {k}
    PROVE  phase'[j] = phase[j] /\ \A q : Latest(j, q)' = Latest(j, q)
BY DEF OthersStay, Latest

\* What a set leaves alone.
LEMMA Untouched ==
    ASSUME TypeInv, NEW e \in Endpoint, NEW p \in Param[e], NEW v, Holds(p, v),
           state' = [state EXCEPT ![e] = Stored(@, p, v)]
    PROVE  /\ \A d \in Endpoint \ {e} : state'[d] = state[d]
           /\ state'[e][p] = v
           /\ \A q \in Param[e] : q # p /\ ~(p[1] = "vfo" /\ p[3] = 0 /\ q = <<"dds", p[2], 0>>)
                 => state'[e][q] = state[e][q]
<1>1. DOMAIN state = Endpoint /\ DOMAIN state[e] = Param[e] /\ \A q \in Param[e] : Holds(q, state[e][q])
  BY DEF TypeInv, StateOK
<1>2. state'[e] = Stored(state[e], p, v) /\ \A d \in Endpoint \ {e} : state'[d] = state[d]
  BY <1>1
<1> QED  BY <1>1, <1>2, StoredHolds

LEMMA KnowsStep ==
    ASSUME TypeInv, KnowsInv, NEW k \in Session, Steps(k)
    PROVE  KnowsInv'
<1> DEFINE e == ServerOf[k]
<1>1. e \in Endpoint /\ \A j \in Session : ServerOf[j] \in Endpoint
  BY ServerAssumption
<1>2. OthersStay(k)
  BY OneSessionMoves DEF TypeInv
<1>3. \A j \in Session : Own[j] \subseteq Param[ServerOf[j]]
  BY DEF Own
<1>4. ASSUME state' = state,
             \A q \in Param[e] : Latest(k, q)' \in {Latest(k, q), NoLine, Report(q, state[e][q])}
      PROVE  KnowsInv'
  <2>1. ASSUME NEW j \in Session, NEW q \in Own[j], Latest(j, q)' # NoLine
        PROVE  Latest(j, q)' = Report(q, state'[ServerOf[j]][q])
    <3>1. Latest(j, q) # NoLine => Latest(j, q) = Report(q, state[ServerOf[j]][q])
      BY DEF KnowsInv
    <3>2. CASE j = k
      BY <1>3, <1>4, <2>1, <3>1, <3>2
    <3>3. CASE j # k
      BY <1>2, <1>4, <2>1, <3>1, <3>3, OthersLatest
    <3> QED  BY <3>2, <3>3
  <2> QED  BY <2>1 DEF KnowsInv
<1>5. ASSUME NEW p \in Param[e], NEW v, Holds(p, v), Sets(k, p),
             state' = [state EXCEPT ![e] = Stored(@, p, v)], Latest(k, p)' = Report(p, v),
             \A q \in Param[e] \ {p} : Latest(k, q)' = Latest(k, q)
      PROVE  KnowsInv'
  <2>1. /\ \A d \in Endpoint \ {e} : state'[d] = state[d]
        /\ state'[e][p] = v
        /\ \A q \in Param[e] : q # p /\ ~(p[1] = "vfo" /\ p[3] = 0 /\ q = <<"dds", p[2], 0>>)
              => state'[e][q] = state[e][q]
    BY <1>1, <1>5, Untouched
  <2>2. p = <<p[1], p[2], p[3]>>
    BY <1>1, ParamShape
  <2>3. ASSUME NEW q, p[1] = "vfo", p[3] = 0, q = <<"dds", p[2], 0>>
        PROVE  Changes(k, q) /\ q[1] = "dds" /\ Sets(k, <<"vfo", q[2], 0>>)
    <3>1. q[1] = "dds" /\ q[2] = p[2] /\ p = <<"vfo", p[2], 0>>
      BY <2>2, <2>3
    <3> QED  BY <1>5, <3>1 DEF Changes
  <2>4. Changes(k, p)
    BY <1>5 DEF Changes
  <2>5. ASSUME NEW j \in Session, NEW q \in Own[j], Latest(j, q)' # NoLine
        PROVE  Latest(j, q)' = Report(q, state'[ServerOf[j]][q])
    <3>1. Latest(j, q) # NoLine => Latest(j, q) = Report(q, state[ServerOf[j]][q])
      BY DEF KnowsInv
    <3>2. /\ \A i \in Session \ {j} : ServerOf[i] = ServerOf[j] => ~Changes(i, q)
          /\ q[1] = "dds" => ~Sets(j, <<"vfo", q[2], 0>>)
      BY DEF Own
    <3>3. CASE j = k
      <4>1. CASE q = p
        BY <1>5, <2>1, <3>3, <4>1
      <4>2. CASE q # p
        <5>1. state'[e][q] = state[e][q]
          BY <1>3, <2>1, <2>3, <3>2, <3>3, <4>2
        <5> QED  BY <1>3, <1>5, <2>5, <3>1, <3>3, <4>2, <5>1
      <4> QED  BY <4>1, <4>2
    <3>4. CASE j # k
      <4>1. Latest(j, q)' = Latest(j, q)
        BY <1>2, <3>4, OthersLatest
      <4>2. CASE ServerOf[j] = e
        <5>1. ~Changes(k, q)
          BY <3>2, <3>4, <4>2
        <5>2. state'[e][q] = state[e][q]
          BY <1>3, <2>1, <2>3, <2>4, <4>2, <5>1
        <5> QED  BY <2>5, <3>1, <4>1, <4>2, <5>2
      <4>3. CASE ServerOf[j] # e
        BY <1>1, <2>1, <2>5, <3>1, <4>1, <4>3
      <4> QED  BY <4>2, <4>3
    <3> QED  BY <3>3, <3>4
  <2> QED  BY <2>5 DEF KnowsInv
<1>6. \/ /\ state' = state
         /\ \A q \in Param[e] : Latest(k, q)' \in {Latest(k, q), NoLine, Report(q, state[e][q])}
      \/ \E p \in Param[e] : \E v :
            /\ Holds(p, v) /\ Sets(k, p)
            /\ state' = [state EXCEPT ![e] = Stored(@, p, v)]
            /\ Latest(k, p)' = Report(p, v)
            /\ \A q \in Param[e] \ {p} : Latest(k, q)' = Latest(k, q)
  BY LatestStep
<1> QED  BY <1>4, <1>5, <1>6

LEMMA CenterStep ==
    ASSUME TypeInv, CenterInv, NEW k \in Session, Steps(k)
    PROVE  CenterInv'
<1> DEFINE e == ServerOf[k]
           vfo(t) == <<"vfo", t, 0>>
           dds(t) == <<"dds", t, 0>>
           Shown(j, t) == \E f \in U64 : /\ Latest(j, vfo(t)) = Report(vfo(t), <<f>>)
                                         /\ Latest(j, dds(t)) = Report(dds(t), <<f>>)
<1>1. e \in Endpoint /\ TypeInv'
  BY ServerAssumption, TypeStep
<1>2. OthersStay(k)
  BY OneSessionMoves DEF TypeInv
<1>3. \A d \in Endpoint : \A t \in FollowingTrx[d] :
         /\ t \in Trx(d) /\ vfo(t) \in Param[d] /\ dds(t) \in Param[d]
         /\ \A j \in Session : ServerOf[j] = d => ~Sets(j, dds(t))
  BY DEF FollowingTrx, Param
\* VFO A and the centre.
<1>4. ASSUME NEW d \in Endpoint, NEW t \in FollowingTrx[d]
      PROVE  state'[d][vfo(t)] = state'[d][dds(t)]
  <2>1. state[d][vfo(t)] = state[d][dds(t)]
    BY DEF CenterInv
  <2>2. CASE state' = state
    BY <2>1, <2>2
  <2>3. ASSUME NEW p \in Param[e], NEW v, Holds(p, v), Sets(k, p),
               state' = [state EXCEPT ![e] = Stored(@, p, v)]
        PROVE  state'[d][vfo(t)] = state'[d][dds(t)]
    <3>1. CASE d # e
      BY <1>1, <2>1, <2>3, <3>1, Untouched
    <3>2. CASE d = e
      <4>1. DOMAIN state = Endpoint /\ DOMAIN state[e] = Param[e]
        BY <1>1 DEF TypeInv, StateOK
      <4>2. state'[e] = Stored(state[e], p, v)
        BY <1>1, <2>3, <4>1
      <4>3. p # dds(t)
        BY <1>3, <2>3, <3>2
      <4>4. p = <<p[1], p[2], p[3]>>
        BY <1>1, ParamShape
      <4>5. CASE p = vfo(t)
        <5>1. p[1] = "vfo" /\ p[3] = 0 /\ dds(t) = <<"dds", p[2], 0>>
          BY <4>5
        <5>2. state'[e][vfo(t)] = v /\ state'[e][dds(t)] = v
          BY <1>3, <3>2, <4>1, <4>2, <4>5, <5>1 DEF Stored
        <5> QED  BY <3>2, <5>2
      <4>6. CASE p # vfo(t)
        <5>1. ~(p[1] = "vfo" /\ p[3] = 0 /\ dds(t) = <<"dds", p[2], 0>>)
          <6>1. dds(t) = <<"dds", p[2], 0>> => t = p[2]
            OBVIOUS
          <6> QED  BY <4>4, <4>6, <6>1
        <5>2. vfo(t) # <<"dds", p[2], 0>>
          OBVIOUS
        <5>3. vfo(t) \in Param[e] /\ dds(t) \in Param[e]
          BY <1>3, <3>2
        <5>4. \A q \in Param[e] :
                 q # p /\ ~(p[1] = "vfo" /\ p[3] = 0 /\ q = <<"dds", p[2], 0>>)
                 => state'[e][q] = state[e][q]
          BY <1>1, <2>3, Untouched
        <5> HIDE DEF vfo, dds
        <5>5. state'[e][vfo(t)] = state[e][vfo(t)] /\ state'[e][dds(t)] = state[e][dds(t)]
          BY <4>3, <4>6, <5>1, <5>2, <5>3, <5>4
        <5> QED  BY <2>1, <3>2, <5>5
      <4> QED  BY <4>5, <4>6
    <3> QED  BY <3>1, <3>2
  <2> QED  BY <2>2, <2>3, LatestStep
\* The dumps.
<1>5. ASSUME NEW d \in Endpoint, NEW t \in FollowingTrx[d],
             NEW j \in Session, ServerOf[j] = d, phase'[j] = "dump"
      PROVE  Shown(j, t)'
  <2>1. phase[j] = "dump" => Shown(j, t)
    BY <1>5 DEF CenterInv
  <2>2. CASE j # k
    <3>1. phase[j] = "dump" /\ \A q : Latest(j, q)' = Latest(j, q)
      BY <1>2, <1>5, <2>2, OthersLatest
    <3> QED  BY <2>1, <3>1
  <2>3. CASE j = k
    <3>1. \/ phase[k] = "dump" /\ \A q \in Param[e] : Latest(k, q)' = Latest(k, q)
          \/ /\ state' = state
             /\ \A q \in {vfo(t), dds(t)} : Latest(k, q)' = Report(q, state[e][q])
      BY <1>3, <1>5, <2>3, LatestStep
    <3>2. CASE phase[k] = "dump" /\ \A q \in Param[e] : Latest(k, q)' = Latest(k, q)
      <4>1. Latest(k, vfo(t))' = Latest(k, vfo(t)) /\ Latest(k, dds(t))' = Latest(k, dds(t))
        BY <1>3, <1>5, <2>3, <3>2
      <4> QED  BY <2>1, <2>3, <3>2, <4>1
    <3>3. CASE \A q \in {vfo(t), dds(t)} : Latest(k, q)' = Report(q, state[e][q])
      <4>1. state[e][vfo(t)] = state[e][dds(t)]
        BY <1>5, <2>3 DEF CenterInv
      <4>2. Holds(vfo(t), state[e][vfo(t)])
        BY <1>1, <1>3, <1>5, <2>3 DEF TypeInv, StateOK
      <4>3. PICK f \in U64 : state[e][vfo(t)] = <<f>>
        BY <4>2 DEF Holds
      <4> QED  BY <2>3, <3>3, <4>1, <4>3
    <3> QED  BY <3>1, <3>2, <3>3
  <2> QED  BY <2>2, <2>3
<1> QED  BY <1>4, <1>5 DEF CenterInv

\* What clients know, and what they are shown, survives every step.
LEMMA KnowledgePreserved ==
    TypeInv /\ KnowsInv /\ CenterInv /\ [Next]_vars => KnowsInv' /\ CenterInv'
<1> SUFFICES ASSUME TypeInv, KnowsInv, CenterInv, [Next]_vars PROVE KnowsInv' /\ CenterInv'
  OBVIOUS
<1>1. ASSUME NEW k \in Session, Steps(k) PROVE KnowsInv' /\ CenterInv'
  BY <1>1, KnowsStep, CenterStep
<1>2. ASSUME UNCHANGED <<state, phase, out, view>> PROVE KnowsInv' /\ CenterInv'
  BY <1>2 DEF KnowsInv, CenterInv, Latest
<1>3. CASE BridgeReceives
  BY <1>2, <1>3 DEF BridgeReceives, taskVars
<1>4. CASE UNCHANGED vars
  BY <1>2, <1>4 DEF vars, taskVars
<1> QED  BY <1>1, <1>3, <1>4 DEF Next, Steps

LEMMA KnowledgeInit == Init => KnowsInv /\ CenterInv
<1> SUFFICES ASSUME Init PROVE KnowsInv /\ CenterInv
  OBVIOUS
<1>1. ASSUME NEW k \in Session, NEW p \in Own[k] PROVE Latest(k, p) = NoLine
  <2>1. p \in Param[ServerOf[k]]
    BY DEF Own
  <2>2. out[k] = <<>> /\ view[k][p] = NoLine
    BY <2>1 DEF Init, Untold
  <2> QED  BY <2>2, ToldNothing DEF Latest
<1>2. ASSUME NEW e \in Endpoint, NEW t \in FollowingTrx[e]
      PROVE  state[e][<<"vfo", t, 0>>] = state[e][<<"dds", t, 0>>]
  <2>1. <<"vfo", t, 0>> \in Param[e] /\ <<"dds", t, 0>> \in Param[e]
    BY DEF FollowingTrx, Param
  <2>2. /\ new_with_initial(e)[<<"vfo", t, 0>>] = <<InitialFreq(e, t, 0)>>
        /\ new_with_initial(e)[<<"dds", t, 0>>] = <<InitialFreq(e, t, 0)>>
    BY <2>1 DEF new_with_initial
  <2> QED  BY <2>2 DEF Init
<1>3. \A k \in Session : phase[k] # "dump"
  BY DEF Init
<1> QED  BY <1>1, <1>2, <1>3 DEF KnowsInv, CenterInv

-----------------------------------------------------------------------------
(* The properties. *)

LEMMA TypesAreOK == TypeInv => TypeOK
<1> SUFFICES ASSUME TypeInv PROVE TypeOK
  OBVIOUS
<1>1. \A e \in Endpoint : /\ DOMAIN state[e] = Param[e]
                          /\ \A p \in Param[e] : IsValue(p, state[e][p])
  BY HoldsIsValue DEF TypeInv, StateOK
<1>2. ASSUME NEW k \in Session
      PROVE  /\ phase[k] \in Phases
             /\ pending[k] # NoCmd => pending[k].type \in {"Tune", "SetSr", "EnableRx"}
             /\ iq_active[k] \subseteq Trx(ServerOf[k])
             /\ phase[k] # "loop" => lines[k] = <<>> /\ pending[k] = NoCmd
  <2>1. SessionOK(k)
    BY DEF TypeInv
  <2>2. \A c \in Offers : c.type \in {"Tune", "SetSr", "EnableRx"}
    BY DEF Offers, Tune, SetSr, EnableRx
  <2> QED  BY <2>1, <2>2 DEF SessionOK
<1>3. ASSUME NEW k \in Session, NEW p \in Param[ServerOf[k]], view[k][p] # NoLine
      PROVE  parse_command(view[k][p]).cmd = SetterOf[p[1]]
  <2>1. IsReport(p, view[k][p])
    BY <1>3 DEF TypeInv, SessionOK
  <2>2. ServerOf[k] \in Endpoint
    BY ServerAssumption
  <2> QED  BY <2>1, <2>2, ReportRead DEF IsReport
<1>4. phase \in [Session -> Phases]
  BY <1>2 DEF TypeInv, DomainsOK
<1> QED  BY <1>1, <1>2, <1>3, <1>4 DEF TypeOK, TypeInv, Phases

LEMMA KnownIsRead ==
    ASSUME NEW k, NEW p, NEW v, ValueIn(p, parse_command(view[k][p]).args) = v
    PROVE  Known(k, p) = v
BY DEF Known, ValueIn

LEMMA ClientsKnow == TypeInv /\ KnowsInv => KnowsItsOwn
<1> SUFFICES ASSUME TypeInv, KnowsInv, NEW k \in Session, Selecting(k), NEW p \in Own[k],
                    view[k][p] # NoLine
             PROVE  Known(k, p) = state[ServerOf[k]][p]
  BY DEF KnowsItsOwn
<1>1. ServerOf[k] \in Endpoint /\ p \in Param[ServerOf[k]]
  BY ServerAssumption DEF Own
<1>2. Latest(k, p) = view[k][p]
  BY ToldNothing DEF Selecting, Sent, Latest
<1>3. view[k][p] = Report(p, state[ServerOf[k]][p])
  BY <1>2 DEF KnowsInv
<1>4. Holds(p, state[ServerOf[k]][p])
  BY <1>1 DEF TypeInv, StateOK
<1>5. ValueIn(p, parse_command(view[k][p]).args) = state[ServerOf[k]][p]
  <2> DEFINE v == state[ServerOf[k]][p]
  <2> HIDE DEF v
  <2>1. ValueIn(p, parse_command(Report(p, v)).args) = v
    BY <1>1, <1>4, ReportRead DEF v
  <2> QED  BY <1>3, <2>1 DEF v
<1> QED  BY <1>5, KnownIsRead

LEMMA CentersMatch == TypeInv /\ CenterInv => CenterIsVfoA
<1> SUFFICES ASSUME TypeInv, CenterInv, NEW e \in Endpoint, NEW t \in FollowingTrx[e]
             PROVE  /\ state[e][<<"vfo", t, 0>>] = state[e][<<"dds", t, 0>>]
                    /\ \A k \in Session : ServerOf[k] = e /\ phase[k] = "dump" /\ Sent(k)
                         => Known(k, <<"vfo", t, 0>>) = Known(k, <<"dds", t, 0>>)
  BY DEF CenterIsVfoA
<1>1. state[e][<<"vfo", t, 0>>] = state[e][<<"dds", t, 0>>]
  BY DEF CenterInv
<1>2. ASSUME NEW k \in Session, ServerOf[k] = e, phase[k] = "dump", Sent(k)
      PROVE  Known(k, <<"vfo", t, 0>>) = Known(k, <<"dds", t, 0>>)
  <2> DEFINE vfo == <<"vfo", t, 0>>
             dds == <<"dds", t, 0>>
  <2>1. vfo \in Param[e] /\ dds \in Param[e]
    BY DEF FollowingTrx, Param
  <2>2. vfo[1] = "vfo" /\ dds[1] = "dds"
    OBVIOUS
  <2>3. PICK f \in U64 : Latest(k, vfo) = Report(vfo, <<f>>) /\ Latest(k, dds) = Report(dds, <<f>>)
    BY <1>2 DEF CenterInv
  <2> HIDE DEF vfo, dds
  <2>4. Holds(vfo, <<f>>) /\ Holds(dds, <<f>>)
    BY <2>2 DEF Holds
  <2>5. view[k][vfo] = Report(vfo, <<f>>) /\ view[k][dds] = Report(dds, <<f>>)
    BY <1>2, <2>3, ToldNothing DEF Sent, Latest
  <2>6. /\ ValueIn(vfo, parse_command(view[k][vfo]).args) = <<f>>
        /\ ValueIn(dds, parse_command(view[k][dds]).args) = <<f>>
    BY <2>1, <2>4, <2>5, ReportRead
  <2>7. Known(k, vfo) = <<f>> /\ Known(k, dds) = <<f>>
    BY <2>6, KnownIsRead
  <2> QED  BY <2>7 DEF vfo, dds
<1> QED  BY <1>1, <1>2

\* For any endpoints, sessions, messages and capacities: every stored value is
\* one its setter can have parsed, whatever a client has been told parses as
\* that setter, and a session has a command to offer, or lines to handle, only
\* in its event loop (state.rs:87-160, server.rs:132-195, 217-449).
THEOREM ServerTypes == Spec => []TypeOK
BY TypeInit, TypePreserved, TypesAreOK, PTL DEF Spec

\* A client that is owed nothing knows every parameter it was ever told that
\* only it changes, for any number of clients, sessions, endpoints and messages
\* (server.rs:98-122, 169-195, 217-449).
THEOREM ClientsKnowTheirOwn == Spec => []KnowsItsOwn
BY TypeInit, TypePreserved, KnowledgeInit, KnowledgePreserved, ClientsKnow, PTL DEF Spec

\* The centre nobody sets is the frequency of VFO A, in the state and in every
\* dump, however the dumps and the sets of other clients interleave
\* (server.rs:232-238, state.rs:151).
THEOREM CenterFollowsVfoA == Spec => []CenterIsVfoA
BY TypeInit, TypePreserved, KnowledgeInit, KnowledgePreserved, CentersMatch, PTL DEF Spec

-----------------------------------------------------------------------------
(* The interface with the bridge. *)

LEMMA SameCommands ==
    /\ Interface!NoCmd = NoCmd
    /\ \A c, f : Interface!Tune(c, f) = Tune(c, f)
    /\ \A e, r : Interface!SetSr(e, r) = SetSr(e, r)
    /\ \A c, on : Interface!EnableRx(c, on) = EnableRx(c, on)
    /\ \A e, t, v : Interface!EndpointOf(<<e, t, v>>) = e
BY DEF Interface!NoCmd, NoCmd, Interface!Tune, Tune, Interface!SetSr, SetSr,
       Interface!EnableRx, EnableRx, Interface!EndpointOf

LEMMA TunedChannels ==
    /\ Interface!TunedChan = {c \in Channels : VfoOf(c) = 0}
    /\ \A e \in Endpoint : \A t \in Trx(e) :
         /\ <<e, t, 0>> \in Channels /\ <<e, t, 1>> \in Channels
         /\ <<e, t, 0>> \in Interface!TunedChan
    /\ \A c \in Channels : \E e \in Endpoint : \E t \in Trx(e) : \E v \in {0, 1} : c = <<e, t, v>>
<1>1. \A c \in Channels : \E e \in Endpoint : \E t \in Trx(e) : \E v \in {0, 1} : c = <<e, t, v>>
  BY DEF Channels
<1>2. Interface!TunedChan = {c \in Channels : VfoOf(c) = 0}
  BY <1>1 DEF Interface!TunedChan, Interface!EndpointOf, Interface!VfoOf, VfoOf
<1>3. \A e \in Endpoint : \A t \in Trx(e) : <<e, t, 0>> \in Channels /\ <<e, t, 1>> \in Channels
  BY DEF Channels
<1> QED  BY <1>1, <1>2, <1>3 DEF VfoOf

\* What a set does to what is announced.
LEMMA AnnouncedStep ==
    ASSUME TypeInv, NEW e \in Endpoint, NEW p \in Param[e], NEW v, Holds(p, v),
           state' = [state EXCEPT ![e] = Stored(@, p, v)]
    PROVE  /\ p[1] = "iq_samplerate" => AnnouncedRate' = [AnnouncedRate EXCEPT ![e] = v[1]]
           /\ p[1] # "iq_samplerate" => AnnouncedRate' = AnnouncedRate
           /\ p[1] = "vfo" /\ p[3] = 0 =>
                AnnouncedFreq' = [AnnouncedFreq EXCEPT ![<<e, p[2], 0>>] = v[1]]
           /\ ~(p[1] = "vfo" /\ p[3] = 0) => AnnouncedFreq' = AnnouncedFreq
<1> DEFINE rate == <<"iq_samplerate", 0, 0>>
           T == {c \in Channels : VfoOf(c) = 0}
           freq(c) == <<"vfo", TrxOf(c), 0>>
<1>1. /\ \A d \in Endpoint \ {e} : state'[d] = state[d]
      /\ state'[e][p] = v
      /\ \A q \in Param[e] : q # p /\ ~(p[1] = "vfo" /\ p[3] = 0 /\ q = <<"dds", p[2], 0>>)
            => state'[e][q] = state[e][q]
  BY Untouched
<1>2. p = <<p[1], p[2], p[3]>> /\ (p[1] = "iq_samplerate" => p = rate)
  BY ParamShape DEF Param
<1>3. rate \in Param[e] /\ rate[1] = "iq_samplerate" /\ \A t : rate # <<"dds", t, 0>>
  BY DEF Param
<1>4. /\ AnnouncedRate = [d \in Endpoint |-> state[d][rate][1]]
      /\ AnnouncedRate' = [d \in Endpoint |-> state'[d][rate][1]]
  BY DEF AnnouncedRate
<1>5. /\ AnnouncedFreq = [c \in T |-> state[EndpointOf(c)][freq(c)][1]]
      /\ AnnouncedFreq' = [c \in T |-> state'[EndpointOf(c)][freq(c)][1]]
  BY DEF AnnouncedFreq
<1>6. \A c \in T : /\ EndpointOf(c) \in Endpoint /\ TrxOf(c) \in Trx(EndpointOf(c))
                   /\ c = <<EndpointOf(c), TrxOf(c), 0>>
                   /\ freq(c) \in Param[EndpointOf(c)] /\ freq(c)[1] = "vfo" /\ freq(c)[3] = 0
                   /\ freq(c)[2] = TrxOf(c) /\ \A t : freq(c) # <<"dds", t, 0>>
  BY TunedChannels DEF EndpointOf, TrxOf, VfoOf, Param
<1> HIDE DEF rate, T, freq
<1>7. ASSUME p[1] = "iq_samplerate" PROVE AnnouncedRate' = [AnnouncedRate EXCEPT ![e] = v[1]]
  BY <1>1, <1>2, <1>4, <1>7
<1>8. ASSUME p[1] # "iq_samplerate" PROVE AnnouncedRate' = AnnouncedRate
  BY <1>1, <1>3, <1>4, <1>8
<1>9. ASSUME p[1] = "vfo", p[3] = 0
      PROVE  AnnouncedFreq' = [AnnouncedFreq EXCEPT ![<<e, p[2], 0>>] = v[1]]
  <2>1. ASSUME NEW c \in T, c = <<e, p[2], 0>> PROVE state'[EndpointOf(c)][freq(c)][1] = v[1]
    <3>1. EndpointOf(c) = e /\ TrxOf(c) = p[2]
      BY <2>1 DEF EndpointOf, TrxOf
    <3>2. freq(c) = p
      BY <1>2, <1>9, <3>1 DEF freq
    <3> QED  BY <1>1, <3>1, <3>2
  <2>2. ASSUME NEW c \in T, c # <<e, p[2], 0>>
        PROVE  state'[EndpointOf(c)][freq(c)][1] = state[EndpointOf(c)][freq(c)][1]
    <3>1. CASE EndpointOf(c) # e
      BY <1>1, <1>6, <3>1
    <3>2. CASE EndpointOf(c) = e
      <4>1. TrxOf(c) # p[2]
        BY <1>6, <2>2, <3>2
      <4>2. freq(c) # p
        BY <1>6, <4>1
      <4> QED  BY <1>1, <1>6, <3>2, <4>2
    <3> QED  BY <3>1, <3>2
  <2> QED  BY <1>5, <2>1, <2>2
<1>10. ASSUME ~(p[1] = "vfo" /\ p[3] = 0) PROVE AnnouncedFreq' = AnnouncedFreq
  <2>1. ASSUME NEW c \in T
        PROVE  state'[EndpointOf(c)][freq(c)][1] = state[EndpointOf(c)][freq(c)][1]
    <3>1. freq(c) # p
      BY <1>6, <1>10
    <3> QED  BY <1>1, <1>6, <3>1
  <2> QED  BY <1>5, <2>1
<1> QED  BY <1>7, <1>8, <1>9, <1>10

LEMMA InitImplements == Init => Interface!Init
<1> SUFFICES ASSUME Init PROVE Interface!Init
  OBVIOUS
<1>1. StateOK
  BY TypeInit DEF TypeInv
<1>2. AnnouncedRate \in [Endpoint -> U32]
  <2>1. ASSUME NEW e \in Endpoint PROVE state[e][<<"iq_samplerate", 0, 0>>][1] \in U32
    <3> DEFINE rate == <<"iq_samplerate", 0, 0>>
    <3>1. rate \in Param[e] /\ rate[1] = "iq_samplerate"
      BY DEF Param
    <3> HIDE DEF rate
    <3>2. Holds(rate, state[e][rate])
      BY <1>1, <3>1 DEF StateOK
    <3>3. state[e][rate][1] \in U32
      BY <3>1, <3>2 DEF Holds
    <3> QED  BY <3>3 DEF rate
  <2> QED  BY <2>1 DEF AnnouncedRate
<1>3. AnnouncedFreq \in [Interface!TunedChan -> U64]
  <2>1. ASSUME NEW c \in {c \in Channels : VfoOf(c) = 0}
        PROVE  state[EndpointOf(c)][<<"vfo", TrxOf(c), 0>>][1] \in U64
    <3> DEFINE p == <<"vfo", TrxOf(c), 0>>
    <3>1. p[1] = "vfo" /\ EndpointOf(c) \in Endpoint /\ p \in Param[EndpointOf(c)]
      BY TunedChannels DEF EndpointOf, TrxOf, VfoOf, Param
    <3> HIDE DEF p
    <3>2. Holds(p, state[EndpointOf(c)][p])
      BY <1>1, <3>1 DEF StateOK
    <3>3. state[EndpointOf(c)][p][1] \in U64
      BY <3>1, <3>2 DEF Holds
    <3> QED  BY <3>3 DEF p
  <2> QED  BY <2>1, TunedChannels DEF AnnouncedFreq
<1>4. pending = [k \in Session |-> NoCmd] /\ cmds = <<>>
  BY DEF Init
<1> QED  BY <1>2, <1>3, <1>4, SameCommands DEF Interface!Init

LEMMA NextImplements == TypeInv /\ [Next]_vars => [Interface!Next]_Interface!vars
<1> SUFFICES ASSUME TypeInv, [Next]_vars PROVE Interface!Next \/ UNCHANGED Interface!vars
  OBVIOUS
<1>1. ASSUME UNCHANGED <<state, pending, cmds>> PROVE UNCHANGED Interface!vars
  BY <1>1 DEF Interface!vars, AnnouncedRate, AnnouncedFreq
<1>2. ASSUME state' = state PROVE AnnouncedRate' = AnnouncedRate /\ AnnouncedFreq' = AnnouncedFreq
  BY <1>2 DEF AnnouncedRate, AnnouncedFreq
<1>3. ASSUME NEW k \in Session, HandleLine(k) PROVE Interface!Next \/ UNCHANGED Interface!vars
  <2> DEFINE e == ServerOf[k]
  <2>1. e \in Endpoint /\ pending[k] = NoCmd /\ cmds' = cmds
    BY <1>3, LineStep, ServerAssumption
  <2>2. ASSUME NEW p \in Param[e], NEW v, Holds(p, v),
               state' = [state EXCEPT ![e] = Stored(@, p, v)],
               pending' = [pending EXCEPT ![k] = CmdFor(e, p, v)]
        PROVE  Interface!Next \/ UNCHANGED Interface!vars
    <3>1. p[1] \in {"vfo", "rx_channel_enable"} => p[2] \in Trx(e) /\ p[3] \in {0, 1}
      BY <2>1 DEF Param
    <3>2. CASE p[1] = "vfo" /\ p[3] = 0
      <4> DEFINE c == <<e, p[2], 0>>
                 f == v[1]
      <4>1. f \in U64
        BY <2>2, <3>2 DEF Holds
      <4>2. c \in Interface!TunedChan
        BY <2>1, <3>1, <3>2, TunedChannels
      <4>3. CmdFor(e, p, v) = Tune(c, f)
        BY <3>2 DEF CmdFor
      <4>4. AnnouncedRate' = AnnouncedRate /\ AnnouncedFreq' = [AnnouncedFreq EXCEPT ![c] = f]
        BY <2>1, <2>2, <3>2, AnnouncedStep
      <4>5. Interface!EndpointOf(c) = e
        BY SameCommands
      <4> HIDE DEF c, f
      <4>6. Interface!SetVfo(k, c, f)
        BY <2>1, <2>2, <4>3, <4>4, <4>5, SameCommands DEF Interface!SetVfo
      <4> QED  BY <4>1, <4>2, <4>6 DEF Interface!Next
    <3>3. CASE p[1] = "rx_channel_enable"
      <4> DEFINE c == <<e, p[2], p[3]>>
                 on == v[1]
      <4>1. on \in BOOLEAN
        BY <2>2, <3>3 DEF Holds
      <4>2. c \in Channels
        BY <2>1, <3>1, <3>3, TunedChannels
      <4>3. CmdFor(e, p, v) = EnableRx(c, on)
        BY <3>3 DEF CmdFor
      <4>4. AnnouncedRate' = AnnouncedRate /\ AnnouncedFreq' = AnnouncedFreq
        BY <2>1, <2>2, <3>3, AnnouncedStep
      <4>5. Interface!EndpointOf(c) = e
        BY SameCommands
      <4> HIDE DEF c, on
      <4>6. Interface!SetRxEnable(k, c, on)
        BY <2>1, <2>2, <4>3, <4>4, <4>5, SameCommands DEF Interface!SetRxEnable
      <4> QED  BY <4>1, <4>2, <4>6 DEF Interface!Next
    <3>4. CASE p[1] = "iq_samplerate"
      <4>1. v[1] \in U32
        BY <2>2, <3>4 DEF Holds
      <4>2. CmdFor(e, p, v) = SetSr(e, v[1])
        BY <3>4 DEF CmdFor
      <4>3. /\ AnnouncedRate' = [AnnouncedRate EXCEPT ![e] = v[1]]
            /\ AnnouncedFreq' = AnnouncedFreq
        BY <2>1, <2>2, <3>4, AnnouncedStep
      <4>4. Interface!SetSamplerate(k, v[1])
        BY <2>1, <2>2, <4>2, <4>3, SameCommands DEF Interface!SetSamplerate
      <4> QED  BY <4>1, <4>4 DEF Interface!Next
    <3>5. CASE ~(p[1] = "vfo" /\ p[3] = 0) /\ p[1] \notin {"rx_channel_enable", "iq_samplerate"}
      <4>1. CmdFor(e, p, v) = NoCmd
        BY <3>5 DEF CmdFor
      <4>2. pending' = pending
        BY <2>1, <2>2, <4>1 DEF TypeInv, DomainsOK
      <4>3. AnnouncedRate' = AnnouncedRate /\ AnnouncedFreq' = AnnouncedFreq
        BY <2>1, <2>2, <3>5, AnnouncedStep
      <4> QED  BY <2>1, <4>2, <4>3 DEF Interface!vars
    <3> QED  BY <3>2, <3>3, <3>4, <3>5
  <2>3. CASE UNCHANGED <<state, pending>>
    BY <1>1, <2>1, <2>3
  <2> QED  BY <1>3, <2>2, <2>3, LineStep
<1>4. ASSUME NEW k \in Session, send_bridge_cmd(k) PROVE Interface!Next
  <2>1. Interface!Offer(k)
    BY <1>2, <1>4, SameCommands DEF send_bridge_cmd, Interface!Offer
  <2> QED  BY <2>1 DEF Interface!Next
<1>5. ASSUME NEW k \in Session,
             \/ DumpState(k) \/ Subscribe(k) \/ Tell(k) \/ SendFrame(k) \/ Connect(k) \/ TellFails(k)
             \/ RecvMessage(k) \/ RecvClose(k) \/ RecvFrame(k)
             \/ \E m \in Message[k] : ClientSends(k, m)
      PROVE  UNCHANGED <<state, pending, cmds>>
  BY <1>5 DEF DumpState, Subscribe, Tell, SendFrame, Connect, TellFails, RecvMessage, RecvClose,
              RecvFrame, ClientSends, taskVars
<1>6. CASE BridgeReceives
  <2>1. UNCHANGED <<state, pending>> /\ cmds # <<>> /\ cmds' = Tail(cmds)
    BY <1>6 DEF BridgeReceives, taskVars
  <2>2. Interface!Receive
    BY <1>2, <2>1 DEF Interface!Receive
  <2> QED  BY <2>2 DEF Interface!Next
<1>7. CASE UNCHANGED vars
  BY <1>1, <1>7 DEF vars, taskVars
<1> QED  BY <1>1, <1>3, <1>4, <1>5, <1>6, <1>7 DEF Next, Works

\* For any endpoints, sessions, messages and capacities, what the servers do to
\* the command channel is what the interface with the bridge allows: only VFO A
\* is tuned, to the frequency that was stored, and a line offers at most one
\* command (server.rs:240-254, 356-361, 405-411, 452-458).
THEOREM ServersKeepInterface == Spec => ImplementsInterface
BY InitImplements, NextImplements, TypeInit, TypePreserved,
   PTL DEF Spec, ImplementsInterface, Interface!Spec
=================================================================================
