------------------------- MODULE CommandLineProofs -------------------------
(***************************************************************************)
(* The command line for every set of calls and of answers over the texts   *)
(* of CommandLine, where the run of TLC tries samples of both.             *)
(***************************************************************************)
EXTENDS CommandLine, TLAPS

\* The fields whose questions are still to come.
Ahead == {Questions[i] : i \in at..13}

\* ... have the value of their flags.
AheadInv == \A f \in Ahead : args[f] = told[f] /\ replies[f] = ""

LEMMA FieldsOfQuestions ==
  /\ Len(Questions) = 13 /\ DOMAIN Questions = 1..13
  /\ Field = {"proto", "src", "sport", "dst", "dport", "inIface", "mode", "backend",
              "target", "sshHost", "sshUser", "sshPort", "sshKey"}
<1>1. Len(Questions) = 13 /\ DOMAIN Questions = 1..13
  BY DEF Questions
<1>2. \A i \in 1..13 : Questions[i] \in
        {"proto", "src", "sport", "dst", "dport", "inIface", "mode", "backend",
         "target", "sshHost", "sshUser", "sshPort", "sshKey"}
  BY DEF Questions
<1>3. /\ Questions[1] = "proto" /\ Questions[2] = "src" /\ Questions[3] = "sport"
      /\ Questions[4] = "dst" /\ Questions[5] = "dport" /\ Questions[6] = "inIface"
      /\ Questions[7] = "mode" /\ Questions[8] = "backend" /\ Questions[9] = "target"
      /\ Questions[10] = "sshHost" /\ Questions[11] = "sshUser" /\ Questions[12] = "sshPort"
      /\ Questions[13] = "sshKey"
  BY DEF Questions
<1>4. {1, 2, 3, 4, 5, 6, 7, 8, 9, 10, 11, 12, 13} \subseteq 1..13
  OBVIOUS
<1>5. Field = {Questions[i] : i \in 1..13}
  BY <1>1 DEF Field
<1>6. \A i \in {1, 2, 3, 4, 5, 6, 7, 8, 9, 10, 11, 12, 13} : Questions[i] \in Field
  BY Zenon, <1>4, <1>5
<1>7. /\ "proto" \in Field /\ "src" \in Field /\ "sport" \in Field /\ "dst" \in Field
      /\ "dport" \in Field /\ "inIface" \in Field /\ "mode" \in Field /\ "backend" \in Field
      /\ "target" \in Field /\ "sshHost" \in Field /\ "sshUser" \in Field
      /\ "sshPort" \in Field /\ "sshKey" \in Field
  BY <1>3, <1>6
<1> QED
  BY <1>1, <1>2, <1>5, <1>7

\* Each question is asked once, and those about ssh come after the target.
LEMMA OrderOfQuestions ==
  /\ \A i, j \in 1..13 : i # j => Questions[i] # Questions[j]
  /\ \A i \in 1..13 : Questions[i] = "target" => i = 9
  /\ Questions[10] = "sshHost" /\ Questions[12] = "sshPort"
<1>1. \A i, j \in 1..13 : i # j => Questions[i] # Questions[j]
  BY SMTT(60) DEF Questions
<1>2. Questions[9] = "target" /\ Questions[10] = "sshHost" /\ Questions[12] = "sshPort"
  BY DEF Questions
<1>3. 9 \in 1..13
  OBVIOUS
<1> QED
  BY Zenon, <1>1, <1>2, <1>3

LEMMA NextQuestion ==
  ASSUME at \in 1..14, Go
  PROVE  /\ Questions[at] \in Ahead /\ Questions[at] \in Field
         /\ Questions[at] = "target" => "sshHost" \in Ahead \ {Questions[at]}
                                        /\ "sshPort" \in Ahead \ {Questions[at]}
         /\ at' = at + 1 => Ahead' = Ahead \ {Questions[at]}
<1>1. at \in 1..13 /\ at \in at..13 /\ \A i \in at..13 : i \in 1..13
  BY FieldsOfQuestions DEF Go
<1>2. Questions[at] \in Ahead /\ Questions[at] \in Field
  BY <1>1, FieldsOfQuestions DEF Ahead, Field
<1>3. Questions[at] = "target" => "sshHost" \in Ahead \ {Questions[at]}
                                  /\ "sshPort" \in Ahead \ {Questions[at]}
  <2>1. Questions[at] = "target" => 10 \in at..13 /\ 12 \in at..13
    BY <1>1, OrderOfQuestions
  <2> QED
    BY <2>1, OrderOfQuestions DEF Ahead
<1>4. ASSUME at' = at + 1 PROVE Ahead' = Ahead \ {Questions[at]}
  <2>1. Ahead' = {Questions[i] : i \in (at + 1)..13}
    BY <1>4 DEF Ahead
  <2>2. \A i \in at..13 : i = at \/ i \in (at + 1)..13
    BY <1>1
  <2>3. \A i \in (at + 1)..13 : i \in at..13 /\ i # at
    BY <1>1
  <2>4. \A i \in (at + 1)..13 : Questions[i] # Questions[at]
    BY <1>1, <2>3, OrderOfQuestions
  <2> QED
    BY Zenon, <2>1, <2>2, <2>3, <2>4 DEF Ahead
<1> QED
  BY <1>2, <1>3, <1>4

LEMMA AheadAreFields ==
  ASSUME at \in 1..14
  PROVE  Ahead \subseteq Field
<1>1. \A i \in at..13 : i \in 1..13
  OBVIOUS
<1> QED
  BY <1>1, FieldsOfQuestions DEF Ahead, Field

----------------------------------------------------------------------------
(* Texts.                                                                  *)

LEMMA TextsOfFields ==
  ASSUME NEW f \in Field
  PROVE  /\ Suggested(f) \in Text /\ Unset(f) \in Text /\ FlagDefault(f) \in Text
         /\ f \in Ports => Suggested(f) \in Numbers /\ FlagDefault(f) \in Numbers
         /\ \A line \in Text : Trimmed(line) \in Text /\ AskString(f, line) \in Text
                               /\ NormalForm(f, line) \in Text
  BY DEF Suggested, Unset, FlagDefault, Text, Ports, Numbers, Trimmed, AskString, NormalForm

LEMMA NumbersAreTexts == Numbers \subseteq Text /\ Ports \subseteq Field
  BY FieldsOfQuestions DEF Numbers, Text, Ports

\* A normal form is its own normal form.
LEMMA NormalTwice ==
  ASSUME NEW f \in Field, NEW text \in Text
  PROVE  NormalForm(f, NormalForm(f, text)) = NormalForm(f, text)
  BY DEF NormalForm, Trimmed

\* Ports have no form but their number.
LEMMA NormalPort ==
  ASSUME NEW f \in Ports, NEW text \in Text
  PROVE  NormalForm(f, text) = text
  BY DEF NormalForm, Ports

LEMMA ConfigType ==
  ASSUME NEW a \in [Field -> Text], \A f \in Ports : a[f] \in Numbers
  PROVE  /\ Config(a) \in [Field -> Text]
         /\ \A f \in Ports : Config(a)[f] \in Numbers
         /\ \A f \in Field : Config(a)[f] = IF f = "backend" /\ a[f] = "" THEN "auto"
                                            ELSE NormalForm(f, a[f])
<1>1. \A f \in Field : Config(a)[f] = IF f = "backend" /\ a[f] = "" THEN "auto"
                                      ELSE NormalForm(f, a[f])
  BY DEF Config
<1>2. "auto" \in Text
  BY DEF Text
<1>3. Config(a) \in [Field -> Text]
  BY <1>2, TextsOfFields DEF Config
<1>4. ASSUME NEW f \in Ports PROVE Config(a)[f] \in Numbers
  <2>1. f \in Field /\ f # "backend" /\ a[f] \in Text
    BY NumbersAreTexts DEF Ports
  <2> QED
    BY <1>1, <2>1, NormalPort
<1> QED
  BY <1>1, <1>3, <1>4

LEMMA LineType ==
  ASSUME NEW c \in [Field -> Text], \A f \in Ports : c[f] \in Numbers
  PROVE  /\ CommandLineFor(c) \in [Field -> Text]
         /\ \A f \in Ports : CommandLineFor(c)[f] \in Numbers
<1>1. CommandLineFor(c) \in [Field -> Text]
  BY TextsOfFields DEF CommandLineFor
<1>2. ASSUME NEW f \in Ports PROVE CommandLineFor(c)[f] \in Numbers
  <2>1. f \in Field /\ FlagDefault(f) \in Numbers
    BY NumbersAreTexts, TextsOfFields
  <2> QED
    BY <2>1 DEF CommandLineFor
<1> QED
  BY <1>1, <1>2

----------------------------------------------------------------------------
(* Types.                                                                  *)

\* What was printed comes from the configuration that started.
PrintedInv ==
  /\ \A f \in Ports : told[f] \in Numbers
  /\ pc = "started" => cfg = Config(args) /\ Valid(cfg) /\ at = 14
  /\ printed # NotPrinted => pc = "started" /\ printed = CommandLineFor(cfg)

BaseInv == CmdTypeOK /\ PrintedInv /\ AheadInv

LEMMA BaseStart == Init => BaseInv
<1> SUFFICES ASSUME Init PROVE BaseInv
  OBVIOUS
<1>1. told \in [Field -> Text] /\ \A f \in Ports : told[f] \in Numbers
  BY GivenAssumption DEF Init
<1>2. Blank \in [Field -> Text]
  BY DEF Blank, Text
<1>3. 1 \in 1..(Len(Questions) + 1)
  BY FieldsOfQuestions
<1>4. CmdTypeOK
  BY <1>1, <1>2, <1>3 DEF Init, CmdTypeOK, NoConfig, NotPrinted
<1>5. AheadInv
  <2>1. Ahead \subseteq Field
    BY FieldsOfQuestions DEF Ahead, Field, Init
  <2> QED
    BY <2>1 DEF AheadInv, Init, Blank
<1> QED
  BY <1>1, <1>4, <1>5 DEF BaseInv, PrintedInv, Init

LEMMA AskKeeps ==
  ASSUME BaseInv, Ask
  PROVE  BaseInv'
<1> DEFINE f == Questions[at]
<1>0. at \in 1..14
  BY FieldsOfQuestions DEF BaseInv, CmdTypeOK
<1>1. Go /\ f \in Field /\ f \in Ahead /\ pc = "asking" /\ UNCHANGED <<cfg, printed, told, json, broad, before>>
  BY <1>0, NextQuestion DEF Ask, Go, callVars
<1>9. at + 1 \in 1..(Len(Questions) + 1)
  BY <1>0, <1>1, FieldsOfQuestions DEF Go
<1>2. prompted' \subseteq Field
  BY <1>1 DEF Ask, BaseInv, CmdTypeOK
<1>3. PICK line \in Replies[f] \cup {""} :
        LET value == AskString(f, line) IN
        IF Accepts(f, value)
        THEN /\ args' = [args EXCEPT ![f] = value]
             /\ replies' = [replies EXCEPT ![f] = line]
             /\ at' = at + 1 /\ UNCHANGED pc
        ELSE pc' = "failed" /\ UNCHANGED <<args, replies, at>>
  BY DEF Ask
<1>4. line \in Text
  BY <1>1, RepliesAssumption DEF Text
<1> DEFINE value == AskString(f, line)
<1>5. value \in Text /\ (Accepts(f, value) /\ f \in Ports => value \in Numbers)
  BY <1>1, <1>4, TextsOfFields DEF Accepts
<1>6. args \in [Field -> Text] /\ replies \in [Field -> Text]
  BY DEF BaseInv, CmdTypeOK
<1> HIDE DEF value, f
<1>7. CASE Accepts(f, value)
  <2>1. /\ args' = [args EXCEPT ![f] = value] /\ replies' = [replies EXCEPT ![f] = line]
        /\ at' = at + 1 /\ pc' = pc
    BY <1>3, <1>7 DEF value
  <2>2. args' \in [Field -> Text] /\ replies' \in [Field -> Text]
    BY <1>1, <1>4, <1>5, <1>6, <2>1
  <2>3. \A g \in Ports : args'[g] \in Numbers
    BY <1>1, <1>5, <1>6, <1>7, <2>1, NumbersAreTexts DEF BaseInv, CmdTypeOK
  <2>4. at' \in 1..(Len(Questions) + 1)
    <3>1. at' = at + 1
      BY <2>1
    <3> QED
      BY <1>9, <3>1
  <2>5. CmdTypeOK'
    BY <1>1, <1>2, <2>1, <2>2, <2>3, <2>4 DEF BaseInv, CmdTypeOK
  <2>6. Ahead' = Ahead \ {f} /\ Ahead \subseteq Field
    BY <1>0, <1>1, <2>1, NextQuestion, AheadAreFields DEF f
  <2>7. AheadInv'
    BY <1>1, <1>6, <2>1, <2>6 DEF BaseInv, AheadInv
  <2> QED
    BY <1>1, <2>1, <2>5, <2>7 DEF BaseInv, PrintedInv
<1>8. CASE ~Accepts(f, value)
  <2>1. pc' = "failed" /\ UNCHANGED <<args, replies, at>>
    BY <1>3, <1>8 DEF value
  <2> QED
    BY <1>1, <1>2, <2>1 DEF BaseInv, PrintedInv, CmdTypeOK, AheadInv, Ahead
<1> QED
  BY <1>7, <1>8

LEMMA PassKeeps ==
  ASSUME BaseInv, PassOver
  PROVE  BaseInv'
<1> DEFINE f == Questions[at]
<1>0. at \in 1..14
  BY FieldsOfQuestions DEF BaseInv, CmdTypeOK
<1>1. /\ Go /\ f \in Field /\ f \in Ahead /\ pc = "asking" /\ at' = at + 1
      /\ UNCHANGED <<pc, replies, prompted, cfg, printed, told, json, broad, before>>
  BY <1>0, NextQuestion DEF PassOver, Go, callVars
<1>2. args \in [Field -> Text] /\ "ssh" \in Text /\ "target" \notin Ports
  BY DEF BaseInv, CmdTypeOK, Text, Ports
<1>3. args' = args \/ (f = "target" /\ args' = [args EXCEPT ![f] = "ssh"])
  BY DEF PassOver
<1> HIDE DEF f
<1>4. args' \in [Field -> Text] /\ \A g \in Ports : args'[g] \in Numbers
  BY <1>1, <1>2, <1>3, NumbersAreTexts DEF BaseInv, CmdTypeOK
<1>5. at' \in 1..(Len(Questions) + 1)
  BY <1>0, <1>1, FieldsOfQuestions DEF Go
<1>6. CmdTypeOK'
  BY <1>1, <1>4, <1>5 DEF BaseInv, CmdTypeOK
<1>7. Ahead' = Ahead \ {f} /\ Ahead \subseteq Field
  BY <1>0, <1>1, NextQuestion, AheadAreFields DEF f
<1>8. AheadInv'
  BY <1>1, <1>2, <1>3, <1>7 DEF BaseInv, AheadInv
<1> QED
  BY <1>1, <1>6, <1>8 DEF BaseInv, PrintedInv

LEMMA StartKeeps ==
  ASSUME BaseInv, Start
  PROVE  BaseInv'
<1>1. /\ pc = "asking" /\ at = 14 /\ printed = NotPrinted
      /\ UNCHANGED <<at, args, replies, prompted, told, json, broad, before>>
  BY FieldsOfQuestions DEF Start, callVars, BaseInv, CmdTypeOK, PrintedInv
<1>2. args \in [Field -> Text] /\ \A f \in Ports : args[f] \in Numbers
  BY DEF BaseInv, CmdTypeOK
<1>3. AheadInv'
  BY <1>1 DEF BaseInv, AheadInv, Ahead
<1>4. CASE ~Valid(Config(args))
  BY <1>1, <1>3, <1>4 DEF Start, BaseInv, CmdTypeOK, PrintedInv
<1>5. CASE Valid(Config(args))
  <2>1. pc' = "started" /\ cfg' = Config(args) /\ printed' \in {CommandLineFor(cfg'), NotPrinted}
    BY <1>5 DEF Start
  <2>2. Config(args) \in [Field -> Text] /\ CommandLineFor(Config(args)) \in [Field -> Text]
    BY <1>2, ConfigType, LineType
  <2>3. NotPrinted \in [Field -> Text]
    BY DEF NotPrinted, Blank, Text
  <2>4. CmdTypeOK'
    BY <1>1, <2>1, <2>2, <2>3 DEF BaseInv, CmdTypeOK
  <2>5. Valid(cfg)'
    BY <1>1, <1>5, <2>1 DEF Valid, FlowValid
  <2>6. cfg' = Config(args') /\ (printed' # NotPrinted => printed' = CommandLineFor(cfg'))
    BY <1>1, <2>1
  <2> QED
    BY <1>1, <1>3, <2>1, <2>4, <2>5, <2>6 DEF BaseInv, PrintedInv
<1> QED
  BY <1>4, <1>5

LEMMA AgainKeeps ==
  ASSUME BaseInv, RunLineAgain
  PROVE  BaseInv'
<1>1. /\ pc' = "asking" /\ at' = 1 /\ told' = printed /\ args' = printed /\ replies' = Blank
      /\ prompted' = {} /\ cfg' = NoConfig /\ printed' = NotPrinted /\ before' = cfg
      /\ UNCHANGED <<json, broad>>
  BY DEF RunLineAgain, Call
<1>2. printed \in [Field -> Text] /\ cfg \in [Field -> Text] /\ printed = CommandLineFor(cfg)
      /\ cfg = Config(args) /\ args \in [Field -> Text] /\ \A f \in Ports : args[f] \in Numbers
  BY DEF RunLineAgain, BaseInv, CmdTypeOK, PrintedInv
<1>3. \A f \in Ports : printed[f] \in Numbers
  BY <1>2, ConfigType, LineType
<1>4. Blank \in [Field -> Text]
  BY DEF Blank, Text
<1>5. 1 \in 1..(Len(Questions) + 1)
  BY FieldsOfQuestions
<1>6. CmdTypeOK'
  BY <1>1, <1>2, <1>3, <1>4, <1>5 DEF CmdTypeOK, BaseInv, NoConfig, NotPrinted
<1>7. AheadInv'
  <2>1. Ahead' \subseteq Field
    BY <1>1, FieldsOfQuestions DEF Ahead, Field
  <2> QED
    BY <1>1, <2>1 DEF AheadInv, Blank
<1> QED
  BY <1>1, <1>3, <1>6, <1>7 DEF BaseInv, PrintedInv

\* A step that leaves all but the state of the dialogue alone.
LEMMA RestKeeps ==
  ASSUME BaseInv, InputFails \/ Stopped \/ UNCHANGED vars
  PROVE  BaseInv'
<1>1. CASE InputFails
  <2>1. Questions[at] \in Field
    BY <1>1, NextQuestion, FieldsOfQuestions DEF InputFails, BaseInv, CmdTypeOK
  <2> QED
    BY <1>1, <2>1 DEF InputFails, Go, BaseInv, CmdTypeOK, PrintedInv, AheadInv, Ahead, callVars
<1>2. CASE UNCHANGED vars
  <2>1. UNCHANGED <<pc, at, args, replies, prompted, cfg, printed, told, json, broad, before>>
    BY <1>2 DEF vars, callVars
  <2>2. CmdTypeOK'
    BY <2>1 DEF BaseInv, CmdTypeOK
  <2>3. AheadInv'
    BY <2>1 DEF BaseInv, AheadInv, Ahead
  <2>4. Valid(cfg) => Valid(cfg)'
    BY <2>1 DEF Valid, FlowValid
  <2>5. PrintedInv'
    BY <2>1, <2>4 DEF BaseInv, PrintedInv
  <2> QED
    BY <2>2, <2>3, <2>5 DEF BaseInv
<1> QED
  BY <1>1, <1>2 DEF Stopped

LEMMA BaseInvariant == Spec => []BaseInv
<1>1. BaseInv /\ [Next]_vars => BaseInv'
  BY AskKeeps, PassKeeps, StartKeeps, AgainKeeps, RestKeeps DEF Next
<1> QED
  BY BaseStart, <1>1, PTL DEF Spec

\* app.go 68-159: every variable of the dialogue keeps its type, and a port is a number.
THEOREM CmdTypeCorrect == Spec => []CmdTypeOK
<1>1. BaseInv => CmdTypeOK
  BY DEF BaseInv
<1> QED
  BY BaseInvariant, <1>1, PTL

----------------------------------------------------------------------------
(* Scripts.                                                                *)

Complete ==
  /\ \A f \in {"proto", "src", "dst", "mode"} : told[f] # ""
  /\ told["target"] # "" \/ told["sshHost"] # ""

\* What is asked of a call that says all that is required.
LEMMA AsksLittle ==
  ASSUME BaseInv, Complete, Go, Asks(Questions[at])
  PROVE  Questions[at] \in {f \in {"sshHost", "sshPort"} : told[f] = Unset(f)}
<1> DEFINE f == Questions[at]
<1>0. at \in 1..14
  BY FieldsOfQuestions DEF BaseInv, CmdTypeOK
<1>1. f \in Field /\ f \in Ahead /\ (f = "target" => "sshHost" \in Ahead)
  BY <1>0, NextQuestion
<1>2. args[f] = told[f] /\ (f = "target" => args["sshHost"] = told["sshHost"])
  BY <1>1 DEF BaseInv, AheadInv
<1> HIDE DEF f
<1>3. Asks(f)
  BY DEF f
<1>4. told[f] = Unset(f) /\ f \notin Optional
  BY <1>2, <1>3 DEF Asks, Complete, PromptOptional
<1>5. f \notin {"proto", "src", "dst", "mode"}
  BY <1>4 DEF Complete, Unset, Ports
<1>6. f # "target"
  BY <1>2, <1>3, <1>4 DEF Asks, Complete, Unset, Ports
<1>7. f \in {"sshHost", "sshPort"}
  BY <1>1, <1>4, <1>5, <1>6, FieldsOfQuestions DEF Optional
<1> QED
  BY <1>4, <1>7 DEF f

\* app.go 121, README 137: whatever the flags of a script say, if they say what is
\* required the script waits for nothing but the host or the port of ssh.
THEOREM ScriptsRunThrough == Spec => []ScriptsAreNotAsked
<1>1. Init => ScriptsAreNotAsked
  BY DEF Init, ScriptsAreNotAsked
<1>2. BaseInv /\ ScriptsAreNotAsked /\ [Next]_vars => ScriptsAreNotAsked'
  <2> SUFFICES ASSUME BaseInv, ScriptsAreNotAsked, [Next]_vars PROVE ScriptsAreNotAsked'
    OBVIOUS
  <2>1. CASE Ask \/ InputFails
    <3>1. Go /\ Asks(Questions[at]) /\ prompted' = prompted \cup {Questions[at]} /\ told' = told
      BY <2>1 DEF Ask, InputFails, callVars
    <3>2. Complete => Questions[at] \in {f \in {"sshHost", "sshPort"} : told[f] = Unset(f)}
      BY <3>1, AsksLittle
    <3> QED
      BY <3>1, <3>2 DEF ScriptsAreNotAsked, Complete
  <2>2. CASE RunLineAgain
    BY <2>2 DEF RunLineAgain, Call, ScriptsAreNotAsked
  <2>3. CASE PassOver \/ Start \/ Stopped \/ UNCHANGED vars
    <3>1. UNCHANGED <<prompted, told>>
      BY <2>3 DEF PassOver, Start, Stopped, vars, callVars
    <3> QED
      BY <3>1 DEF ScriptsAreNotAsked
  <2> QED
    BY <2>1, <2>2, <2>3 DEF Next
<1> QED
  BY <1>1, <1>2, BaseInvariant, PTL DEF Spec

----------------------------------------------------------------------------
(* The printed line.                                                       *)

\* What a configuration says when it is read from its own line.
LEMMA SameConfig ==
  ASSUME NEW a \in [Field -> Text], \A f \in Ports : a[f] \in Numbers, Valid(Config(a))
  PROVE  LET d == Config(CommandLineFor(Config(a)))
         IN  Valid(d) /\ Effect(d) = Effect(Config(a))
<1> DEFINE c == Config(a)
           l == CommandLineFor(c)
           d == Config(l)
<1>1. /\ c \in [Field -> Text] /\ \A f \in Ports : c[f] \in Numbers
      /\ \A f \in Field : c[f] = IF f = "backend" /\ a[f] = "" THEN "auto" ELSE NormalForm(f, a[f])
  BY ConfigType
<1>2. l \in [Field -> Text] /\ \A f \in Ports : l[f] \in Numbers
  BY <1>1, LineType
<1>3. /\ d \in [Field -> Text]
      /\ \A f \in Field : d[f] = IF f = "backend" /\ l[f] = "" THEN "auto" ELSE NormalForm(f, l[f])
  BY <1>2, ConfigType
<1>4. \A f \in Field : l[f] = IF c[f] = Unset(f) \/ (f \in SshFields /\ c["target"] # "ssh")
                              THEN FlagDefault(f) ELSE c[f]
  BY DEF CommandLineFor
<1>5. Valid(c)
  OBVIOUS
<1> HIDE DEF c, l, d
<1>6. \A f \in Field : NormalForm(f, c[f]) = c[f]
  <2>1. NormalForm("backend", "auto") = "auto"
    BY DEF NormalForm
  <2> QED
    BY <1>1, <2>1, NormalTwice
<1>7. ASSUME NEW f \in Field \ SshFields PROVE d[f] = c[f]
  <2>1. l[f] = c[f]
    BY <1>4, <1>7 DEF FlagDefault, SshFields
  <2>2. f = "backend" => c[f] # ""
    BY <1>5 DEF Valid
  <2> QED
    BY <1>3, <1>6, <2>1, <2>2
<1>8. "target" \in Field \ SshFields
  BY FieldsOfQuestions DEF SshFields
<1>9. ASSUME c["target"] = "ssh", NEW f \in SshFields
      PROVE  d[f] = c[f] \/ (f = "sshPort" /\ c[f] = "0" /\ d[f] = "22")
  <2>1. f \in Field /\ f # "backend" /\ d[f] = l[f]
    BY <1>3, <1>9, FieldsOfQuestions DEF SshFields, NormalForm
  <2>2. l[f] = IF c[f] = Unset(f) THEN FlagDefault(f) ELSE c[f]
    BY <1>4, <1>9, <2>1
  <2> QED
    BY <2>1, <2>2 DEF FlagDefault, Unset, Ports
<1>10. Valid(d)
  <2>1. \A f \in {"proto", "src", "dst", "sport", "dport", "inIface", "mode", "backend", "target"} :
          d[f] = c[f]
    BY <1>7, FieldsOfQuestions DEF SshFields
  <2>2. c["target"] = "ssh" => d["sshHost"] = c["sshHost"]
    BY <1>9 DEF SshFields
  <2> QED
    BY Zenon, <1>5, <2>1, <2>2 DEF Valid, FlowValid
<1>11. Effect(d) = Effect(c)
  <2>1. d["target"] = c["target"]
    BY <1>7, <1>8
  <2>2. ASSUME NEW f \in Field
        PROVE  (IF f \in SshFields /\ d["target"] # "ssh" THEN ""
                ELSE IF f = "sshPort" /\ d[f] = "0" THEN "22" ELSE d[f])
               = (IF f \in SshFields /\ c["target"] # "ssh" THEN ""
                  ELSE IF f = "sshPort" /\ c[f] = "0" THEN "22" ELSE c[f])
    BY <1>7, <1>9, <2>1
  <2> QED
    BY <2>2 DEF Effect
<1> QED
  BY <1>10, <1>11 DEF c, l, d

\* The line of a valid configuration leaves nothing to ask.
AgainInv ==
  before # NoConfig =>
    /\ \E a \in [Field -> Text] : (\A f \in Ports : a[f] \in Numbers) /\ before = Config(a)
    /\ Valid(before) /\ told = CommandLineFor(before)
    /\ args = told /\ prompted = {} /\ pc # "failed"

LEMMA LineAsksNothing ==
  ASSUME BaseInv, AgainInv, before # NoConfig, Go
  PROVE  ~Asks(Questions[at])
<1> DEFINE f == Questions[at]
<1>1. at \in 1..14
  BY FieldsOfQuestions DEF BaseInv, CmdTypeOK
<1>2. f \in Field
  BY <1>1, NextQuestion
<1> HIDE DEF f
<1>3. Valid(before) /\ args = told
      /\ \A g \in Field : told[g] = IF before[g] = Unset(g) \/ (g \in SshFields /\ before["target"] # "ssh")
                                    THEN FlagDefault(g) ELSE before[g]
  BY DEF AgainInv, CommandLineFor
<1>4. \A g \in {"proto", "src", "dst", "mode", "target"} : before[g] # "" /\ told[g] = before[g]
  <2>1. \A g \in {"proto", "src", "dst", "mode", "target"} : before[g] # ""
    BY <1>3 DEF Valid, FlowValid
  <2>2. \A g \in {"proto", "src", "dst", "mode", "target"} : g \in Field \ SshFields /\ Unset(g) = ""
    BY FieldsOfQuestions DEF SshFields, Unset, Ports
  <2> QED
    BY <1>3, <2>1, <2>2
<1>5. ~PromptOptional
  BY <1>4 DEF PromptOptional
<1>6. told["target"] = "ssh" => told["sshHost"] # "" /\ told["sshPort"] # "0"
  <2>1. before["target"] = "ssh" => before["sshHost"] # ""
    BY <1>3 DEF Valid
  <2>2. "sshHost" \in Field /\ "sshPort" \in Field
    BY FieldsOfQuestions
  <2> QED
    BY <1>3, <1>4, <2>1, <2>2 DEF Unset, FlagDefault, Ports
<1>7. ASSUME Asks(f) PROVE FALSE
  <2>1. told[f] = Unset(f) /\ f \notin Optional /\ (f \in SshFields => told["target"] = "ssh")
    BY <1>3, <1>5, <1>7 DEF Asks
  <2>2. f \in {"proto", "src", "dst", "mode", "target", "sshHost", "sshPort"}
    BY <1>2, <2>1, FieldsOfQuestions DEF Optional
  <2> QED
    BY <1>4, <1>6, <2>1, <2>2 DEF Unset, Ports, SshFields
<1> QED
  BY <1>7 DEF f

LEMMA AgainKept ==
  ASSUME AgainInv, UNCHANGED <<told, before, prompted, broad>>,
         before # NoConfig => args' = args /\ pc' # "failed"
  PROVE  AgainInv'
<1>1. Valid(before) => Valid(before)'
  BY DEF Valid, FlowValid
<1>2. ASSUME before' # NoConfig
      PROVE  \E a \in [Field -> Text] : (\A f \in Ports : a[f] \in Numbers) /\ before' = Config(a)
  BY <1>2 DEF AgainInv
<1>3. before' # NoConfig => told' = CommandLineFor(before')
  BY DEF AgainInv
<1> QED
  BY <1>1, <1>2, <1>3 DEF AgainInv

LEMMA AgainStep == BaseInv /\ AgainInv /\ [Next]_vars => AgainInv'
<1> SUFFICES ASSUME BaseInv, AgainInv, [Next]_vars PROVE AgainInv'
  OBVIOUS
<1>1. CASE Ask \/ InputFails
  <2>1. before = NoConfig /\ before' = before
    BY <1>1, LineAsksNothing DEF Ask, InputFails, callVars
  <2> QED
    BY <2>1 DEF AgainInv, NoConfig, Blank
<1>2. CASE PassOver
  <2>1. UNCHANGED <<pc, prompted, told, before, broad>>
    BY <1>2 DEF PassOver, callVars
  <2>2. before # NoConfig => args["target"] # ""
    <3>1. "target" \in Field \ SshFields
      BY FieldsOfQuestions DEF SshFields
    <3> QED
      BY <3>1 DEF AgainInv, CommandLineFor, Valid, Unset, Ports
  <2>3. before # NoConfig => args' = args
    BY <1>2, <2>2 DEF PassOver
  <2>4. before # NoConfig => pc' # "failed"
    BY <2>1 DEF AgainInv
  <2> QED
    BY <2>1, <2>3, <2>4, AgainKept
<1>3. CASE Start
  <2>1. UNCHANGED <<args, prompted, told, before, broad>>
    BY <1>3 DEF Start, callVars
  <2>2. before # NoConfig => Valid(Config(args))
    BY SameConfig DEF AgainInv
  <2>3. before # NoConfig => pc' # "failed"
    BY <1>3, <2>2 DEF Start
  <2> QED
    BY <2>1, <2>3, AgainKept
<1>4. CASE RunLineAgain
  <2>1. /\ before' = cfg /\ told' = CommandLineFor(cfg) /\ args' = told' /\ prompted' = {}
        /\ pc' = "asking" /\ Valid(cfg) /\ cfg = Config(args) /\ broad' = broad
    BY <1>4 DEF RunLineAgain, Call, BaseInv, PrintedInv
  <2>2. args \in [Field -> Text] /\ \A f \in Ports : args[f] \in Numbers
    BY DEF BaseInv, CmdTypeOK
  <2>3. \E a \in [Field -> Text] : (\A f \in Ports : a[f] \in Numbers) /\ before' = Config(a)
    BY <2>1, <2>2
  <2>4. Valid(before)'
    BY <2>1 DEF Valid, FlowValid
  <2>5. told' = CommandLineFor(before') /\ pc' # "failed"
    BY <2>1
  <2> QED
    BY <2>1, <2>3, <2>4, <2>5 DEF AgainInv
<1>5. CASE Stopped \/ UNCHANGED vars
  <2>1. UNCHANGED <<pc, args, told, before, prompted, broad>>
    BY <1>5 DEF Stopped, vars, callVars
  <2>2. before # NoConfig => pc' # "failed"
    BY <2>1 DEF AgainInv
  <2> QED
    BY <2>1, <2>2, AgainKept
<1> QED
  BY <1>1, <1>2, <1>3, <1>4, <1>5 DEF Next

\* README 28: for all flags and answers, a printed line that is run again asks for
\* nothing, is not refused and starts the same run.
THEOREM LineStartsTheSame == Spec => []SameAgain
<1>1. Init => AgainInv
  BY DEF Init, AgainInv
<1>2. BaseInv /\ AgainInv => SameAgain
  <2> SUFFICES ASSUME BaseInv, AgainInv, before # NoConfig, pc = "started"
               PROVE  Effect(cfg) = Effect(before)
    BY DEF SameAgain, AgainInv
  <2>1. PICK a \in [Field -> Text] : (\A f \in Ports : a[f] \in Numbers) /\ before = Config(a)
    BY DEF AgainInv
  <2>2. Valid(Config(a)) /\ cfg = Config(CommandLineFor(Config(a)))
    BY <2>1 DEF AgainInv, BaseInv, PrintedInv
  <2> QED
    BY <2>1, <2>2, SameConfig
<1> QED
  BY <1>1, <1>2, AgainStep, BaseInvariant, PTL DEF Spec

----------------------------------------------------------------------------
(* Flags, answers and defaults.                                            *)

\* What a field is to become.
Wanted(f) ==
  IF told[f] # Unset(f) THEN told[f]
  ELSE IF Trimmed(replies[f]) # "" THEN Trimmed(replies[f])
  ELSE IF f = "target" /\ told["sshHost"] # "" THEN "ssh"
  ELSE IF f = "sshPort" /\ args["target"] # "ssh" THEN "0"
  ELSE Suggested(f)

\* The value of a field whose question is over; the default of the backend may be
\* put in later.
WantedInv ==
  \A f \in Field \ Ahead :
    args[f] = Wanted(f) \/ (f = "backend" /\ args[f] = "" /\ Wanted(f) = "auto")

\* Fields whose questions are over keep what they have.
LEMMA OthersWanted ==
  ASSUME BaseInv, WantedInv, NEW f \in Ahead, NEW g \in Field \ Ahead,
         f = "target" => "sshPort" \in Ahead,
         UNCHANGED told, \A h \in Field \ {f} : args'[h] = args[h] /\ replies'[h] = replies[h]
  PROVE  args'[g] = Wanted(g)' \/ (g = "backend" /\ args'[g] = "" /\ Wanted(g)' = "auto")
<1>1. "target" \in Field /\ "sshHost" \in Field
  BY FieldsOfQuestions
<1>2. args'[g] = args[g] /\ replies'[g] = replies[g]
  OBVIOUS
<1>3. g = "sshPort" => args'["target"] = args["target"]
  BY <1>1
<1>4. Wanted(g)' = Wanted(g)
  BY <1>2, <1>3 DEF Wanted
<1> QED
  BY <1>2, <1>4 DEF WantedInv

LEMMA AskWanted ==
  ASSUME BaseInv, WantedInv, Ask
  PROVE  WantedInv'
<1>f. PICK f : f = Questions[at]
  OBVIOUS
<1>0. at \in 1..14
  BY FieldsOfQuestions DEF BaseInv, CmdTypeOK
<1>1. Go /\ f \in Field /\ f \in Ahead /\ Asks(f) /\ told' = told
      /\ (f = "target" => "sshPort" \in Ahead /\ "sshHost" \in Ahead)
  BY <1>0, <1>f, NextQuestion DEF Ask, callVars
<1>2. Ahead' = Ahead \/ at' = at + 1
  BY DEF Ask, Ahead
<1>3. PICK line \in Replies[f] \cup {""} :
        LET value == AskString(f, line) IN
        IF Accepts(f, value)
        THEN /\ args' = [args EXCEPT ![f] = value]
             /\ replies' = [replies EXCEPT ![f] = line]
             /\ at' = at + 1 /\ UNCHANGED pc
        ELSE pc' = "failed" /\ UNCHANGED <<args, replies, at>>
  BY <1>f DEF Ask
<1>4. args \in [Field -> Text] /\ replies \in [Field -> Text]
  BY DEF BaseInv, CmdTypeOK
<1>5. args[f] = Unset(f) /\ told[f] = Unset(f)
  BY <1>1 DEF Asks, BaseInv, AheadInv
<1>6. f = "target" => told["sshHost"] = ""
  BY <1>1 DEF Asks, BaseInv, AheadInv
<1>7. f = "sshPort" => args["target"] = "ssh"
  BY <1>1 DEF Asks, SshFields
<1>8. at' = at + 1 => Ahead' = Ahead \ {f}
  BY <1>0, <1>1, <1>f, NextQuestion
<1>9. CASE UNCHANGED <<args, replies, at>>
  BY <1>1, <1>9 DEF WantedInv, Wanted, Ahead
<1>10. CASE args' = [args EXCEPT ![f] = AskString(f, line)]
            /\ replies' = [replies EXCEPT ![f] = line] /\ at' = at + 1
  <2>1. \A h \in Field \ {f} : args'[h] = args[h] /\ replies'[h] = replies[h]
    BY <1>1, <1>4, <1>10
  <2>2. args'[f] = AskString(f, line) /\ replies'[f] = line
    BY <1>1, <1>4, <1>10
  <2>3. f = "sshPort" => args'["target"] = "ssh"
    BY <1>7, <2>1, FieldsOfQuestions
  <2>4. args'[f] = Wanted(f)'
    BY <1>1, <1>5, <1>6, <2>2, <2>3 DEF Wanted, AskString
  <2>5. ASSUME NEW g \in Field \ Ahead
        PROVE  args'[g] = Wanted(g)' \/ (g = "backend" /\ args'[g] = "" /\ Wanted(g)' = "auto")
    BY <1>1, <2>1, OthersWanted
  <2>6. Ahead' = Ahead \ {f}
    BY <1>8, <1>10
  <2> QED
    BY <2>4, <2>5, <2>6 DEF WantedInv
<1> QED
  BY <1>3, <1>9, <1>10

LEMMA PassWanted ==
  ASSUME BaseInv, WantedInv, PassOver
  PROVE  WantedInv'
<1>f. PICK f : f = Questions[at]
  OBVIOUS
<1>0. at \in 1..14
  BY FieldsOfQuestions DEF BaseInv, CmdTypeOK
<1>1. /\ Go /\ f \in Field /\ f \in Ahead /\ ~Asks(f) /\ told' = told /\ replies' = replies
      /\ (f = "target" => "sshPort" \in Ahead /\ "sshHost" \in Ahead)
  BY <1>0, <1>f, NextQuestion DEF PassOver, callVars
<1>2. Ahead' = Ahead \ {f}
  BY <1>0, <1>1, <1>f, NextQuestion DEF PassOver
<1>3. args' = IF f = "target" /\ args["target"] = "" THEN [args EXCEPT !["target"] = "ssh"] ELSE args
  BY <1>f DEF PassOver
<1>4. args \in [Field -> Text] /\ "target" \in Field
  BY FieldsOfQuestions DEF BaseInv, CmdTypeOK
<1>5. args[f] = told[f] /\ replies[f] = "" /\ (f = "target" => args["sshHost"] = told["sshHost"])
  BY <1>1 DEF BaseInv, AheadInv
<1>6. \A h \in Field \ {f} : args'[h] = args[h]
  BY <1>3, <1>4
<1>7. args'[f] = Wanted(f)' \/ (f = "backend" /\ args'[f] = "" /\ Wanted(f)' = "auto")
  <2>1. CASE told[f] # Unset(f)
    <3>1. args'[f] = told[f]
      BY <1>3, <1>5, <2>1 DEF Unset, Ports
    <3> QED
      BY <1>1, <2>1, <3>1 DEF Wanted
  <2>2. CASE told[f] = Unset(f) /\ f = "target"
    <3>1. told["sshHost"] # "" /\ args["target"] = ""
      BY <1>1, <1>5, <2>2 DEF Asks, Unset, Ports, Optional, SshFields
    <3>2. args'[f] = "ssh"
      BY <1>3, <1>4, <2>2, <3>1
    <3> QED
      BY <1>1, <1>5, <2>2, <3>1, <3>2 DEF Wanted, Trimmed
  <2>3. CASE told[f] = Unset(f) /\ f # "target"
    <3>1. args' = args
      BY <1>3, <2>3
    <3>2. f \in Optional \/ (f \in SshFields /\ args["target"] # "ssh")
      BY <1>1, <1>5, <2>3 DEF Asks
    <3>3. Wanted(f)' = IF f = "sshPort" /\ args["target"] # "ssh" THEN "0" ELSE Suggested(f)
      BY <1>1, <1>5, <2>3, <3>1 DEF Wanted, Trimmed
    <3>4. f \in {"sport", "dport", "inIface", "backend", "sshUser", "sshKey", "sshHost", "sshPort"}
      BY <3>2 DEF Optional, SshFields
    <3>5. f = "sshPort" => args["target"] # "ssh"
      BY <3>2 DEF Optional
    <3> QED
      BY <1>5, <2>3, <3>1, <3>3, <3>4, <3>5 DEF Suggested, Unset, Ports
  <2> QED
    BY <2>1, <2>2, <2>3
<1>8. ASSUME NEW g \in Field \ Ahead
      PROVE  args'[g] = Wanted(g)' \/ (g = "backend" /\ args'[g] = "" /\ Wanted(g)' = "auto")
  BY <1>1, <1>6, OthersWanted
<1> QED
  BY <1>2, <1>7, <1>8 DEF WantedInv

LEMMA WantedStep == BaseInv /\ WantedInv /\ [Next]_vars => WantedInv'
<1> SUFFICES ASSUME BaseInv, WantedInv, [Next]_vars PROVE WantedInv'
  OBVIOUS
<1>1. CASE Ask
  BY <1>1, AskWanted
<1>2. CASE PassOver
  BY <1>2, PassWanted
<1>3. CASE InputFails \/ Start \/ Stopped \/ UNCHANGED vars
  <2>1. UNCHANGED <<at, args, replies, told>>
    BY <1>3 DEF InputFails, Start, Stopped, vars, callVars
  <2> QED
    BY <2>1 DEF WantedInv, Wanted, Ahead
<1>4. CASE RunLineAgain
  <2>1. Ahead' = Field
    BY <1>4, FieldsOfQuestions DEF RunLineAgain, Call, Ahead, Field
  <2> QED
    BY <2>1 DEF WantedInv
<1> QED
  BY <1>1, <1>2, <1>3, <1>4 DEF Next

\* app.go 122-153: for all flags and answers, each of the thirteen fields of the
\* configuration that starts has the value of its flag, else of its answer, else of
\* its default.
THEOREM RunsAsTold == Spec => []AsTold
<1>1. Init => WantedInv
  <2>1. Init => Ahead = Field
    BY FieldsOfQuestions DEF Init, Ahead, Field
  <2> QED
    BY <2>1 DEF WantedInv
<1>2. BaseInv /\ WantedInv => AsTold
  <2> SUFFICES ASSUME BaseInv, WantedInv, pc = "started" PROVE AsTold
    BY DEF AsTold
  <2>1. args \in [Field -> Text] /\ \A f \in Ports : args[f] \in Numbers
    BY DEF BaseInv, CmdTypeOK
  <2>2. cfg = Config(args) /\ at = 14
    BY DEF BaseInv, PrintedInv
  <2>3. \A f \in Field : cfg[f] = IF f = "backend" /\ args[f] = "" THEN "auto"
                                  ELSE NormalForm(f, args[f])
    BY <2>1, <2>2, ConfigType
  <2>4. Ahead = {}
    BY <2>2 DEF Ahead
  <2>5. cfg["target"] = args["target"]
    BY <2>3, FieldsOfQuestions DEF NormalForm
  <2>6. NormalForm("backend", "auto") = "auto"
    BY DEF NormalForm
  <2>7. ASSUME NEW f \in Field PROVE cfg[f] = NormalForm(f, Wanted(f))
    <3>1. CASE args[f] = Wanted(f)
      <4>1. f = "backend" => Wanted(f) # ""
        BY DEF Wanted, Unset, Ports, Suggested
      <4> QED
        BY <2>3, <3>1, <4>1
    <3>2. CASE f = "backend" /\ args[f] = "" /\ Wanted(f) = "auto"
      BY <2>3, <2>6, <3>2
    <3> QED
      BY <2>4, <3>1, <3>2 DEF WantedInv
  <2> QED
    BY <2>5, <2>7 DEF AsTold, Wanted
<1> QED
  BY <1>1, <1>2, WantedStep, BaseInvariant, PTL DEF Spec
=============================================================================
