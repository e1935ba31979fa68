----------------------------- MODULE CalcProofs -----------------------------
(***************************************************************************)
(* Theorems about Calc: a published result and its scale belong together   *)
(* (Coherent), and a worker at rest has published what is due              *)
(* (QuietMeansCurrent), for any rates, numbers of points, scales, window   *)
(* types, waveforms and widths.                                            *)
(***************************************************************************)
EXTENDS Calc, TLAPS

----------------------------------------------------------------------------
\* The inductive invariant.

Inputs == [n : Nat, len : Nat]
Fields(c) ==
  DOMAIN c = {"windowtype", "fsamp", "nfft", "mult", "input", "replan", "window", "output", "fscale"}

\* The types of what is set, read and handed over.
Types ==
  /\ fsamp \in Nat /\ nfft \in Nat /\ mult \in Nat /\ sampWidth \in Nat
  /\ inputs \in Nat /\ valin \in Inputs
  /\ fetched # Empty => fetched \in [size : {1}, n : Nat, usewindow : BOOLEAN, len : Nat]

\* The types of what PSDCalc holds and the fields of what run() publishes.
Held ==
  /\ Fields(calc)
  /\ calc.input \in Inputs /\ calc.nfft \in Nat
  /\ calc.replan \in BOOLEAN /\ scalchange \in BOOLEAN
Shape == DOMAIN out = {"valid", "val", "scale", "window", "time"}

\* What a plan for c makes: the window, the scale and, from what is left of the
\* input, the result.
Length(c) == Min({c.nfft, c.input.len})
WindowOf(c) == [size |-> c.input.len, type |-> c.windowtype, ntime |-> Length(c)]
ScaleOf(c) == [size |-> Length(c) \div 2, ntime |-> Length(c), fsamp |-> c.fsamp]
Result(c, samples, plan) ==
  [size |-> Length(c) \div 2, input |-> samples, plan |-> plan, mult |-> c.mult,
   window |-> WindowOf(c), fsamp |-> c.fsamp]
Results(c) == UNION {{Result(c, x, p) : x \in Samples(c.input, p)} : p \in BOOLEAN}

\* A scale and a window are those of a result.
Belong(v, s, w) ==
  /\ s = [size |-> v.size, ntime |-> v.window.ntime, fsamp |-> v.fsamp]
  /\ w = v.window

\* No change of a parameter has passed since planning ...
Planned ==
  ~calc.replan =>
    /\ calc.window = WindowOf(calc)
    /\ calc.fscale = IF Length(calc) < 2 THEN Empty ELSE ScaleOf(calc)

\* ... which waits for an input only: nothing else postpones it.
Unplanned ==
  calc.replan => calc.input.len = 0 \/ (worker = "calculate" /\ scalchange)

\* The last result of PSDCalc belongs to its scale and its window, also when
\* the parameters have moved on.
Matched == calc.output # Empty => Belong(calc.output, calc.fscale, calc.window)

\* Scale and window of PSDCalc are published, unless they are about to be.
Published ==
  \/ worker \in {"calculate", "publish"} /\ scalchange
  \/ out.scale = calc.fscale /\ out.window = calc.window

\* The inductive invariant of Coherent.
IInv == Types /\ Held /\ Shape /\ Planned /\ Unplanned /\ Matched /\ Published /\ Coherent

\* PSDCalc has everything that is set, but perhaps the window type.
Fed ==
  /\ fsamp # 0 /\ nfft # 0
  /\ calc.fsamp = fsamp /\ calc.nfft = nfft /\ calc.mult = divisor /\ calc.input = valin
  /\ timeproc = timein

\* What QuietMeansCurrent says of a worker at rest.
Current ==
  valin.len > 0 =>
    IF fsamp = 0 \/ nfft = 0 \/ Min({nfft, valin.len}) < 2 THEN ~out.valid
    ELSE out.valid /\ out.val \in Due /\ out.time = timein

\* What the worker has done so far, if nobody will poke it.
Undisturbed ==
  ~wake /\ fetched = Empty =>
    /\ worker = "off" => fsamp = 0 /\ ~out.valid
    /\ worker \in {"calculate", "publish"} => Fed
    /\ worker \in {"wait", "scan"} => Current

\* PSDCalc calculates from what it was given.
Calculated ==
  worker = "publish" /\ calc.input.len > 0 =>
    IF Length(calc) < 2 THEN calc.output = Empty ELSE calc.output \in Results(calc)

\* The inductive invariant of QuietMeansCurrent.
CInv == IInv /\ Undisturbed /\ Calculated

----------------------------------------------------------------------------
\* Facts about the operators.

LEMMA MinOfTwo ==
  ASSUME NEW a \in Nat, NEW b \in Nat
  PROVE  Min({a, b}) \in Nat
BY DEF Min

\* PSDCalc after run() has given it the parameters and the input.
LEMMA Feeding ==
  ASSUME Fields(calc), run_prepare
  PROVE  /\ Fields(calc)'
         /\ calc'.windowtype = windowtype /\ calc'.fsamp = fsamp /\ calc'.nfft = nfft
         /\ calc'.mult = divisor /\ calc'.input = valin
         /\ calc'.replan = (calc.replan \/ Changed)
         /\ calc'.window = calc.window /\ calc'.output = calc.output /\ calc'.fscale = calc.fscale
<1> DEFINE d == [calc EXCEPT !.windowtype = windowtype, !.fsamp = fsamp, !.nfft = nfft,
                 !.mult = divisor, !.input = valin, !.replan = @ \/ Changed]
<1>1. calc' = d
  BY DEF run_prepare
<1>2. /\ Fields(d)
      /\ d.windowtype = windowtype /\ d.fsamp = fsamp /\ d.nfft = nfft
      /\ d.mult = divisor /\ d.input = valin /\ d.replan = (calc.replan \/ Changed)
      /\ d.window = calc.window /\ d.output = calc.output /\ d.fscale = calc.fscale
  BY DEF Fields
<1> HIDE DEF d
<1> QED BY <1>1, <1>2 DEF Fields

\* Due and Results as functions of what they depend on.
Dues(n, in, type, divide, rate) ==
  LET l == Min({n, in.len})
      w == [size |-> in.len, type |-> type, ntime |-> l] IN
    UNION {{[size |-> l \div 2, input |-> samples, plan |-> plan, mult |-> divide,
             window |-> w, fsamp |-> rate] : samples \in Samples(in, plan)} : plan \in BOOLEAN}

LEMMA DueDepends ==
  /\ Due = Dues(nfft, valin, calc.windowtype, divisor, fsamp)
  /\ Due' = Dues(nfft', valin', calc'.windowtype, divisor', fsamp')
BY Zenon DEF Due, Dues

LEMMA ResultsDepend ==
  ASSUME NEW c
  PROVE  Results(c) = Dues(c.nfft, c.input, c.windowtype, c.mult, c.fsamp)
BY Zenon DEF Results, Result, Length, WindowOf, Dues

\* Every result of a plan has its length, window and rate.
LEMMA ResultFields ==
  ASSUME NEW c, NEW v \in Results(c)
  PROVE  v.size = Length(c) \div 2 /\ v.window = WindowOf(c) /\ v.fsamp = c.fsamp
<1>1. PICK p \in BOOLEAN : v \in {Result(c, x, p) : x \in Samples(c.input, p)}
  BY Zenon DEF Results
<1>2. PICK x \in Samples(c.input, p) : v = Result(c, x, p)
  BY <1>1, Zenon
<1> QED BY <1>2 DEF Result

\* PSDCalc after it has calculated something.
LEMMA Calculating ==
  ASSUME Fields(calc), calculate, calc.input.len # 0
  PROVE  /\ Fields(calc)'
         /\ calc'.windowtype = calc.windowtype /\ calc'.fsamp = calc.fsamp
         /\ calc'.nfft = calc.nfft /\ calc'.mult = calc.mult /\ calc'.input = calc.input
         /\ calc'.replan = FALSE
         /\ calc'.window = window
         /\ \E x \in Samples(calc.input, calc.replan) :
              calc'.output = Spectrum([size |-> ntime \div 2, input |-> x, plan |-> calc.replan,
                               mult |-> calc.mult, window |-> window, fsamp |-> calc.fsamp])
         /\ calc'.fscale = IF calc.replan THEN Spectrum([size |-> ntime \div 2, ntime |-> ntime,
                                                        fsamp |-> calc.fsamp])
                           ELSE calc.fscale
<1> DEFINE o(x) == Spectrum([size |-> ntime \div 2, input |-> x, plan |-> calc.replan,
                             mult |-> calc.mult, window |-> window, fsamp |-> calc.fsamp])
           s == Spectrum([size |-> ntime \div 2, ntime |-> ntime, fsamp |-> calc.fsamp])
           f == IF calc.replan THEN s ELSE calc.fscale
           d(y) == [calc EXCEPT !.window = window, !.output = y,
                                !.fscale = f, !.replan = FALSE]
<1>1. PICK x \in Samples(calc.input, calc.replan) : calc' = d(o(x))
  BY DEF calculate
<1> HIDE DEF o, s
<1> HIDE DEF f
<1>2. ASSUME NEW y
      PROVE  /\ Fields(d(y))
             /\ d(y).windowtype = calc.windowtype /\ d(y).fsamp = calc.fsamp
             /\ d(y).nfft = calc.nfft /\ d(y).mult = calc.mult /\ d(y).input = calc.input
             /\ d(y).replan = FALSE
             /\ d(y).window = window /\ d(y).output = y /\ d(y).fscale = f
  BY DEF Fields
<1> HIDE DEF d
<1>3. /\ Fields(d(o(x)))
      /\ d(o(x)).windowtype = calc.windowtype /\ d(o(x)).fsamp = calc.fsamp
      /\ d(o(x)).nfft = calc.nfft /\ d(o(x)).mult = calc.mult /\ d(o(x)).input = calc.input
      /\ d(o(x)).replan = FALSE
      /\ d(o(x)).window = window /\ d(o(x)).output = o(x) /\ d(o(x)).fscale = f
  BY <1>2, Zenon
<1>4. calc'.output = o(x)
  BY <1>1, <1>3, Zenon
<1>5. \E z \in Samples(calc.input, calc.replan) :
        calc'.output = Spectrum([size |-> ntime \div 2, input |-> z, plan |-> calc.replan,
                         mult |-> calc.mult, window |-> window, fsamp |-> calc.fsamp])
  BY <1>4, Zenon DEF o
<1> QED BY <1>1, <1>3, <1>5, Zenon DEF s, f, Fields

core == <<worker, calc, scalchange, out>>

\* Only run() and its start touch PSDCalc and what is published.
LEMMA StepCases ==
  ASSUME [Next]_vars
  PROVE  \/ UNCHANGED core
         \/ startWorkers \/ run_wake \/ run_incomplete \/ run_prepare \/ calculate
         \/ run_publish \/ run_scan
BY DEF Next, vars, params, core, Setting, set_nfft, set_fsamp, set_scale, set_windtype, set_width,
       set_wf_input, set_wf_input_copy, set_wf_input_done, rest, run, get_begin, get_end, world

----------------------------------------------------------------------------
\* Coherent.

LEMMA CoherentInit == Init => IInv
<1> SUFFICES ASSUME Init PROVE IInv
  OBVIOUS
<1>1. valin = [n |-> 0, len |-> 0] /\ valin \in Inputs
  BY DEF Init, Inputs
<1>2. Types
  BY <1>1 DEF Init, Types
<1>3. PICK w \in Window \cup {Junk} :
        calc = [windowtype |-> w, fsamp |-> 0, nfft |-> 0, mult |-> 0, input |-> valin,
                replan |-> TRUE, window |-> Empty, output |-> Empty, fscale |-> Empty]
  BY DEF Init
<1>4. /\ Fields(calc) /\ calc.input = valin /\ calc.nfft = 0 /\ calc.replan = TRUE
      /\ calc.window = Empty /\ calc.output = Empty /\ calc.fscale = Empty
  BY <1>3 DEF Fields
<1>5. Held
  <2>1. scalchange = FALSE /\ calc.nfft \in Nat
    BY <1>4 DEF Init
  <2> QED BY <1>1, <1>4, <2>1, Zenon DEF Held
<1>6. Planned /\ Matched
  BY <1>4, Zenon DEF Planned, Matched
<1>7. Unplanned
  BY <1>1, <1>4 DEF Unplanned
<1>8. out = [valid |-> FALSE, val |-> Empty, scale |-> Empty, window |-> Empty, time |-> 0]
  BY DEF Init
<1>9. out.scale = Empty /\ out.window = Empty /\ out.valid = FALSE
  BY <1>8
<1>10. Published
  BY <1>4, <1>9, Zenon DEF Published
<1>11. Coherent
  BY <1>9, Zenon DEF Coherent
<1>12. Shape
  BY <1>8 DEF Shape
<1> QED BY <1>2, <1>5, <1>6, <1>7, <1>10, <1>11, <1>12 DEF IInv

\* What is fetched, with the length that is left of it.
LEMMA TypesFetch ==
  ASSUME Types, NEW len \in Waves, set_wf_input(len)
  PROVE  Types'
<1>1. Min({len, sampWidth}) \in Nat
  BY MinOfTwo, CalcAssumption DEF Types
<1> DEFINE usewindow == sampWidth > 0
           l == IF usewindow THEN Min({len, sampWidth}) ELSE len
<1>2. l \in Nat
  BY <1>1, CalcAssumption
<1>3. fetched' = [size |-> 1, n |-> inputs + 1, usewindow |-> usewindow, len |-> l]
  BY DEF set_wf_input
<1>4. usewindow \in BOOLEAN
  OBVIOUS
<1> HIDE DEF l, usewindow
<1>5. inputs + 1 \in Nat
  BY DEF Types
<1>6. fetched' \in [size : {1}, n : Nat, usewindow : BOOLEAN, len : Nat]
  BY <1>2, <1>3, <1>4, <1>5
<1> QED BY <1>5, <1>6 DEF Types, set_wf_input, params

LEMMA TypesCopy ==
  ASSUME Types, set_wf_input_copy
  PROVE  Types'
<1>1. fetched \in [size : {1}, n : Nat, usewindow : BOOLEAN, len : Nat]
  BY DEF Types, set_wf_input_copy
<1>2. Min({fetched.len, sampWidth}) \in Nat
  BY <1>1, MinOfTwo DEF Types
<1> DEFINE l == IF fetched.usewindow THEN Min({fetched.len, sampWidth}) ELSE fetched.len
<1>3. l \in Nat
  BY <1>1, <1>2
<1>4. fetched' = [fetched EXCEPT !.len = l]
  BY DEF set_wf_input_copy
<1> HIDE DEF l
<1>5. fetched' \in [size : {1}, n : Nat, usewindow : BOOLEAN, len : Nat] /\ fetched'.len \in Nat
  BY <1>1, <1>3, <1>4
<1>6. valin' \in Inputs
  BY <1>5 DEF set_wf_input_copy, Inputs, Torn
<1> QED BY <1>5, <1>6 DEF Types, set_wf_input_copy, params

LEMMA TypesStep == Types /\ [Next]_vars => Types'
<1> SUFFICES ASSUME Types, [Next]_vars PROVE Types'
  OBVIOUS
<1> USE CalcAssumption
<1>1. ASSUME NEW n \in Points, set_nfft(n) PROVE Types'
  BY <1>1 DEF set_nfft, Types, rest
<1>2. ASSUME NEW f \in Rate, set_fsamp(f) PROVE Types'
  BY <1>2 DEF set_fsamp, Types, rest
<1>3. ASSUME NEW x \in Mult, set_scale(x) PROVE Types'
  BY <1>3 DEF set_scale, Types, rest
<1>4. ASSUME NEW w \in Window, set_windtype(w) PROVE Types'
  BY <1>4 DEF set_windtype, Types, rest
<1>5. ASSUME NEW n \in Width, set_width(n) PROVE Types'
  BY <1>5 DEF set_width, Types, rest
<1>6. ASSUME NEW len \in Waves, set_wf_input(len) PROVE Types'
  BY <1>6, TypesFetch
<1>7. CASE set_wf_input_copy
  BY <1>7, TypesCopy
<1>8. CASE set_wf_input_done
  BY <1>8 DEF set_wf_input_done, Types, params, Inputs
<1>9. CASE UNCHANGED <<params, inputs, valin, fetched>>
  BY <1>9 DEF Types, params
<1>10. CASE startWorkers \/ run \/ \E r \in Records : get_begin(r) \/ get_end(r)
  BY <1>9, <1>10 DEF startWorkers, run, run_wake, run_incomplete, run_prepare, calculate,
                     run_publish, run_scan, get_begin, get_end, world
<1> QED BY <1>1, <1>2, <1>3, <1>4, <1>5, <1>6, <1>7, <1>8, <1>9, <1>10 DEF Next, Setting, vars

LEMMA HeldStep == Types /\ Held /\ [Next]_vars => Held'
<1> SUFFICES ASSUME Types, Held, [Next]_vars PROVE Held'
  OBVIOUS
<1>1. CASE run_prepare
  <2>1. /\ Fields(calc)' /\ calc'.nfft = nfft /\ calc'.input = valin
        /\ calc'.replan = (calc.replan \/ Changed)
    BY <1>1, Feeding DEF Held
  <2>2. (calc.replan \/ Changed) \in BOOLEAN /\ Changed \in BOOLEAN
    BY DEF Held, Changed
  <2>3. scalchange' = Changed
    BY <1>1 DEF run_prepare
  <2> QED BY <2>1, <2>2, <2>3, Zenon DEF Types, Held
<1>2. CASE calculate
  <2>1. CASE calc.input.len = 0
    BY <1>2, <2>1 DEF calculate, Held, Fields
  <2>2. CASE calc.input.len # 0
    <3>1. /\ Fields(calc)' /\ calc'.nfft = calc.nfft /\ calc'.input = calc.input
          /\ calc'.replan = FALSE
      BY <1>2, <2>2, Calculating DEF Held
    <3> QED BY <1>2, <3>1 DEF Held, calculate
  <2> QED BY <2>1, <2>2
<1>3. CASE run_scan
  BY <1>3 DEF run_scan, Held, Fields
<1>4. CASE UNCHANGED <<calc, scalchange>>
  BY <1>4 DEF Held, Fields
<1> QED BY <1>1, <1>2, <1>3, <1>4, StepCases DEF core, startWorkers, run_wake, run_incomplete,
                                                 run_publish

LEMMA ShapeStep == Shape /\ [Next]_vars => Shape'
<1> SUFFICES ASSUME Shape, [Next]_vars PROVE Shape'
  OBVIOUS
<1>1. CASE run_publish
  BY <1>1 DEF run_publish, Shape
<1>2. CASE run_incomplete
  BY <1>2 DEF run_incomplete, Shape
<1>3. CASE out' = out
  BY <1>3 DEF Shape
<1> QED BY <1>1, <1>2, <1>3, StepCases DEF core, startWorkers, run_wake, run_prepare, calculate,
                                            run_scan

\* run_prepare keeps what PSDCalc has made, and plans anew if anything differs
\* from what it was made for.
LEMMA PreparePreserves ==
  ASSUME IInv, run_prepare
  PROVE  (Planned /\ Unplanned /\ Matched /\ Published /\ Coherent)'
<1>1. /\ calc'.windowtype = windowtype /\ calc'.fsamp = fsamp /\ calc'.nfft = nfft
      /\ calc'.mult = divisor /\ calc'.input = valin
      /\ calc'.replan = (calc.replan \/ Changed)
      /\ calc'.window = calc.window /\ calc'.output = calc.output /\ calc'.fscale = calc.fscale
  BY Feeding DEF IInv, Held
<1>2. /\ worker = "prepare" /\ worker' = "calculate" /\ scalchange' = Changed /\ out' = out
  BY DEF run_prepare
<1>3. Planned'
  <2>1. SUFFICES ASSUME ~calc'.replan PROVE Planned'
    BY Zenon DEF Planned
  <2>2. ~calc.replan /\ ~Changed
    BY <1>1, <2>1, Zenon
  <2>3. /\ calc'.windowtype = calc.windowtype /\ calc'.fsamp = calc.fsamp
        /\ calc'.nfft = calc.nfft /\ calc'.input.len = calc.input.len
    BY <1>1, <2>2 DEF Changed
  <2>4. Length(calc') = Length(calc)
    BY <2>3, Zenon DEF Length
  <2>5. WindowOf(calc') = WindowOf(calc) /\ ScaleOf(calc') = ScaleOf(calc)
    BY <2>3, <2>4, Zenon DEF WindowOf, ScaleOf
  <2>6. /\ calc.window = WindowOf(calc)
        /\ calc.fscale = IF Length(calc) < 2 THEN Empty ELSE ScaleOf(calc)
    BY <2>2, Zenon DEF IInv, Planned
  <2>7. /\ calc'.window = WindowOf(calc')
        /\ calc'.fscale = IF Length(calc') < 2 THEN Empty ELSE ScaleOf(calc')
    BY <1>1, <2>4, <2>5, <2>6, Zenon
  <2> QED BY <2>7, Zenon DEF Planned
<1>4. Unplanned'
  <2>1. CASE Changed
    BY <1>2, <2>1, Zenon DEF Unplanned
  <2>2. CASE ~Changed
    <3>1. calc'.input.len = calc.input.len
      BY <1>1, <2>2 DEF Changed
    <3>2. calc'.replan => calc.replan
      BY <1>1, <2>2, Zenon
    <3>3. calc.replan => calc.input.len = 0
      BY <1>2 DEF IInv, Unplanned
    <3> QED BY <3>1, <3>2, <3>3, Zenon DEF Unplanned
  <2> QED BY <2>1, <2>2
<1>5. Matched'
  BY <1>1, Zenon DEF IInv, Matched
<1>6. Published'
  <2>1. out.scale = calc.fscale /\ out.window = calc.window
    BY <1>2 DEF IInv, Published
  <2> QED BY <1>1, <1>2, <2>1, Zenon DEF Published
<1>7. Coherent'
  BY <1>2, Zenon DEF IInv, Coherent
<1> QED BY <1>3, <1>4, <1>5, <1>6, <1>7

\* After a calculation the result is the one that the parameters and the input
\* say, whether it was planned now or before.
LEMMA CalculateMakes ==
  ASSUME Held, Planned, calculate, calc.input.len # 0
  PROVE  /\ Length(calc') = Length(calc)
         /\ calc'.window = WindowOf(calc')
         /\ calc'.fscale = IF Length(calc') < 2 THEN Empty ELSE ScaleOf(calc')
         /\ IF Length(calc') < 2 THEN calc'.output = Empty ELSE calc'.output \in Results(calc')
<1>1. /\ calc'.windowtype = calc.windowtype /\ calc'.fsamp = calc.fsamp
      /\ calc'.nfft = calc.nfft /\ calc'.mult = calc.mult /\ calc'.input = calc.input
      /\ calc'.window = window
      /\ \E x \in Samples(calc.input, calc.replan) :
           calc'.output = Spectrum([size |-> ntime \div 2, input |-> x, plan |-> calc.replan,
                            mult |-> calc.mult, window |-> window, fsamp |-> calc.fsamp])
      /\ calc'.fscale = IF calc.replan THEN Spectrum([size |-> ntime \div 2, ntime |-> ntime,
                                                     fsamp |-> calc.fsamp])
                        ELSE calc.fscale
  BY Calculating DEF Held
<1>2. ntime = Length(calc) /\ Length(calc') = Length(calc)
  BY <1>1, Zenon DEF ntime, Length
<1>3. /\ WindowOf(calc') = WindowOf(calc) /\ ScaleOf(calc') = ScaleOf(calc)
      /\ \A x, p : Result(calc', x, p) = Result(calc, x, p)
  <2>1. WindowOf(calc') = WindowOf(calc) /\ ScaleOf(calc') = ScaleOf(calc)
    BY <1>1, <1>2, Zenon DEF WindowOf, ScaleOf
  <2> QED BY <1>1, <1>2, <2>1, Zenon DEF Result
<1>4. window = WindowOf(calc)
  BY <1>2, Zenon DEF window, WindowOf, Planned
<1>5. calc'.window = WindowOf(calc')
  BY <1>1, <1>3, <1>4, Zenon
<1>6. IF Length(calc) < 2 THEN calc'.output = Empty ELSE calc'.output \in Results(calc')
  <2>1. PICK x \in Samples(calc.input, calc.replan) :
          calc'.output = Spectrum([size |-> ntime \div 2, input |-> x, plan |-> calc.replan,
                           mult |-> calc.mult, window |-> window, fsamp |-> calc.fsamp])
    BY <1>1, Zenon
  <2>2. calc'.output = IF Length(calc) < 2 THEN Empty ELSE Result(calc, x, calc.replan)
    BY <1>2, <1>4, <2>1, Zenon DEF Spectrum, Result
  <2>3. Result(calc, x, calc.replan) \in Results(calc')
    <3>1. calc.replan \in BOOLEAN /\ x \in Samples(calc'.input, calc.replan)
      BY <1>1, Zenon DEF Held
    <3>2. Result(calc', x, calc.replan) \in Results(calc')
      <4> DEFINE T(p) == {Result(calc', y, p) : y \in Samples(calc'.input, p)}
      <4>1. Result(calc', x, calc.replan) \in T(calc.replan)
        BY <3>1, Zenon
      <4> HIDE DEF T
      <4>2. T(calc.replan) \in {T(p) : p \in BOOLEAN}
        BY <3>1, Zenon
      <4>3. Result(calc', x, calc.replan) \in UNION {T(p) : p \in BOOLEAN}
        BY <4>1, <4>2, Zenon
      <4> QED BY <4>3, Zenon DEF Results, T
    <3> QED BY <1>3, <3>2, Zenon
  <2> QED BY <2>2, <2>3, Zenon
<1>7. calc'.fscale = IF Length(calc) < 2 THEN Empty ELSE ScaleOf(calc)
  <2>1. CASE calc.replan
    BY <1>1, <1>2, <2>1, Zenon DEF Spectrum, ScaleOf
  <2>2. CASE ~calc.replan
    BY <1>1, <2>2, Zenon DEF Planned
  <2> QED BY <2>1, <2>2
<1> QED BY <1>2, <1>3, <1>5, <1>6, <1>7, Zenon

LEMMA CalculatePreserves ==
  ASSUME IInv, calculate
  PROVE  (Planned /\ Unplanned /\ Matched /\ Published /\ Coherent)'
<1>1. worker = "calculate" /\ worker' = "publish" /\ scalchange' = scalchange /\ out' = out
  BY DEF calculate
<1>2. Coherent'
  BY <1>1, Zenon DEF IInv, Coherent
<1>3. CASE calc.input.len = 0
  <2>1. calc' = calc
    BY <1>3 DEF calculate
  <2>2. Unplanned'
    BY <1>3, <2>1, Zenon DEF Unplanned
  <2>3. Planned' /\ Matched'
    BY <2>1, Zenon DEF IInv, Planned, Matched
  <2>4. Published'
    BY <1>1, <2>1, Zenon DEF IInv, Published
  <2> QED BY <1>2, <2>2, <2>3, <2>4
<1>4. CASE calc.input.len # 0
  <2>1. /\ calc'.window = WindowOf(calc')
        /\ calc'.fscale = IF Length(calc') < 2 THEN Empty ELSE ScaleOf(calc')
        /\ IF Length(calc') < 2 THEN calc'.output = Empty ELSE calc'.output \in Results(calc')
    BY <1>4, CalculateMakes DEF IInv
  <2>2. calc'.replan = FALSE
    BY <1>4, Calculating DEF IInv, Held
  <2>3. Planned' /\ Unplanned'
    BY <2>1, <2>2, Zenon DEF Planned, Unplanned
  <2>4. Matched'
    <3>1. SUFFICES ASSUME calc'.output # Empty PROVE Belong(calc'.output, calc'.fscale, calc'.window)
      BY Zenon DEF Matched
    <3>2. calc'.output \in Results(calc') /\ calc'.fscale = ScaleOf(calc')
      BY <2>1, <3>1, Zenon
    <3>3. /\ calc'.output.size = Length(calc') \div 2
          /\ calc'.output.window = WindowOf(calc')
          /\ calc'.output.fsamp = calc'.fsamp
      BY <3>2, ResultFields
    <3>4. WindowOf(calc').ntime = Length(calc')
      BY DEF WindowOf
    <3> QED BY <2>1, <3>2, <3>3, <3>4, Zenon DEF Belong, ScaleOf
  <2>5. Published'
    <3>1. CASE scalchange
      BY <1>1, <3>1, Zenon DEF Published
    <3>2. CASE ~scalchange
      <4>1. ~calc.replan
        BY <1>4, <3>2, Zenon DEF IInv, Unplanned
      <4>2. /\ calc.window = WindowOf(calc)
            /\ calc.fscale = IF Length(calc) < 2 THEN Empty ELSE ScaleOf(calc)
        BY <4>1, Zenon DEF IInv, Planned
      <4>3. calc'.window = window /\ calc'.fscale = calc.fscale
        BY <1>4, <4>1, Calculating DEF IInv, Held
      <4>4. calc'.window = calc.window
        BY <4>1, <4>3, Zenon DEF window
      <4>5. out.scale = calc.fscale /\ out.window = calc.window
        BY <3>2, Zenon DEF IInv, Published
      <4> QED BY <1>1, <4>3, <4>4, <4>5, Zenon DEF Published
    <3> QED BY <3>1, <3>2
  <2> QED BY <1>2, <2>3, <2>4, <2>5
<1> QED BY <1>3, <1>4

LEMMA PublishPreserves ==
  ASSUME IInv, run_publish
  PROVE  (Planned /\ Unplanned /\ Matched /\ Published /\ Coherent)'
<1>1. /\ worker = "publish" /\ worker' = "scan" /\ calc' = calc
      /\ out' = [valid |-> calc.output # Empty /\ (scalchange => calc.fscale # Empty),
                 val |-> calc.output, time |-> timeproc,
                 scale |-> IF scalchange THEN calc.fscale ELSE out.scale,
                 window |-> IF scalchange THEN calc.window ELSE out.window]
  BY DEF run_publish
<1>2. /\ out'.valid => calc.output # Empty
      /\ out'.val = calc.output
      /\ out'.scale = IF scalchange THEN calc.fscale ELSE out.scale
      /\ out'.window = IF scalchange THEN calc.window ELSE out.window
  BY <1>1
<1>3. out'.scale = calc.fscale /\ out'.window = calc.window
  BY <1>2, Zenon DEF IInv, Published
<1>4. Published'
  BY <1>1, <1>3, Zenon DEF Published
<1>5. Planned' /\ Matched'
  BY <1>1, Zenon DEF IInv, Planned, Matched
<1>6. Unplanned'
  <2>1. calc.replan => calc.input.len = 0
    BY <1>1 DEF IInv, Unplanned
  <2> QED BY <1>1, <2>1, Zenon DEF Unplanned
<1>7. Coherent'
  BY <1>2, <1>3, Zenon DEF IInv, Matched, Belong, Coherent
<1> QED BY <1>4, <1>5, <1>6, <1>7

LEMMA CoherentStep == IInv /\ [Next]_vars => IInv'
<1> SUFFICES ASSUME IInv, [Next]_vars PROVE IInv'
  OBVIOUS
<1>1. Types' /\ Held' /\ Shape'
  BY TypesStep, HeldStep, ShapeStep DEF IInv
<1> DEFINE Rest == Planned /\ Unplanned /\ Matched /\ Published /\ Coherent
<1>2. CASE run_prepare
  BY <1>1, <1>2, PreparePreserves DEF IInv
<1>3. CASE calculate
  BY <1>1, <1>3, CalculatePreserves DEF IInv
<1>4. CASE run_publish
  BY <1>1, <1>4, PublishPreserves DEF IInv
<1>5. CASE UNCHANGED core
  <2>1. Rest'
    BY <1>5 DEF core, IInv, Planned, Unplanned, Matched, Published, Coherent, Length, WindowOf,
                ScaleOf, Belong
  <2> QED BY <1>1, <2>1 DEF IInv
<1>6. ASSUME calc' = calc, worker \notin {"calculate", "publish"},
             worker' \notin {"calculate", "publish"},
             out'.scale = out.scale, out'.window = out.window, Coherent'
      PROVE  IInv'
  <2>1. Planned' /\ Matched'
    BY <1>6, Zenon DEF IInv, Planned, Matched
  <2>2. calc.replan => calc.input.len = 0
    BY <1>6 DEF IInv, Unplanned
  <2>3. out.scale = calc.fscale /\ out.window = calc.window
    BY <1>6 DEF IInv, Published
  <2>4. Unplanned'
    BY <1>6, <2>2, Zenon DEF Unplanned
  <2>5. Published'
    BY <1>6, <2>3, Zenon DEF Published
  <2> QED BY <1>1, <1>6, <2>1, <2>4, <2>5 DEF IInv
<1>7. CASE startWorkers
  <2>1. Coherent'
    BY <1>7, Zenon DEF startWorkers, IInv, Coherent
  <2> QED BY <1>6, <1>7, <2>1 DEF startWorkers
<1>8. CASE run_wake
  <2>1. Coherent'
    BY <1>8, Zenon DEF run_wake, IInv, Coherent
  <2> QED BY <1>6, <1>8, <2>1 DEF run_wake
<1>9. CASE run_scan
  <2>1. Coherent'
    BY <1>9, Zenon DEF run_scan, IInv, Coherent
  <2> QED BY <1>6, <1>9, <2>1 DEF run_scan
<1>10. CASE run_incomplete
  <2>1. out' = [out EXCEPT !.valid = FALSE]
    BY <1>10 DEF run_incomplete
  <2>2. out'.scale = out.scale /\ out'.window = out.window /\ ~out'.valid
    BY <2>1 DEF IInv, Shape
  <2>3. Coherent'
    BY <2>2, Zenon DEF Coherent
  <2> QED BY <1>6, <1>10, <2>2, <2>3 DEF run_incomplete
<1> QED BY <1>2, <1>3, <1>4, <1>5, <1>7, <1>8, <1>9, <1>10, StepCases

\* What run() publishes as valid belongs together: the scale and the window are
\* those of the result, although they are published on changes only and
\* settings change while PSDCalc calculates.
THEOREM SpecCoherent == Spec => []Coherent
<1>1. Init => IInv
  BY CoherentInit
<1>2. IInv /\ [Next]_vars => IInv'
  BY CoherentStep
<1>3. IInv => Coherent
  BY DEF IInv
<1> QED BY <1>1, <1>2, <1>3, PTL DEF Spec

----------------------------------------------------------------------------
\* QuietMeansCurrent.

LEMMA CurrentInit == Init => CInv
<1> SUFFICES ASSUME Init PROVE CInv
  OBVIOUS
<1>1. IInv
  BY CoherentInit
<1>2. worker = "off" /\ fsamp = 0 /\ out.valid = FALSE /\ wake = FALSE
  BY DEF Init
<1>3. Undisturbed
  BY <1>2 DEF Undisturbed
<1>4. Calculated
  BY <1>2 DEF Calculated
<1> QED BY <1>1, <1>2, <1>3, <1>4 DEF CInv

\* What Undisturbed is about.
seen == <<fsamp, nfft, mult, valin, timein, wake, fetched, worker, calc, timeproc, out>>

\* A poke, or an input that is on its way to one, is enough.
LEMMA PokedOrSame ==
  ASSUME Types, [Next]_vars
  PROVE  \/ wake' = TRUE
         \/ fetched' # Empty
         \/ UNCHANGED seen
         \/ startWorkers \/ run_wake \/ run_incomplete \/ run_prepare \/ calculate
         \/ run_publish \/ run_scan
<1>1. ASSUME NEW len \in Waves, set_wf_input(len) PROVE fetched' # Empty
  <2>1. fetched'.size = 1
    BY <1>1 DEF set_wf_input
  <2> QED BY <2>1 DEF Empty
<1>2. CASE set_wf_input_copy
  <2>1. fetched \in [size : {1}, n : Nat, usewindow : BOOLEAN, len : Nat]
    BY <1>2 DEF set_wf_input_copy, Types
  <2> DEFINE l == IF fetched.usewindow THEN Min({fetched.len, sampWidth}) ELSE fetched.len
  <2>2. fetched' = [fetched EXCEPT !.len = l]
    BY <1>2 DEF set_wf_input_copy
  <2> HIDE DEF l
  <2>3. fetched'.size = 1
    BY <2>1, <2>2
  <2> QED BY <2>3 DEF Empty
<1>3. CASE \/ \E n \in Points : set_nfft(n)
           \/ \E f \in Rate : set_fsamp(f)
           \/ \E x \in Mult : set_scale(x)
  BY <1>3 DEF set_nfft, set_fsamp, set_scale
<1>4. CASE (\E w \in Window : set_windtype(w)) \/ (\E n \in Width : set_width(n))
  BY <1>4 DEF set_windtype, set_width, rest, seen
<1>5. CASE set_wf_input_done
  BY <1>5 DEF set_wf_input_done
<1>6. CASE \E r \in Records : get_begin(r) \/ get_end(r)
  BY <1>6 DEF get_begin, get_end, world, params, seen
<1>7. CASE UNCHANGED vars
  BY <1>7 DEF vars, params, seen
<1> QED BY <1>1, <1>2, <1>3, <1>4, <1>5, <1>6, <1>7 DEF Next, Setting, run

LEMMA CalculatedStep ==
  ASSUME IInv, Calculated, [Next]_vars
  PROVE  Calculated'
<1>1. CASE calculate
  <2>1. CASE calc.input.len = 0
    <3>1. calc' = calc
      BY <1>1, <2>1 DEF calculate
    <3>2. ~(calc'.input.len > 0)
      BY <2>1, <3>1
    <3> QED BY <3>2 DEF Calculated
  <2>2. CASE calc.input.len # 0
    <3>1. IF Length(calc') < 2 THEN calc'.output = Empty ELSE calc'.output \in Results(calc')
      BY <1>1, <2>2, CalculateMakes DEF IInv
    <3> QED BY <3>1, Zenon DEF Calculated
  <2> QED BY <2>1, <2>2
<1>2. CASE UNCHANGED core
  <2>1. worker' = worker /\ calc' = calc
    BY <1>2 DEF core
  <2> QED BY <2>1, Zenon DEF Calculated
<1>3. CASE worker' # "publish"
  BY <1>3 DEF Calculated
<1> QED BY <1>1, <1>2, <1>3, StepCases DEF startWorkers, run_wake, run_incomplete, run_prepare,
                                            run_publish, run_scan

\* run() publishes what is due, if it has calculated with what is set.
LEMMA PublishIsDue ==
  ASSUME IInv, Calculated, Fed, run_publish
  PROVE  Current'
<1>1. SUFFICES ASSUME valin'.len > 0 PROVE Current'
  BY Zenon DEF Current
<1>2. /\ worker = "publish" /\ calc' = calc /\ valin' = valin /\ fsamp' = fsamp /\ nfft' = nfft
      /\ mult' = mult /\ timein' = timein
      /\ out' = [valid |-> calc.output # Empty /\ (scalchange => calc.fscale # Empty),
                 val |-> calc.output, time |-> timeproc,
                 scale |-> IF scalchange THEN calc.fscale ELSE out.scale,
                 window |-> IF scalchange THEN calc.window ELSE out.window]
  BY DEF run_publish, world, params
<1>3. /\ out'.valid <=> calc.output # Empty /\ (scalchange => calc.fscale # Empty)
      /\ out'.val = calc.output /\ out'.time = timein
  BY <1>2 DEF Fed
<1>4. calc.input.len > 0
  BY <1>1, <1>2 DEF Fed
<1>5. IF Length(calc) < 2 THEN calc.output = Empty ELSE calc.output \in Results(calc)
  BY <1>2, <1>4, Zenon DEF Calculated
<1>6. Length(calc) = Min({nfft, valin.len}) /\ Length(calc) \in Nat
  <2>1. Length(calc) = Min({nfft, valin.len})
    BY Zenon DEF Length, Fed
  <2> QED BY <2>1, MinOfTwo DEF IInv, Types, Inputs
<1>7. CASE Length(calc) < 2
  <2>1. ~out'.valid
    BY <1>3, <1>5, <1>7, Zenon
  <2> QED BY <1>2, <1>6, <1>7, <2>1, Zenon DEF Current
<1>8. CASE ~(Length(calc) < 2)
  <2>1. Length(calc) \div 2 # 0
    BY <1>6, <1>8
  <2>2. calc.output.size # 0 /\ ScaleOf(calc).size # 0 /\ Empty.size = 0
    <3>1. calc.output.size = Length(calc) \div 2
      BY <1>5, <1>8, ResultFields
    <3> QED BY <2>1, <3>1 DEF ScaleOf, Empty
  <2>3. ~calc.replan
    BY <1>2, <1>4 DEF IInv, Unplanned
  <2>4. calc.fscale = ScaleOf(calc)
    BY <1>8, <2>3, Zenon DEF IInv, Planned
  <2>5. out'.valid
    BY <1>3, <1>5, <1>8, <2>2, <2>4, Zenon
  <2>6. Due = Results(calc)
    BY DueDepends, ResultsDepend, Zenon DEF Fed
  <2>7. Due' = Due
    BY <1>2, DueDepends, Zenon DEF divisor
  <2>8. out'.val \in Due'
    BY <1>3, <1>5, <1>8, <2>6, <2>7, Zenon
  <2>9. ~(fsamp = 0 \/ nfft = 0 \/ Min({nfft, valin.len}) < 2)
    BY <1>6, <1>8, Zenon DEF Fed
  <2> QED BY <1>2, <1>3, <2>5, <2>8, <2>9, Zenon DEF Current
<1> QED BY <1>7, <1>8

LEMMA UndisturbedStep ==
  ASSUME CInv, [Next]_vars
  PROVE  Undisturbed'
<1>1. SUFFICES ASSUME ~wake', fetched' = Empty
               PROVE  /\ worker' = "off" => fsamp' = 0 /\ ~out'.valid
                      /\ worker' \in {"calculate", "publish"} => Fed'
                      /\ worker' \in {"wait", "scan"} => Current'
  BY Zenon DEF Undisturbed
<1>2. CASE startWorkers
  <2>1. /\ worker = "off" /\ worker' = "wait" /\ wake' = wake /\ fetched' = fetched
        /\ fsamp' = fsamp /\ out' = out
    BY <1>2 DEF startWorkers, world, params
  <2>2. fsamp' = 0 /\ ~out'.valid
    BY <1>1, <2>1 DEF CInv, Undisturbed
  <2>3. Current'
    BY <2>2, Zenon DEF Current
  <2> QED BY <2>1, <2>3
<1>3. CASE run_wake
  BY <1>3 DEF run_wake
<1>4. CASE run_incomplete
  <2>1. /\ worker' = "wait" /\ out' = [out EXCEPT !.valid = FALSE]
        /\ fsamp' = 0 \/ nfft' = 0
    BY <1>4 DEF run_incomplete, world, params
  <2>2. ~out'.valid
    BY <2>1 DEF CInv, IInv, Shape
  <2>3. Current'
    BY <2>1, <2>2, Zenon DEF Current
  <2> QED BY <2>1, <2>3
<1>5. CASE run_prepare
  <2>1. /\ calc'.fsamp = fsamp /\ calc'.nfft = nfft /\ calc'.mult = divisor /\ calc'.input = valin
    BY <1>5, Feeding DEF CInv, IInv, Held
  <2>2. /\ worker' = "calculate" /\ timeproc' = timein /\ fsamp # 0 /\ nfft # 0
        /\ fsamp' = fsamp /\ nfft' = nfft /\ mult' = mult /\ valin' = valin /\ timein' = timein
    BY <1>5 DEF run_prepare, world, params
  <2>3. divisor' = divisor
    BY <2>2, Zenon DEF divisor
  <2>4. Fed'
    BY <2>1, <2>2, <2>3, Zenon DEF Fed
  <2> QED BY <2>2, <2>4
<1>6. CASE calculate
  <2>1. /\ worker = "calculate" /\ worker' = "publish" /\ timeproc' = timeproc
        /\ wake' = wake /\ fetched' = fetched
        /\ fsamp' = fsamp /\ nfft' = nfft /\ mult' = mult /\ valin' = valin /\ timein' = timein
    BY <1>6 DEF calculate, world, params
  <2>2. Fed
    BY <1>1, <2>1 DEF CInv, Undisturbed
  <2>3. /\ calc'.fsamp = calc.fsamp /\ calc'.nfft = calc.nfft /\ calc'.mult = calc.mult
        /\ calc'.input = calc.input
    <3>1. CASE calc.input.len = 0
      BY <1>6, <3>1 DEF calculate
    <3>2. CASE calc.input.len # 0
      BY <1>6, <3>2, Calculating DEF CInv, IInv, Held
    <3> QED BY <3>1, <3>2
  <2>4. divisor' = divisor
    BY <2>1, Zenon DEF divisor
  <2>5. Fed'
    BY <2>1, <2>2, <2>3, <2>4, Zenon DEF Fed
  <2> QED BY <2>1, <2>5
<1>7. CASE run_publish
  <2>1. /\ worker = "publish" /\ worker' = "scan" /\ wake' = wake /\ fetched' = fetched
    BY <1>7 DEF run_publish, world
  <2>2. Fed
    BY <1>1, <2>1 DEF CInv, Undisturbed
  <2>3. Current'
    BY <1>7, <2>2, PublishIsDue DEF CInv
  <2> QED BY <2>1, <2>3
<1>8. CASE run_scan
  <2>1. /\ worker = "scan" /\ worker' = "wait" /\ wake' = wake /\ fetched' = fetched
        /\ fsamp' = fsamp /\ nfft' = nfft /\ mult' = mult /\ valin' = valin /\ timein' = timein
        /\ calc' = calc /\ out' = out
    BY <1>8 DEF run_scan, world, params
  <2>2. Current
    BY <1>1, <2>1 DEF CInv, Undisturbed
  <2>3. Due' = Due
    BY <2>1, DueDepends, Zenon DEF divisor
  <2>4. Current'
    BY <2>1, <2>2, <2>3, Zenon DEF Current
  <2> QED BY <2>1, <2>4
<1>9. CASE UNCHANGED seen
  <2>1. /\ worker' = worker /\ wake' = wake /\ fetched' = fetched
        /\ fsamp' = fsamp /\ nfft' = nfft /\ mult' = mult /\ valin' = valin /\ timein' = timein
        /\ calc' = calc /\ out' = out /\ timeproc' = timeproc
    BY <1>9 DEF seen
  <2>2. Due' = Due /\ divisor' = divisor
    BY <2>1, DueDepends, Zenon DEF divisor
  <2>3. (Current => Current') /\ (Fed => Fed')
    BY <2>1, <2>2, Zenon DEF Current, Fed
  <2>4. /\ worker = "off" => fsamp = 0 /\ ~out.valid
        /\ worker \in {"calculate", "publish"} => Fed
        /\ worker \in {"wait", "scan"} => Current
    BY <1>1, <2>1, Zenon DEF CInv, Undisturbed
  <2> QED BY <2>1, <2>3, <2>4, Zenon
<1> QED BY <1>1, <1>2, <1>3, <1>4, <1>5, <1>6, <1>7, <1>8, <1>9, PokedOrSame DEF CInv, IInv

\* Once the worker rests the published result is one that is due: no setting and
\* no input is forgotten, whenever it came.  It is the spectrum of the input unless
\* it was planned for in the same call, which may have overwritten the samples.
THEOREM SpecQuietMeansCurrent == Spec => []QuietMeansCurrent
<1>1. Init => CInv
  BY CurrentInit
<1>2. CInv /\ [Next]_vars => CInv'
  BY CoherentStep, CalculatedStep, UndisturbedStep DEF CInv
<1>3. CInv => QuietMeansCurrent
  <2> SUFFICES ASSUME CInv, Quiet PROVE valin.len > 0 =>
                IF fsamp = 0 \/ nfft = 0 \/ Min({nfft, valin.len}) < 2 THEN ~out.valid
                ELSE out.valid /\ out.val \in Due /\ out.time = timein
    BY Zenon DEF QuietMeansCurrent
  <2>1. Current
    BY DEF CInv, Undisturbed, Quiet
  <2> QED BY <2>1, Zenon DEF Current
<1> QED BY <1>1, <1>2, <1>3, PTL DEF Spec
=============================================================================
