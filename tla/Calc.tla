-------------------------------- MODULE Calc --------------------------------
(***************************************************************************)
(* The power spectrum calculation of sigApp/src/fftcalc.cpp (struct Calc   *)
(* and the device support around it) with the PSDCalc of fftwrap.cpp that  *)
(* it drives.                                                              *)
(*                                                                         *)
(* Records set parameters and inputs and poke a worker thread, which       *)
(* copies them, calculates, publishes the result and requests scans of the *)
(* records that read it.  Only run() really takes Calc::lock: everywhere   *)
(* else "Guard(priv->lock);" makes a temporary that is gone at once, so    *)
(* that inputs may be copied while they are being replaced (Torn), and so  *)
(* may results.                                                            *)
(*                                                                         *)
(* Numbers are abstracted to what they were computed from: an input is     *)
(* [n, len], the n-th waveform cut to len samples, a result names the      *)
(* samples it was computed from, every parameter that went into it and     *)
(* whether it was planned for in the same call.                            *)
(***************************************************************************)
EXTENDS Naturals, FiniteSets, FiniteSetsExt

CONSTANTS
  Rate,       \* sampling rates: values of fsamp, 0 or less being none
  Points,     \* values of nfft
  Mult,       \* values of mult, the scale of the input
  Window,     \* window types
  Junk,       \* a window type that was never initialised
  Waves,      \* lengths of the waveforms that are read in
  Width,      \* values of sampWidth
  MaxSet,     \* bound: settings
  MaxInput    \* bound: inputs

ASSUME CalcAssumption ==
  /\ Rate \subseteq Nat /\ Points \subseteq Nat /\ Mult \subseteq Nat
  /\ Waves \subseteq Nat /\ Width \subseteq Nat
  /\ MaxSet \in Nat /\ MaxInput \in Nat

VARIABLES
  fsamp, nfft, mult, windowtype, sampWidth, timein, valin,   \* Calc's inputs
  wake,        \* epicsEvent
  fetched,     \* set_wf_input(): the waveform it has read and not copied
  inputs, sets,
  worker,      \* run(): "off", "wait", "prepare", "calculate", "publish", "scan"
  calc,        \* the PSDCalc
  scalchange, timeproc,                                \* run()'s variables
  out,         \* what run() has published
  scan,        \* scan[r]: the records of IOSCANPVT r are to be processed
  reading,     \* reading[r]: what a record that is being processed copies
  shown,       \* shown[r]: what it showed last
  blanked      \* history: run() took back a valid result

params == <<fsamp, nfft, mult, windowtype, sampWidth>>
vars == <<params, timein, valin, wake, fetched, inputs, sets, worker, calc, scalchange, timeproc,
          out, scan, reading, shown, blanked>>

Records == {"value", "scale"}
Torn == 0                            \* number of samples that are no input's
Empty == [size |-> 0]                \* an array without elements
NoRead == [ok |-> FALSE, torn |-> FALSE, val |-> Empty]

\* What a record of each kind copies.
Content(r) == IF r = "value" THEN <<out.val, out.time>> ELSE <<out.scale, out.window>>

----------------------------------------------------------------------------
\* The constructors leave the window types to chance.
Init ==
  /\ fsamp = 0 /\ nfft = 0 /\ mult = 1 /\ windowtype \in Window \cup {Junk} /\ sampWidth = 0
  /\ timein = 0 /\ valin = [n |-> 0, len |-> 0]
  /\ wake = FALSE /\ fetched = Empty /\ inputs = 0 /\ sets = 0
  /\ worker = "off"
  /\ \E w \in Window \cup {Junk} :
       calc = [windowtype |-> w, fsamp |-> 0, nfft |-> 0, mult |-> 0, input |-> valin,
               replan |-> TRUE, window |-> Empty, output |-> Empty, fscale |-> Empty]
  /\ scalchange = FALSE /\ timeproc = 0
  /\ out = [valid |-> FALSE, val |-> Empty, scale |-> Empty, window |-> Empty, time |-> 0]
  /\ scan = [r \in Records |-> FALSE]
  /\ reading = [r \in Records |-> NoRead] /\ shown = [r \in Records |-> NoRead]
  /\ blanked = FALSE

rest == <<timein, valin, fetched, inputs, worker, calc, scalchange, timeproc, out, scan, reading,
          shown, blanked>>

\* set_nfft(), set_fsamp() and set_scale() poke the worker.
set_nfft(n) ==
  /\ sets < MaxSet /\ sets' = sets + 1
  /\ n # nfft
  /\ nfft' = n /\ wake' = TRUE
  /\ UNCHANGED <<rest, fsamp, mult, windowtype, sampWidth>>

set_fsamp(f) ==
  /\ sets < MaxSet /\ sets' = sets + 1
  /\ f # fsamp
  /\ fsamp' = f /\ wake' = TRUE
  /\ UNCHANGED <<rest, nfft, mult, windowtype, sampWidth>>

set_scale(x) ==
  /\ sets < MaxSet /\ sets' = sets + 1
  /\ x # mult
  /\ mult' = x /\ wake' = TRUE
  /\ UNCHANGED <<rest, fsamp, nfft, windowtype, sampWidth>>

\* set_windtype() and set_width(), like set_start(), do not.
set_windtype(w) ==
  /\ sets < MaxSet /\ sets' = sets + 1
  /\ windowtype' = w
  /\ UNCHANGED <<rest, fsamp, nfft, mult, sampWidth, wake>>

set_width(n) ==
  /\ sets < MaxSet /\ sets' = sets + 1
  /\ n # sampWidth
  /\ sampWidth' = n
  /\ UNCHANGED <<rest, fsamp, nfft, mult, windowtype, wake>>

\* set_wf_input(): reads the waveform, or keeps the one before if the link
\* fails, which is the same here ...
set_wf_input(len) ==
  /\ fetched = Empty /\ inputs < MaxInput
  /\ inputs' = inputs + 1
  /\ LET usewindow == sampWidth > 0 IN
       fetched' = [size |-> 1, n |-> inputs + 1, usewindow |-> usewindow,
                   len |-> IF usewindow THEN Min({len, sampWidth}) ELSE len]
  /\ UNCHANGED <<params, timein, valin, wake, sets, worker, calc, scalchange, timeproc, out, scan,
                 reading, shown, blanked>>

\* ... stores its time, begins to copy it, the part that sampWidth leaves now ...
set_wf_input_copy ==
  /\ fetched # Empty /\ timein # fetched.n
  /\ timein' = fetched.n
  /\ fetched' = [fetched EXCEPT
       !.len = IF fetched.usewindow THEN Min({fetched.len, sampWidth}) ELSE fetched.len]
  /\ valin' = [n |-> Torn, len |-> fetched'.len]
  /\ UNCHANGED <<params, wake, inputs, sets, worker, calc, scalchange, timeproc, out, scan,
                 reading, shown, blanked>>

\* Mutant: the worker is not woken.
set_wf_input_done_NoPoke ==
  /\ fetched # Empty /\ timein = fetched.n
  /\ valin' = [n |-> fetched.n, len |-> fetched.len]
  /\ fetched' = Empty
  /\ UNCHANGED <<params, wake, timein, inputs, sets, worker, calc, scalchange, timeproc, out, scan,
                 reading, shown, blanked>>

\* ... and pokes the worker when it is there.
set_wf_input_done ==
  /\ fetched # Empty /\ timein = fetched.n
  /\ valin' = [n |-> fetched.n, len |-> fetched.len]
  /\ wake' = TRUE
  /\ fetched' = Empty
  /\ UNCHANGED <<params, timein, inputs, sets, worker, calc, scalchange, timeproc, out, scan,
                 reading, shown, blanked>>

----------------------------------------------------------------------------
\* The worker.

world == <<params, timein, valin, fetched, inputs, sets>>

\* startWorkers(), once the IOC runs.
startWorkers ==
  /\ worker = "off"
  /\ worker' = "wait"
  /\ UNCHANGED <<world, wake, calc, scalchange, timeproc, out, scan, reading, shown, blanked>>

run_wake ==
  /\ worker = "wait" /\ wake
  /\ wake' = FALSE
  /\ worker' = "prepare"
  /\ UNCHANGED <<world, calc, scalchange, timeproc, out, scan, reading, shown, blanked>>

\* Something is missing: the result is no longer valid.
run_incomplete ==
  /\ worker = "prepare" /\ (fsamp = 0 \/ nfft = 0)
  /\ out' = [out EXCEPT !.valid = FALSE]
  /\ blanked' = (blanked \/ out.valid)
  /\ scan' = [scan EXCEPT !["value"] = TRUE]
  /\ worker' = "wait"
  /\ UNCHANGED <<world, wake, calc, scalchange, timeproc, reading, shown>>

\* PSDCalc::set_input() takes no scale for 1.
divisor == IF mult = 0 THEN 1 ELSE mult

\* What is new since the last calculation.
Changed ==
  \/ calc.windowtype # windowtype
  \/ calc.fsamp # fsamp
  \/ calc.nfft # nfft
  \/ calc.input.len # valin.len
  \/ calc.mult # divisor

\* The first locked section: PSDCalc gets the parameters and the input.
run_prepare ==
  /\ worker = "prepare" /\ fsamp # 0 /\ nfft # 0
  /\ scalchange' = Changed
  /\ calc' = [calc EXCEPT !.windowtype = windowtype, !.fsamp = fsamp, !.nfft = nfft,
                          !.mult = divisor, !.input = valin, !.replan = @ \/ Changed]
  /\ timeproc' = timein
  /\ worker' = "calculate"
  /\ UNCHANGED <<world, wake, out, scan, reading, shown, blanked>>

\* What the input's array holds when the transform runs.  calculate() prepares
\* the samples first and plans then, with FFTW_MEASURE: FFTW tries plans on the
\* array and leaves anything in it, unless it remembers one for this size.
Samples(in, plan) == IF plan THEN {in, [in EXCEPT !.n = Torn]} ELSE {in}

\* PSDCalc::calculate(): the window and the scale are made anew when planning;
\* without input everything stays as it is.
ntime == Min({calc.nfft, calc.input.len})
window == IF calc.replan
          THEN [size |-> calc.input.len, type |-> calc.windowtype, ntime |-> ntime]
          ELSE calc.window
Spectrum(what) == IF ntime < 2 THEN Empty ELSE what

calculate ==
  /\ worker = "calculate"
  /\ \E samples \in Samples(calc.input, calc.replan) :
       calc' = IF calc.input.len = 0 THEN calc
               ELSE [calc EXCEPT
                 !.window = window,
                 !.output = Spectrum([size |-> ntime \div 2, input |-> samples, plan |-> calc.replan,
                                      mult |-> calc.mult, window |-> window, fsamp |-> calc.fsamp]),
                 !.fscale = IF calc.replan
                            THEN Spectrum([size |-> ntime \div 2, ntime |-> ntime,
                                           fsamp |-> calc.fsamp])
                            ELSE @,
                 !.replan = FALSE]
  /\ worker' = "publish"
  /\ UNCHANGED <<world, wake, scalchange, timeproc, out, scan, reading, shown, blanked>>

\* A record that copies a result while it is replaced gets a mixture.
tear == [r \in Records |->
          IF reading[r].ok /\ (r = "value" \/ scalchange)
          THEN [ok |-> TRUE, torn |-> TRUE, val |-> Empty] ELSE reading[r]]

\* Mutant: the scale is published only with a new sampling rate.
run_publish_KeepsScale ==
  /\ worker = "publish"
  /\ out' = [valid |-> calc.output # Empty,
             val |-> calc.output, time |-> timeproc,
             scale |-> IF out.scale = Empty \/ calc.fscale = Empty \/ calc.fscale.fsamp # out.scale.fsamp
                       THEN calc.fscale ELSE out.scale,
             window |-> IF scalchange THEN calc.window ELSE out.window]
  /\ reading' = tear
  /\ worker' = "scan"
  /\ UNCHANGED <<world, wake, calc, scalchange, timeproc, scan, shown, blanked>>

\* The second locked section publishes the result, the scale and the window
\* only if a parameter has changed.
run_publish ==
  /\ worker = "publish"
  /\ out' = [valid |-> calc.output # Empty /\ (scalchange => calc.fscale # Empty),
             val |-> calc.output, time |-> timeproc,
             scale |-> IF scalchange THEN calc.fscale ELSE out.scale,
             window |-> IF scalchange THEN calc.window ELSE out.window]
  /\ reading' = tear
  /\ worker' = "scan"
  /\ UNCHANGED <<world, wake, calc, scalchange, timeproc, scan, shown, blanked>>

\* Mutant: the scale's records are not told.
run_scan_ValueOnly ==
  /\ worker = "scan"
  /\ scan' = [scan EXCEPT !["value"] = TRUE]
  /\ worker' = "wait" /\ scalchange' = FALSE /\ timeproc' = 0
  /\ UNCHANGED <<world, wake, calc, out, reading, shown, blanked>>

\* The scans come after the result.
run_scan ==
  /\ worker = "scan"
  /\ scan' = [scan EXCEPT !["value"] = TRUE, !["scale"] = @ \/ scalchange]
  /\ worker' = "wait" /\ scalchange' = FALSE /\ timeproc' = 0
  /\ UNCHANGED <<world, wake, calc, out, reading, shown, blanked>>

run == run_wake \/ run_incomplete \/ run_prepare \/ calculate \/ run_publish \/ run_scan

----------------------------------------------------------------------------
\* The records that show the result, scanned on I/O Intr: get_wf_output() and
\* get_wf_outputint() with "value", get_wf_fscale() and get_wf_window() with
\* "scale".
get_begin(r) ==
  /\ scan[r] /\ ~reading[r].ok
  /\ scan' = [scan EXCEPT ![r] = FALSE]
  /\ IF out.valid
     THEN reading' = [reading EXCEPT ![r] = [ok |-> TRUE, torn |-> FALSE, val |-> Content(r)]]
          /\ UNCHANGED shown
     ELSE shown' = [shown EXCEPT ![r] = NoRead] /\ UNCHANGED reading
  /\ UNCHANGED <<world, wake, worker, calc, scalchange, timeproc, out, blanked>>

get_end(r) ==
  /\ reading[r].ok
  /\ shown' = [shown EXCEPT ![r] = reading[r]]
  /\ reading' = [reading EXCEPT ![r] = NoRead]
  /\ UNCHANGED <<world, wake, worker, calc, scalchange, timeproc, out, scan, blanked>>

Setting ==
  \/ \E n \in Points : set_nfft(n)
  \/ \E f \in Rate : set_fsamp(f)
  \/ \E x \in Mult : set_scale(x)
  \/ \E w \in Window : set_windtype(w)
  \/ \E n \in Width : set_width(n)
  \/ \E len \in Waves : set_wf_input(len)

Next ==
  \/ Setting \/ set_wf_input_copy \/ set_wf_input_done
  \/ startWorkers \/ run
  \/ \E r \in Records : get_begin(r) \/ get_end(r)

\* The IOC starts its threads; the worker and the records' threads run; nobody
\* need ever set anything.
Fairness ==
  /\ WF_vars(set_wf_input_copy) /\ WF_vars(set_wf_input_done)
  /\ WF_vars(startWorkers) /\ WF_vars(run)
  /\ \A r \in Records : WF_vars(get_begin(r)) /\ WF_vars(get_end(r))

Spec == Init /\ [][Next]_vars /\ Fairness

----------------------------------------------------------------------------
\* Result and scale always belong together: what run() publishes as valid was
\* calculated with the rate and the number of points that the published scale
\* was made for, and with the published window, however settings change while
\* it calculates and although the scale is published on changes only.
Coherent ==
  out.valid =>
    /\ out.scale = [size |-> out.val.size, ntime |-> out.val.window.ntime, fsamp |-> out.val.fsamp]
    /\ out.window = out.val.window

\* Nothing is under way.
Quiet == worker = "wait" /\ ~wake /\ fetched = Empty

\* The results that may be due for what is set now: of the input, if the plan
\* is an earlier call's.  A window type that was set after the last poke of the
\* worker is not in it yet.
Due ==
  LET n == Min({nfft, valin.len})
      w == [size |-> valin.len, type |-> calc.windowtype, ntime |-> n] IN
    UNION {{[size |-> n \div 2, input |-> samples, plan |-> plan, mult |-> divisor,
             window |-> w, fsamp |-> fsamp] : samples \in Samples(valin, plan)} : plan \in BOOLEAN}

\* Once the worker rests, the published result is one that is due, with the time
\* of its input: no setting or input is forgotten, even if it came while the
\* worker was calculating, and no torn input stays.  A result that was planned
\* for in the same call has all that is set, but its samples may be what FFTW
\* left of the input (fftwrap.cpp plans after the input is prepared); any other
\* is the spectrum of the input.  An empty input leaves the result before it
\* standing.
QuietMeansCurrent ==
  Quiet /\ valin.len > 0 =>
    IF fsamp = 0 \/ nfft = 0 \/ Min({nfft, valin.len}) < 2 THEN ~out.valid
    ELSE out.valid /\ out.val \in Due /\ out.time = timein

\* Every record settles on what run() published last, not on a mixture, and the
\* value records on its validity: the scans come after the result.  The scale
\* may stay invalid once a valid result was taken back, for it is scanned only
\* when a parameter changes.
Settles(r) == IF out.valid THEN shown[r] = [ok |-> TRUE, torn |-> FALSE, val |-> Content(r)]
              ELSE ~shown[r].ok
RecordsSettle ==
  /\ <>[]Settles("value")
  /\ <>[](out.valid /\ ~blanked => Settles("scale"))
=============================================================================
