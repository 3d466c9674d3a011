--------------------------- MODULE AnalysisProofs ---------------------------
(***************************************************************************)
(* What holds of an analysis: of the stored ones for any number of runs,    *)
(* articles, stories and failures, beside the resynchronisations of the     *)
(* graphs and the refreshes of the reader's index; and of the fact-check    *)
(* they rest on for any claims, pages, thresholds, workers and deadlines.   *)
(***************************************************************************)
EXTENDS Reader, Claims, FiniteSetTheorems, SequenceTheorems, TLAPS

-----------------------------------------------------------------------------
(* Why the lake is traceable: a layer's write looks at which layers returned a *)
(* record before it, and none of those returns one later.                      *)

\* The variables the properties rest on, with as much of their types as they need.
Shape ==
  /\ run \in [Runs -> Run]
  /\ DOMAIN lake = Ids
  /\ manifest \in [Ids -> Nat]
  /\ clock \in Nat /\ faults \in Nat /\ crashes \in Nat

\* Where an analysis is as long as a layer was not written.
NothingYet == {"waiting", "storingRaw"}
RawAtMost == NothingYet \cup {"storingProcessed"}
NotServed == RawAtMost \cup {"admitting", "checking", "storingReport", "storingServed"}

\* What has been written so far of one analysis.
Progress(r) ==
  /\ run[r].at \in NothingYet =>
       run[r].held = {} /\ lake[<<"processed", r>>] = NoRecord
  /\ run[r].at \in RawAtMost => run[r].held \subseteq {"raw"}
  /\ run[r].at \in NotServed =>
       run[r].held \subseteq {"raw", "processed"} /\ lake[<<"exploitation", r>>] = NoRecord

\* A record that was returned is there and in the log, and a record names its
\* parent just when the parent was returned.
Linked(r) ==
  /\ \A layer \in run[r].held : lake[<<layer, r>>] # NoRecord /\ manifest[<<layer, r>>] > 0
  /\ InLake("processed", r) => lake[<<"processed", r>>].parent = ("raw" \in run[r].held)
  /\ InLake("exploitation", r) =>
       lake[<<"exploitation", r>>].parent = ("processed" \in run[r].held)

TraceInv ==
  /\ Shape
  /\ \A id \in Ids : manifest[id] > 0 => lake[id] # NoRecord
  /\ \A r \in Runs : Progress(r) /\ Linked(r)

\* What the invariant is for.
LEMMA TraceImplies == TraceInv => LakeIsTraceable
  <1> SUFFICES ASSUME TraceInv PROVE LakeIsTraceable
    OBVIOUS
  <1>1. \A id \in Ids : manifest[id] > 0 => lake[id] # NoRecord
    BY DEF TraceInv
  <1>2. ASSUME NEW r \in Runs
        PROVE  /\ InLake("processed", r) /\ lake[<<"processed", r>>].parent => InLake("raw", r)
               /\ InLake("exploitation", r) /\ lake[<<"exploitation", r>>].parent
                    => InLake("processed", r)
               /\ Persisted(r) =>
                    /\ \A layer \in Layers : manifest[<<layer, r>>] > 0
                    /\ lake[<<"processed", r>>].parent /\ lake[<<"exploitation", r>>].parent
    <2>1. Linked(r) BY DEF TraceInv
    <2>2. {"raw", "processed", "exploitation"} = Layers BY DEF Layers
    <2> QED BY <2>1, <2>2 DEF Linked, InLake, Persisted
  <1> QED BY <1>1, <1>2 DEF LakeIsTraceable

\* A record has more than a URL.
LEMMA RecordsAreRecords ==
  ASSUME NEW r, NEW parent, NEW said PROVE RecordOf(r, parent, said) # NoRecord
  <1>1. "edition" \in DOMAIN RecordOf(r, parent, said) BY DEF RecordOf
  <1>2. "edition" \notin DOMAIN NoRecord BY DEF NoRecord
  <1> QED BY <1>1, <1>2

\* An id is a layer and a run.
LEMMA IdsArePairs ==
  /\ \A layer \in Layers, r \in Runs : <<layer, r>> \in Ids
  /\ \A id \in Ids : \E layer \in Layers, r \in Runs : id = <<layer, r>>
  BY DEF Ids

\* An empty lake.
LEMMA TraceInit == ReaderInit => TraceInv
  <1> SUFFICES ASSUME ReaderInit PROVE TraceInv
    OBVIOUS
  <1>1. Waiting \in Run
    BY DEF Waiting, Run, Stages, Ends, NoReport, Report, Layers
  <1>2. Shape
    BY <1>1 DEF ReaderInit, Init, Shape
  <1>3. \A id \in Ids : lake[id] = NoRecord /\ manifest[id] = 0
    BY DEF ReaderInit, Init
  <1>4. ASSUME NEW r \in Runs PROVE Progress(r) /\ Linked(r)
    <2>1. run[r].held = {}
      BY DEF ReaderInit, Init, Waiting
    <2>2. \A layer \in Layers : lake[<<layer, r>>] = NoRecord
      BY <1>3, IdsArePairs
    <2>3. lake[<<"processed", r>>] = NoRecord /\ lake[<<"exploitation", r>>] = NoRecord
      BY <2>2 DEF Layers
    <2> QED BY <2>1, <2>3 DEF Progress, Linked, InLake
  <1> QED BY <1>2, <1>3, <1>4 DEF TraceInv

\* What a write does, whether it succeeds, fails before the file or after it.
StoreDoes(r, layer, record, stage) ==
  /\ run' \in [Runs -> Run] /\ DOMAIN lake' = Ids /\ manifest' \in [Ids -> Nat] /\ faults' \in Nat
  /\ \A s \in Runs \ {r} : run'[s] = run[s]
  /\ \A id \in Ids \ {<<layer, r>>} : lake'[id] = lake[id] /\ manifest'[id] = manifest[id]
  /\ run'[r].at = stage
  /\ run'[r].report = run[r].report /\ run'[r].request = run[r].request
  /\ run'[r].beside = run[r].beside
  /\ \/ /\ run'[r].held = run[r].held \cup {layer}
        /\ lake'[<<layer, r>>] = record /\ manifest'[<<layer, r>>] > 0
     \/ /\ run'[r].held = run[r].held
        /\ lake'[<<layer, r>>] \in {lake[<<layer, r>>], record}
        /\ manifest'[<<layer, r>>] = manifest[<<layer, r>>]

\* Each outcome of Store is one of these.
LEMMA StoreEffect ==
  ASSUME Shape, NEW r \in Runs, NEW layer \in Layers, NEW record, NEW stage \in Stages,
         Store(r, layer, record, After(r, stage))
  PROVE  StoreDoes(r, layer, record, stage)
  <1> DEFINE moved == After(r, stage)
             put == [lake EXCEPT ![<<layer, r>>] = record]
             logged == [manifest EXCEPT ![<<layer, r>>] = @ + 1]
  <1>1. run[r] \in Run /\ run \in [Runs -> Run]
    BY DEF Shape
  <1>2. moved \in [Runs -> Run] /\ moved[r].at = stage /\ moved[r].held = run[r].held
        /\ moved[r].report = run[r].report /\ moved[r].request = run[r].request
        /\ moved[r].beside = run[r].beside
        /\ \A s \in Runs \ {r} : moved[s] = run[s]
    BY <1>1 DEF After, Run
  <1>3. <<layer, r>> \in Ids /\ DOMAIN lake = Ids /\ manifest \in [Ids -> Nat] /\ faults \in Nat
    BY IdsArePairs DEF Shape
  <1>4. DOMAIN put = Ids /\ put[<<layer, r>>] = record
        /\ \A id \in Ids \ {<<layer, r>>} : put[id] = lake[id]
    BY <1>3
  <1>5. logged \in [Ids -> Nat] /\ logged[<<layer, r>>] > 0
        /\ \A id \in Ids \ {<<layer, r>>} : logged[id] = manifest[id]
    BY <1>3
  <1>6. CASE run' = moved /\ UNCHANGED <<lake, manifest>> /\ faults' \in Nat
    BY <1>2, <1>3, <1>6 DEF StoreDoes
  <1>7. CASE run' = moved /\ lake' = put /\ UNCHANGED manifest /\ faults' \in Nat
    BY <1>2, <1>3, <1>4, <1>7 DEF StoreDoes
  <1>8. CASE run' = [moved EXCEPT ![r].held = @ \cup {layer}] /\ lake' = put
             /\ manifest' = logged /\ faults' \in Nat
    <2>1. run'[r] = [moved[r] EXCEPT !.held = @ \cup {layer}] /\ moved[r] \in Run
      BY <1>2, <1>8
    <2>2. run' \in [Runs -> Run] /\ run'[r].at = stage /\ run'[r].held = run[r].held \cup {layer}
          /\ run'[r].report = run[r].report /\ run'[r].request = run[r].request
          /\ run'[r].beside = run[r].beside
          /\ \A s \in Runs \ {r} : run'[s] = run[s]
      BY <1>2, <1>8, <2>1 DEF Run
    <2> QED BY <1>4, <1>5, <1>8, <2>2 DEF StoreDoes
  <1> QED BY <1>3, <1>6, <1>7, <1>8 DEF Store, Write, Fails

\* A write keeps the lake traceable when the record is new, names its parent as the
\* code does, and no later layer has been written.
LEMMA StoreKeeps ==
  ASSUME TraceInv, clock' \in Nat, crashes' \in Nat, NEW r \in Runs, NEW layer \in Layers,
         NEW record, NEW stage, StoreDoes(r, layer, record, stage), record # NoRecord,
         layer = "processed" => record.parent = ("raw" \in run[r].held),
         layer = "exploitation" => record.parent = ("processed" \in run[r].held),
         layer = "raw" => lake[<<"processed", r>>] = NoRecord,
         layer = "processed" => lake[<<"exploitation", r>>] = NoRecord,
         Progress(r)'
  PROVE  TraceInv'
  <1>1. Shape'
    BY DEF Shape, StoreDoes, TraceInv
  <1>2. \A id \in Ids : manifest'[id] > 0 => lake'[id] # NoRecord
    BY DEF TraceInv, StoreDoes
  <1>3. ASSUME NEW s \in Runs PROVE Progress(s)' /\ Linked(s)'
    <2>1. CASE s = r
      <3>1. \A l \in Layers \ {layer} : /\ lake'[<<l, r>>] = lake[<<l, r>>]
                                        /\ manifest'[<<l, r>>] = manifest[<<l, r>>]
        BY IdsArePairs DEF StoreDoes
      <3>2. Linked(r) /\ run[r].held \subseteq Layers
        BY DEF TraceInv, Shape, Run
      <3>3. manifest[<<layer, r>>] > 0 => lake[<<layer, r>>] # NoRecord
        BY IdsArePairs DEF TraceInv
      <3>4. \A l \in run'[r].held : lake'[<<l, r>>] # NoRecord /\ manifest'[<<l, r>>] > 0
        BY <3>1, <3>2, <3>3 DEF Linked, StoreDoes
      <3>5. InLake("processed", r)' => lake'[<<"processed", r>>].parent = ("raw" \in run'[r].held)
        <4>1. CASE layer = "raw"
          BY <3>1, <4>1 DEF InLake, Layers
        <4>2. CASE layer = "processed"
          BY <3>2, <4>2 DEF InLake, StoreDoes, Linked
        <4>3. CASE layer = "exploitation"
          BY <3>1, <3>2, <4>3 DEF InLake, StoreDoes, Linked, Layers
        <4> QED BY <4>1, <4>2, <4>3 DEF Layers
      <3>6. InLake("exploitation", r)' =>
              lake'[<<"exploitation", r>>].parent = ("processed" \in run'[r].held)
        <4>1. CASE layer = "raw"
          BY <3>1, <3>2, <4>1 DEF InLake, StoreDoes, Linked, Layers
        <4>2. CASE layer = "processed"
          BY <3>1, <4>2 DEF InLake, Layers
        <4>3. CASE layer = "exploitation"
          BY <3>2, <4>3 DEF InLake, StoreDoes, Linked
        <4> QED BY <4>1, <4>2, <4>3 DEF Layers
      <3> QED BY <2>1, <3>4, <3>5, <3>6 DEF Linked
    <2>2. CASE s # r
      <3>1. \A l \in Layers : <<l, s>> \in Ids \ {<<layer, r>>}
        BY <2>2, IdsArePairs
      <3>2. /\ run'[s] = run[s]
            /\ \A l \in Layers : lake'[<<l, s>>] = lake[<<l, s>>]
                                 /\ manifest'[<<l, s>>] = manifest[<<l, s>>]
        BY <2>2, <3>1 DEF StoreDoes
      <3>3. Progress(s) /\ Linked(s) /\ run[s].held \subseteq Layers
        BY DEF TraceInv, Shape, Run
      <3>4. lake'[<<"processed", s>>] = lake[<<"processed", s>>]
            /\ lake'[<<"exploitation", s>>] = lake[<<"exploitation", s>>]
        BY <3>2 DEF Layers
      <3>5. Progress(s)'
        BY <3>2, <3>3, <3>4 DEF Progress
      <3>6. Linked(s)'
        BY <3>2, <3>3, <3>4 DEF Linked, InLake
      <3> QED BY <3>5, <3>6
    <2> QED BY <2>1, <2>2
  <1> QED BY <1>1, <1>2, <1>3 DEF TraceInv

\* A step that writes no layer keeps the lake traceable when no run is put back to
\* where a layer is still to be written.
LEMMA MovesKeep ==
  ASSUME TraceInv, Shape', UNCHANGED <<lake, manifest>>,
         \A s \in Runs : /\ run'[s].held = run[s].held
                         /\ \A before \in {NothingYet, RawAtMost, NotServed} :
                              run'[s].at \in before => run[s].at \in before
  PROVE  TraceInv'
  <1>1. ASSUME NEW s \in Runs PROVE Progress(s)' /\ Linked(s)'
    <2>1. Progress(s) /\ Linked(s)
      BY DEF TraceInv
    <2>2. Progress(s)'
      BY <2>1 DEF Progress
    <2>3. Linked(s)'
      BY <2>1 DEF Linked, InLake
    <2> QED BY <2>2, <2>3
  <1>2. \A id \in Ids : manifest'[id] > 0 => lake'[id] # NoRecord
    BY DEF TraceInv
  <1> QED BY <1>1, <1>2 DEF TraceInv

\* A run that goes from one place to another, and nothing else of it that matters here.
LEMMA GotoMoves ==
  ASSUME Shape, NEW r \in Runs, NEW stage \in Stages \cup Ends, Goto(r, stage)
  PROVE  /\ run' \in [Runs -> Run]
         /\ run'[r].at = stage
         /\ \A s \in Runs : run'[s].held = run[s].held
         /\ \A s \in Runs \ {r} : run'[s] = run[s]
         /\ run'[r].report = run[r].report /\ run'[r].request = run[r].request
         /\ run'[r].beside = run[r].beside
  BY DEF Goto, Shape, Run

\* The raw layer.
LEMMA StoreRawKeeps == ASSUME TraceInv, NEW r \in Runs, StoreRaw(r) PROVE TraceInv'
  <1> DEFINE record == RecordOf(r, FALSE, NoReport)
  <1>1. StoreDoes(r, "raw", record, "storingProcessed")
    BY StoreEffect DEF StoreRaw, TraceInv, Layers, Stages
  <1>2. clock' \in Nat /\ crashes' \in Nat
    BY DEF StoreRaw, Store, TraceInv, Shape
  <1>3. Progress(r) /\ run[r].at = "storingRaw"
    BY DEF TraceInv, StoreRaw, At
  <1>4. run[r].held = {} /\ lake[<<"processed", r>>] = NoRecord
        /\ lake[<<"exploitation", r>>] = NoRecord
    BY <1>3 DEF Progress, NothingYet, RawAtMost, NotServed
  <1>5. <<"exploitation", r>> \in Ids \ {<<"raw", r>>}
    BY IdsArePairs DEF Layers
  <1>6. Progress(r)'
    BY <1>1, <1>4, <1>5 DEF Progress, StoreDoes, NothingYet, RawAtMost, NotServed
  <1>7. record # NoRecord
    BY RecordsAreRecords
  <1> HIDE DEF record
  <1> QED BY <1>1, <1>2, <1>4, <1>6, <1>7, StoreKeeps DEF Layers

\* The processed layer, or an enrichment that raises.
LEMMA StoreProcessedKeeps == ASSUME TraceInv, NEW r \in Runs, StoreProcessed(r) PROVE TraceInv'
  <1> DEFINE record == RecordOf(r, "raw" \in run[r].held, NoReport)
  <1>1. CASE Store(r, "processed", record, After(r, "admitting"))
    <2>1. StoreDoes(r, "processed", record, "admitting")
      BY <1>1, StoreEffect DEF TraceInv, Layers, Stages
    <2>2. clock' \in Nat /\ crashes' \in Nat
      BY <1>1 DEF StoreProcessed, Store, TraceInv, Shape
    <2>3. Progress(r) /\ run[r].at = "storingProcessed"
      BY DEF TraceInv, StoreProcessed, At
    <2>4. run[r].held \subseteq {"raw"} /\ lake[<<"exploitation", r>>] = NoRecord
      BY <2>3 DEF Progress, NothingYet, RawAtMost, NotServed
    <2>5. <<"exploitation", r>> \in Ids \ {<<"processed", r>>}
      BY IdsArePairs DEF Layers
    <2>6. Progress(r)'
      BY <2>1, <2>4, <2>5 DEF Progress, StoreDoes, NothingYet, RawAtMost, NotServed
    <2>7. record # NoRecord /\ record.parent = ("raw" \in run[r].held)
      BY RecordsAreRecords DEF RecordOf
    <2> HIDE DEF record
    <2> QED BY <2>1, <2>2, <2>4, <2>6, <2>7, StoreKeeps DEF Layers
  <1>2. CASE Goto(r, "failed") /\ Fails /\ UNCHANGED <<stored, sync, crashes>>
    <2>1. /\ run' \in [Runs -> Run] /\ run'[r].at = "failed"
          /\ \A s \in Runs : run'[s].held = run[s].held
          /\ \A s \in Runs \ {r} : run'[s] = run[s]
      BY <1>2, GotoMoves DEF TraceInv, Ends
    <2>2. Shape' /\ UNCHANGED <<lake, manifest>>
      BY <1>2, <2>1 DEF Shape, TraceInv, stored, Fails, StoreProcessed
    <2>3. \A s \in Runs : \A before \in {NothingYet, RawAtMost, NotServed} :
            run'[s].at \in before => run[s].at \in before
      BY <2>1 DEF NothingYet, RawAtMost, NotServed
    <2> QED BY <2>1, <2>2, <2>3, MovesKeep
  <1> QED BY <1>1, <1>2 DEF StoreProcessed

\* The processed layer again, with its report.
LEMMA StoreReportKeeps == ASSUME TraceInv, NEW r \in Runs, StoreReport(r) PROVE TraceInv'
  <1> DEFINE record == RecordOf(r, "raw" \in run[r].held, run[r].report)
  <1>1. StoreDoes(r, "processed", record, "storingServed")
    BY StoreEffect DEF StoreReport, TraceInv, Layers, Stages
  <1>2. clock' \in Nat /\ crashes' \in Nat
    BY DEF StoreReport, Store, TraceInv, Shape
  <1>3. Progress(r) /\ run[r].at = "storingReport"
    BY DEF TraceInv, StoreReport, At
  <1>4. run[r].held \subseteq {"raw", "processed"} /\ lake[<<"exploitation", r>>] = NoRecord
    BY <1>3 DEF Progress, NothingYet, RawAtMost, NotServed
  <1>5. <<"exploitation", r>> \in Ids \ {<<"processed", r>>}
    BY IdsArePairs DEF Layers
  <1>6. Progress(r)'
    BY <1>1, <1>4, <1>5 DEF Progress, StoreDoes, NothingYet, RawAtMost, NotServed
  <1>7. record # NoRecord /\ record.parent = ("raw" \in run[r].held)
    BY RecordsAreRecords DEF RecordOf
  <1> HIDE DEF record
  <1> QED BY <1>1, <1>2, <1>4, <1>6, <1>7, StoreKeeps DEF Layers

\* The served layer.
LEMMA StoreServedKeeps == ASSUME TraceInv, NEW r \in Runs, StoreServed(r) PROVE TraceInv'
  <1> DEFINE plain == RecordOf(r, "processed" \in run[r].held, NoReport)
             record == [plain EXCEPT !.publishable = Publishable(run[r].report),
                                     !.produced = clock + 1]
  <1>1. StoreDoes(r, "exploitation", record, "storingGraph")
    BY StoreEffect DEF StoreServed, TraceInv, Layers, Stages
  <1>2. clock' \in Nat /\ crashes' \in Nat
    BY DEF StoreServed, Store, TraceInv, Shape
  <1>3. Progress(r)'
    BY <1>1 DEF Progress, StoreDoes, NothingYet, RawAtMost, NotServed
  <1>4. record.parent = ("processed" \in run[r].held)
    BY DEF RecordOf
  <1>5. record # NoRecord
    <2>1. "edition" \in DOMAIN record BY DEF RecordOf
    <2>2. "edition" \notin DOMAIN NoRecord BY DEF NoRecord
    <2> QED BY <2>1, <2>2
  <1> HIDE DEF record
  <1> QED BY <1>1, <1>2, <1>3, <1>4, <1>5, StoreKeeps DEF Layers

\* The steps of an analysis that write no layer.
QuietStep(r) == Begin(r) \/ Admit(r) \/ Check(r) \/ StoreGraph(r) \/ SetCache(r)

\* Each moves one analysis on, past its request.
LEMMA QuietMoves ==
  ASSUME Shape, NEW r \in Runs, QuietStep(r)
  PROVE  /\ Shape' /\ UNCHANGED <<lake, manifest>>
         /\ \A s \in Runs : run'[s].held = run[s].held
         /\ \A s \in Runs \ {r} : run'[s] = run[s]
         /\ \/ At(r, "waiting") /\ run'[r].at \in {"storingRaw", "hit", "failed"}
            \/ At(r, "admitting") /\ run'[r].at \in {"checking", "storingReport"}
            \/ At(r, "checking") /\ run'[r].at \in {"storingReport", "failed"}
            \/ run'[r].at \in {"caching", "done"}
  <1>1. run \in [Runs -> Run] /\ clock \in Nat /\ clock + 1 \in Nat /\ faults \in Nat
        /\ faults + 1 \in Nat /\ crashes \in Nat
    BY DEF Shape
  <1>2. CASE Begin(r)
    <2>1. PICK q \in Requests[r] : Begin(r)!(q)
      BY <1>2 DEF Begin
    <2>2. q \in Request
      BY AnalysesAssumption
    <2>3. PICK stage \in {"storingRaw", "hit", "failed"}, started \in BOOLEAN :
            run' = [run EXCEPT ![r].at = stage, ![r].request = q, ![r].hasRun = started]
      <3>1. run[r].hasRun \in BOOLEAN
        BY <1>1 DEF Run
      <3>2. [run EXCEPT ![r].at = "hit", ![r].request = q]
            = [run EXCEPT ![r].at = "hit", ![r].request = q, ![r].hasRun = run[r].hasRun]
        BY <1>1 DEF Run
      <3>3. [run EXCEPT ![r].at = "storingRaw", ![r].request = q]
            = [run EXCEPT ![r].at = "storingRaw", ![r].request = q, ![r].hasRun = run[r].hasRun]
        BY <1>1 DEF Run
      <3>4. [run EXCEPT ![r].at = "failed", ![r].request = q]
            = [run EXCEPT ![r].at = "failed", ![r].request = q, ![r].hasRun = run[r].hasRun]
        BY <1>1 DEF Run
      <3> QED BY <2>1, <3>1, <3>2, <3>3, <3>4
    <2>4. /\ run' \in [Runs -> Run] /\ run'[r].at = stage
          /\ run'[r].held = run[r].held /\ \A s \in Runs \ {r} : run'[s] = run[s]
      <3> DEFINE new == [run[r] EXCEPT !.at = stage, !.request = q, !.hasRun = started]
      <3>1. run[r] \in Run
        BY <1>1
      <3>2. new \in Run /\ new.at = stage /\ new.held = run[r].held
        BY <2>2, <3>1 DEF Run, Stages, Ends
      <3>3. run' = [run EXCEPT ![r] = new]
        BY <1>1, <2>3
      <3> HIDE DEF new
      <3> QED BY <1>1, <3>2, <3>3
    <2>5. Shape' /\ UNCHANGED <<lake, manifest>>
      BY <1>1, <2>1, <2>4 DEF Shape, stored, Fails
    <2> QED BY <2>1, <2>4, <2>5
  <1>3. CASE Admit(r)
    <2>1. /\ run' \in [Runs -> Run] /\ run'[r].at \in {"checking", "storingReport"}
          /\ run'[r].held = run[r].held /\ \A s \in Runs \ {r} : run'[s] = run[s]
          /\ clock' \in Nat
      <3>1. CASE run' = [run EXCEPT ![r].at = "checking", ![r].beside = Checking]
                 /\ UNCHANGED clock
        <4> DEFINE new == [run[r] EXCEPT !.at = "checking", !.beside = Checking]
        <4>1. run[r] \in Run /\ Checking \in SUBSET Runs
          BY <1>1 DEF Checking
        <4>2. new \in Run /\ new.at = "checking" /\ new.held = run[r].held
          BY <4>1 DEF Run, Stages
        <4>3. run' = [run EXCEPT ![r] = new]
          BY <1>1, <3>1
        <4> HIDE DEF new
        <4> QED BY <1>1, <3>1, <4>2, <4>3
      <3>2. CASE /\ clock' = clock + 1
                 /\ run' = [run EXCEPT ![r].at = "storingReport",
                      ![r].report = [NoReport EXCEPT !.duplicate = Duplicate(r),
                                                     !.checked = clock + 1]]
        <4>1. Duplicate(r) \in BOOLEAN
          BY DEF Duplicate
        <4>2. [NoReport EXCEPT !.duplicate = Duplicate(r), !.checked = clock + 1] \in Report
          BY <1>1, <4>1 DEF NoReport, Report
        <4> DEFINE said == [NoReport EXCEPT !.duplicate = Duplicate(r), !.checked = clock + 1]
        <4> HIDE DEF said
        <4> DEFINE new == [run[r] EXCEPT !.at = "storingReport", !.report = said]
        <4>3. new \in Run /\ new.at = "storingReport" /\ new.held = run[r].held
          <5>1. run[r] \in Run /\ said \in Report
            BY <1>1, <4>2 DEF said
          <5> QED BY <5>1 DEF Run, Stages
        <4>4. run' = [run EXCEPT ![r] = new]
          BY <1>1, <3>2 DEF said
        <4> HIDE DEF new
        <4> QED BY <1>1, <3>2, <4>3, <4>4
      <3> QED BY <1>3, <3>1, <3>2 DEF Admit
    <2>2. Shape' /\ UNCHANGED <<lake, manifest>> /\ At(r, "admitting")
      BY <1>1, <1>3, <2>1 DEF Shape, stored, Admit
    <2> QED BY <2>1, <2>2
  <1>4. CASE Check(r)
    <2>1. /\ run' \in [Runs -> Run] /\ run'[r].at \in {"storingReport", "failed"}
          /\ run'[r].held = run[r].held /\ \A s \in Runs \ {r} : run'[s] = run[s]
          /\ clock' \in Nat /\ faults' \in Nat
      <3>1. CASE \E blocking \in Verdicts(r) :
                   run' = [run EXCEPT ![r].at = "storingReport", ![r].report =
                     [passed |-> TRUE, duplicate |-> FALSE, blocking |-> blocking,
                      checked |-> clock + 1]]
        <4>1. \A blocking \in Verdicts(r) : [passed |-> TRUE, duplicate |-> FALSE,
                 blocking |-> blocking, checked |-> clock + 1] \in Report
          BY <1>1 DEF Verdicts, Report
        <4>2. clock' \in Nat /\ faults' \in Nat
          BY <1>1, <1>4 DEF Check, Remember, Fails
        <4>3. PICK said \in Report :
                run' = [run EXCEPT ![r].at = "storingReport", ![r].report = said]
          BY <3>1, <4>1
        <4> DEFINE new == [run[r] EXCEPT !.at = "storingReport", !.report = said]
        <4>4. new \in Run /\ new.at = "storingReport" /\ new.held = run[r].held
          <5>1. run[r] \in Run /\ said \in Report
            BY <1>1
          <5> QED BY <5>1 DEF Run, Stages
        <4>5. run' = [run EXCEPT ![r] = new]
          BY <1>1, <4>3
        <4> HIDE DEF new
        <4> QED BY <1>1, <4>2, <4>4, <4>5
      <3>2. CASE Goto(r, "failed") /\ Fails /\ UNCHANGED <<clock, corpus>>
        BY <1>1, <3>2, GotoMoves DEF Ends, Fails
      <3> QED BY <1>4, <3>1, <3>2 DEF Check
    <2>2. Shape' /\ UNCHANGED <<lake, manifest>> /\ At(r, "checking")
      BY <1>1, <1>4, <2>1 DEF Shape, Check
    <2> QED BY <2>1, <2>2
  <1>5. CASE StoreGraph(r)
    <2>1. Goto(r, "caching") /\ UNCHANGED <<lake, manifest, clock, crashes>> /\ faults' \in Nat
      BY <1>1, <1>5 DEF StoreGraph, Fails
    <2> QED BY <1>1, <2>1, GotoMoves DEF Shape, Stages
  <1>6. CASE SetCache(r)
    <2>1. Goto(r, "done") /\ UNCHANGED <<lake, manifest, clock, crashes>> /\ faults' \in Nat
      BY <1>1, <1>6 DEF SetCache, Fails
    <2> QED BY <1>1, <2>1, GotoMoves DEF Shape, Ends
  <1> QED BY <1>2, <1>3, <1>4, <1>5, <1>6 DEF QuietStep

\* They leave the lake traceable.
LEMMA QuietKeeps == ASSUME TraceInv, NEW r \in Runs, QuietStep(r) PROVE TraceInv'
  <1>1. Shape
    BY DEF TraceInv
  <1>2. ASSUME NEW s \in Runs, NEW before \in {NothingYet, RawAtMost, NotServed},
               run'[s].at \in before
        PROVE  run[s].at \in before
    BY <1>1, <1>2, QuietMoves DEF At, NothingYet, RawAtMost, NotServed
  <1> QED BY <1>1, <1>2, QuietMoves, MovesKeep

\* Steps of the resynchronisation and of the index touch no analysis and no record.
LEMMA BesideMoves ==
  ASSUME Shape, Syncing \/ Refresh \/ UNCHANGED readerVars
  PROVE  UNCHANGED <<run, lake, manifest, corpus, clock, crashes>>
         /\ faults' \in {faults, faults + 1}
  BY DEF Syncing, SyncStart, SyncWrite, Refresh, RefreshStart, RefreshRead, RefreshEnd, stored,
         vars, readerVars, Fails

\* A crash ends what was running, where it was.
LEMMA CrashMoves ==
  ASSUME Shape, Crash
  PROVE  /\ run' \in [Runs -> Run]
         /\ UNCHANGED <<lake, manifest, corpus, clock, faults>> /\ crashes' = crashes + 1
         /\ \A s \in Runs : /\ run'[s].held = run[s].held
                            /\ run'[s].at \in {run[s].at, "dead"}
                            /\ run'[s].report = run[s].report
                            /\ run'[s].request = run[s].request
                            /\ run'[s].beside = run[s].beside
  <1>1. /\ run' = [r \in Runs |-> IF run[r].at \in Stages \ {"waiting"}
                                  THEN [run[r] EXCEPT !.at = "dead"] ELSE run[r]]
        /\ UNCHANGED <<lake, manifest, corpus, clock, faults>> /\ crashes' = crashes + 1
    BY DEF Crash, CrashRuns, stored
  <1>2. ASSUME NEW r \in Runs
        PROVE  /\ [run[r] EXCEPT !.at = "dead"] \in Run /\ run[r] \in Run
               /\ [run[r] EXCEPT !.at = "dead"].held = run[r].held
               /\ [run[r] EXCEPT !.at = "dead"].at = "dead"
               /\ [run[r] EXCEPT !.at = "dead"].report = run[r].report
               /\ [run[r] EXCEPT !.at = "dead"].request = run[r].request
               /\ [run[r] EXCEPT !.at = "dead"].beside = run[r].beside
    <2>1. run[r] \in Run
      BY DEF Shape
    <2> QED BY <2>1 DEF Run, Ends
  <1> QED BY <1>1, <1>2

\* Every step keeps the lake traceable.
LEMMA TraceNext == TraceInv /\ [ReaderNext]_readerVars => TraceInv'
  <1> SUFFICES ASSUME TraceInv, [ReaderNext]_readerVars PROVE TraceInv'
    OBVIOUS
  <1>1. Shape
    BY DEF TraceInv
  <1>2. CASE \E r \in Runs : Advance(r)
    BY <1>2, QuietKeeps, StoreRawKeeps, StoreProcessedKeeps, StoreReportKeeps, StoreServedKeeps
    DEF Advance, QuietStep
  <1>3. CASE Syncing \/ Refresh \/ UNCHANGED readerVars
    <2>1. UNCHANGED <<run, lake, manifest, clock, crashes>> /\ faults' \in {faults, faults + 1}
      BY <1>1, <1>3, BesideMoves
    <2>2. Shape'
      BY <1>1, <2>1 DEF Shape
    <2> QED BY <2>1, <2>2, MovesKeep
  <1>4. CASE Crash
    <2>1. Shape' /\ UNCHANGED <<lake, manifest>>
      BY <1>1, <1>4, CrashMoves DEF Shape
    <2>2. \A s \in Runs : \A before \in {NothingYet, RawAtMost, NotServed} :
            run'[s].at \in before => run[s].at \in before
      BY <1>1, <1>4, CrashMoves DEF NothingYet, RawAtMost, NotServed
    <2>3. \A s \in Runs : run'[s].held = run[s].held
      BY <1>1, <1>4, CrashMoves
    <2> QED BY <2>1, <2>2, <2>3, MovesKeep
  <1> QED BY <1>2, <1>3, <1>4 DEF ReaderNext

\* Whatever fails or dies on the way, the audit log names no record that is not
\* there, no record a parent that is not there, and what calls itself persisted has
\* its three layers, each linked to the one before.
THEOREM TraceHolds == ReaderSpec => []LakeIsTraceable
  BY TraceInit, TraceNext, TraceImplies, PTL DEF ReaderSpec

-----------------------------------------------------------------------------
(* Why copies are caught: while nothing fails, an admitted article is in the     *)
(* corpus from its check on, and until then it is among those being checked.     *)

\* Where an analysis has no verdict yet.
Unjudged == {"waiting", "storingRaw", "storingProcessed", "admitting", "checking"}

Clean == faults = 0 /\ crashes = 0

\* Being checked, or admitted.
LetIn(r) == run[r].at = "checking" \/ Admitted(r)

\* Two articles that tell one story.
Copies(r, s) == r # s /\ Url(r) # Url(s) /\ StoryOf[Url(r)] = StoryOf[Url(s)]

Beside(r, s) == r \in run[s].beside \/ s \in run[r].beside

CopiesInv ==
  /\ Shape
  /\ \A r \in Runs : run[r].at \in Unjudged => ~Admitted(r)
  /\ Clean => /\ \A r \in Runs : Admitted(r) => Url(r) \in corpus
              /\ \A r, s \in Runs : Copies(r, s) /\ LetIn(r) /\ LetIn(s) => Beside(r, s)

\* What the invariant is for.
LEMMA CopiesImplies == CopiesInv => CopiesAreCaught
  BY DEF CopiesInv, CopiesAreCaught, Clean, Copies, LetIn, Beside

\* No article, no copy.
LEMMA CopiesInit == ReaderInit => CopiesInv
  <1> SUFFICES ASSUME ReaderInit PROVE CopiesInv
    OBVIOUS
  <1>1. Shape
    BY TraceInit DEF TraceInv
  <1>2. \A r \in Runs : run[r] = Waiting
    BY DEF ReaderInit, Init
  <1>3. \A r \in Runs : ~Admitted(r) /\ ~LetIn(r)
    BY <1>2 DEF Admitted, LetIn, Waiting, NoReport
  <1> QED BY <1>1, <1>3 DEF CopiesInv

\* A step in which no analysis is let in and no report changes, and which forgets no
\* article unless it fails.
LEMMA CopiesStay ==
  ASSUME CopiesInv, Shape', Clean' => Clean /\ corpus \subseteq corpus',
         \A s \in Runs : /\ run'[s].report = run[s].report
                         /\ run'[s].at \in Unjudged => run[s].at \in Unjudged
                         /\ run'[s].at = "checking" => run[s].at = "checking"
                         /\ LetIn(s) => run'[s].request = run[s].request
                         /\ run'[s].beside = run[s].beside
  PROVE  CopiesInv'
  <1>1. \A s \in Runs : (Admitted(s)' <=> Admitted(s)) /\ (LetIn(s)' => LetIn(s))
    BY DEF Admitted, LetIn
  <1>2. \A s \in Runs : LetIn(s) => Url(s)' = Url(s)
    BY DEF Url
  <1>3. \A r \in Runs : run'[r].at \in Unjudged => ~Admitted(r)'
    BY <1>1 DEF CopiesInv
  <1>4. ASSUME Clean', NEW r \in Runs, Admitted(r)' PROVE Url(r)' \in corpus'
    BY <1>1, <1>2, <1>4 DEF CopiesInv, LetIn
  <1>5. ASSUME Clean', NEW r \in Runs, NEW s \in Runs, Copies(r, s)', LetIn(r)', LetIn(s)'
        PROVE  Beside(r, s)'
    <2>1. LetIn(r) /\ LetIn(s) /\ Copies(r, s)
      BY <1>1, <1>2, <1>5 DEF Copies
    <2> QED BY <1>5, <2>1 DEF CopiesInv, Beside
  <1> QED BY <1>3, <1>4, <1>5 DEF CopiesInv

\* A write changes what is held of an analysis and where it is, and not its report.
LEMMA CopiesStore ==
  ASSUME CopiesInv, clock' \in Nat, NEW r \in Runs, NEW layer \in Layers, NEW record,
         NEW stage \in Stages \ {"checking"}, Store(r, layer, record, After(r, stage)),
         stage \in Unjudged => run[r].at \in Unjudged
  PROVE  CopiesInv'
  <1>1. Shape
    BY DEF CopiesInv
  <1>2. StoreDoes(r, layer, record, stage)
    BY <1>1, StoreEffect
  <1>3. UNCHANGED <<corpus, crashes>> /\ faults' \in {faults, faults + 1}
    BY DEF Store, Write, Fails
  <1>4. Shape'
    BY <1>1, <1>2, <1>3 DEF Shape, StoreDoes
  <1>5. Clean' => Clean /\ corpus \subseteq corpus'
    BY <1>1, <1>3 DEF Clean, Shape
  <1>6. ASSUME NEW s \in Runs
        PROVE  /\ run'[s].report = run[s].report
               /\ run'[s].at \in Unjudged => run[s].at \in Unjudged
               /\ run'[s].at = "checking" => run[s].at = "checking"
               /\ run'[s].request = run[s].request
               /\ run'[s].beside = run[s].beside
    BY <1>2 DEF StoreDoes
  <1> QED BY <1>4, <1>5, <1>6, CopiesStay

\* So does a move that only says where an analysis is.
LEMMA CopiesGoto ==
  ASSUME CopiesInv, NEW r \in Runs, NEW stage \in {"failed", "caching", "done"}, Goto(r, stage),
         UNCHANGED <<lake, manifest, corpus, clock, crashes>>, faults' \in {faults, faults + 1}
  PROVE  CopiesInv'
  <1>1. Shape
    BY DEF CopiesInv
  <1>2. /\ run' \in [Runs -> Run] /\ run'[r].at = stage
        /\ run'[r].report = run[r].report /\ run'[r].request = run[r].request
        /\ run'[r].beside = run[r].beside /\ \A s \in Runs \ {r} : run'[s] = run[s]
    BY <1>1, GotoMoves DEF Stages, Ends
  <1>3. Shape'
    BY <1>1, <1>2 DEF Shape
  <1>4. Clean' => Clean /\ corpus \subseteq corpus'
    BY <1>1 DEF Clean, Shape
  <1>5. ASSUME NEW s \in Runs
        PROVE  /\ run'[s].report = run[s].report
               /\ run'[s].at \in Unjudged => run[s].at \in Unjudged
               /\ run'[s].at = "checking" => run[s].at = "checking"
               /\ run'[s].request = run[s].request
               /\ run'[s].beside = run[s].beside
    BY <1>2 DEF Unjudged
  <1> QED BY <1>3, <1>4, <1>5, CopiesStay

\* The start of an analysis, or its answer from the cache.
LEMMA CopiesBegin == ASSUME CopiesInv, NEW r \in Runs, Begin(r) PROVE CopiesInv'
  <1>1. Shape /\ Shape' /\ \A s \in Runs \ {r} : run'[s] = run[s]
    BY QuietMoves DEF CopiesInv, QuietStep
  <1>2. run[r].at = "waiting" /\ ~LetIn(r)
    BY DEF Begin, At, CopiesInv, LetIn, Unjudged
  <1>3. UNCHANGED <<corpus, crashes>> /\ faults' \in {faults, faults + 1}
    BY DEF Begin, stored, Fails
  <1>4. Clean' => Clean /\ corpus \subseteq corpus'
    BY <1>1, <1>3 DEF Clean, Shape
  <1>5. /\ run'[r].report = run[r].report /\ run'[r].beside = run[r].beside
        /\ run'[r].at # "checking"
    <2>1. run \in [Runs -> Run]
      BY <1>1 DEF Shape
    <2> QED BY <2>1 DEF Begin, Run
  <1>6. ASSUME NEW s \in Runs
        PROVE  /\ run'[s].report = run[s].report
               /\ run'[s].at \in Unjudged => run[s].at \in Unjudged
               /\ run'[s].at = "checking" => run[s].at = "checking"
               /\ LetIn(s) => run'[s].request = run[s].request
               /\ run'[s].beside = run[s].beside
    BY <1>1, <1>2, <1>5 DEF Unjudged
  <1> QED BY <1>1, <1>4, <1>6, CopiesStay

\* An article is let in when the corpus has no copy of it: a copy let in before has no
\* place in the corpus yet, so that it is being checked.
LEMMA CopiesAdmit == ASSUME CopiesInv, NEW r \in Runs, Admit(r) PROVE CopiesInv'
  <1>1. Shape /\ Shape' /\ \A s \in Runs \ {r} : run'[s] = run[s]
    BY QuietMoves DEF CopiesInv, QuietStep
  <1>2. run[r].at = "admitting" /\ ~Admitted(r) /\ run \in [Runs -> Run]
    BY <1>1 DEF Admit, At, CopiesInv, Unjudged, Shape
  <1>3. UNCHANGED <<corpus, faults, crashes>>
    BY DEF Admit, stored
  <1>4. CASE /\ ~Duplicate(r)
             /\ run' = [run EXCEPT ![r].at = "checking", ![r].beside = Checking]
    <2>1. /\ run'[r].at = "checking" /\ run'[r].beside = Checking
          /\ run'[r].request = run[r].request /\ run'[r].report = run[r].report
      BY <1>2, <1>4 DEF Run
    <2>2. \A s \in Runs : (Admitted(s)' <=> Admitted(s)) /\ Url(s)' = Url(s)
      BY <1>1, <2>1 DEF Admitted, Url
    <2>3. \A s \in Runs : run'[s].at \in Unjudged => ~Admitted(s)'
      BY <1>1, <1>2, <2>2 DEF CopiesInv
    <2>4. ASSUME Clean', NEW s \in Runs, Admitted(s)' PROVE Url(s)' \in corpus'
      BY <1>3, <2>2, <2>4 DEF CopiesInv, Clean
    <2>5. ASSUME Clean', NEW s \in Runs, Copies(r, s) \/ Copies(s, r), LetIn(s)
          PROVE  s \in Checking
      <3>1. CASE run[s].at = "checking"
        BY <3>1 DEF Checking
      <3>2. CASE Admitted(s)
        <4>1. Url(s) \in corpus
          BY <1>3, <2>5, <3>2 DEF CopiesInv, Clean
        <4> QED BY <1>4, <2>5, <4>1 DEF Duplicate, Copies
      <3> QED BY <2>5, <3>1, <3>2 DEF LetIn
    <2>6. ASSUME Clean', NEW s \in Runs, NEW t \in Runs, Copies(s, t)', LetIn(s)', LetIn(t)'
          PROVE  Beside(s, t)'
      <3>1. Copies(s, t) /\ s # t
        BY <2>2, <2>6 DEF Copies
      <3>2. CASE s = r
        <4>1. LetIn(t)
          BY <1>1, <2>6, <3>1, <3>2 DEF LetIn, Admitted
        <4> QED BY <2>1, <2>5, <2>6, <3>1, <3>2, <4>1 DEF Beside
      <3>3. CASE t = r
        <4>1. LetIn(s)
          BY <1>1, <2>6, <3>1, <3>3 DEF LetIn, Admitted
        <4> QED BY <2>1, <2>5, <2>6, <3>1, <3>3, <4>1 DEF Beside
      <3>4. CASE s # r /\ t # r
        BY <1>1, <1>3, <2>6, <3>1, <3>4 DEF CopiesInv, Clean, LetIn, Admitted, Beside
      <3> QED BY <3>2, <3>3, <3>4
    <2> QED BY <1>1, <2>3, <2>4, <2>6 DEF CopiesInv
  <1>5. CASE /\ clock' = clock + 1
             /\ run' = [run EXCEPT ![r].at = "storingReport",
                  ![r].report = [NoReport EXCEPT !.duplicate = Duplicate(r),
                                                 !.checked = clock + 1]]
    <2>1. /\ run'[r].at = "storingReport" /\ run'[r].report.passed = FALSE
      BY <1>2, <1>5 DEF Run, NoReport
    <2>2. ~LetIn(r)' /\ ~Admitted(r)'
      BY <2>1 DEF LetIn, Admitted
    <2>3. \A s \in Runs \ {r} : /\ LetIn(s)' <=> LetIn(s)
                                /\ Admitted(s)' <=> Admitted(s)
                                /\ Url(s)' = Url(s)
      BY <1>1 DEF LetIn, Admitted, Url
    <2>4. \A s \in Runs : run'[s].at \in Unjudged => ~Admitted(s)'
      BY <1>1, <2>2, <2>3 DEF CopiesInv
    <2>5. ASSUME Clean', NEW s \in Runs, Admitted(s)' PROVE Url(s)' \in corpus'
      BY <1>3, <2>2, <2>3, <2>5 DEF CopiesInv, Clean
    <2>6. ASSUME Clean', NEW s \in Runs, NEW t \in Runs, Copies(s, t)', LetIn(s)', LetIn(t)'
          PROVE  Beside(s, t)'
      <3>1. s # r /\ t # r /\ Copies(s, t)
        BY <2>2, <2>3, <2>6 DEF Copies
      <3> QED BY <1>1, <1>3, <2>3, <2>6, <3>1 DEF CopiesInv, Clean, Beside
    <2> QED BY <1>1, <2>4, <2>5, <2>6 DEF CopiesInv
  <1> QED BY <1>4, <1>5 DEF Admit

\* The end of a check puts the article in the corpus, unless that fails.
LEMMA CopiesCheck == ASSUME CopiesInv, NEW r \in Runs, Check(r) PROVE CopiesInv'
  <1>1. Shape /\ Shape' /\ (\A s \in Runs \ {r} : run'[s] = run[s]) /\ UNCHANGED <<lake, manifest>>
    BY QuietMoves DEF CopiesInv, QuietStep
  <1>2. run[r].at = "checking" /\ LetIn(r) /\ run \in [Runs -> Run]
    BY <1>1 DEF Check, At, LetIn, Shape
  <1>3. UNCHANGED crashes /\ faults' \in {faults, faults + 1}
    BY DEF Check, Remember, Fails
  <1>4. CASE (\E blocking \in Verdicts(r) :
                run' = [run EXCEPT ![r].at = "storingReport", ![r].report =
                  [passed |-> TRUE, duplicate |-> FALSE, blocking |-> blocking,
                   checked |-> clock + 1]])
             /\ Remember(r)
    <2>1. /\ run'[r].at = "storingReport" /\ run'[r].request = run[r].request
          /\ run'[r].beside = run[r].beside
      BY <1>2, <1>4 DEF Run
    <2>2. Clean' => Clean /\ corpus' = corpus \cup {Url(r)}
      BY <1>1, <1>3, <1>4 DEF Clean, Shape, Remember, Fails
    <2>3. \A s \in Runs : /\ LetIn(s)' => LetIn(s)
                          /\ Url(s)' = Url(s)
                          /\ run'[s].beside = run[s].beside
      BY <1>1, <1>2, <2>1 DEF LetIn, Admitted, Url
    <2>4. \A s \in Runs : run'[s].at \in Unjudged => ~Admitted(s)'
      BY <1>1, <2>1 DEF CopiesInv, Unjudged, Admitted
    <2>5. ASSUME Clean', NEW s \in Runs, Admitted(s)' PROVE Url(s)' \in corpus'
      <3>1. CASE s = r
        BY <2>2, <2>3, <2>5, <3>1
      <3>2. CASE s # r
        BY <1>1, <2>2, <2>3, <2>5, <3>2 DEF CopiesInv, Admitted
      <3> QED BY <3>1, <3>2
    <2>6. ASSUME Clean', NEW s \in Runs, NEW t \in Runs, Copies(s, t)', LetIn(s)', LetIn(t)'
          PROVE  Beside(s, t)'
      <3>1. Copies(s, t) /\ LetIn(s) /\ LetIn(t)
        BY <2>3, <2>6 DEF Copies
      <3> QED BY <2>2, <2>3, <2>6, <3>1 DEF CopiesInv, Beside
    <2> QED BY <1>1, <2>4, <2>5, <2>6 DEF CopiesInv
  <1>5. CASE Goto(r, "failed") /\ Fails /\ UNCHANGED <<clock, corpus>>
    BY <1>1, <1>3, <1>5, CopiesGoto
  <1> QED BY <1>4, <1>5 DEF Check

\* Every step keeps it.
LEMMA CopiesNext == CopiesInv /\ [ReaderNext]_readerVars => CopiesInv'
  <1> SUFFICES ASSUME CopiesInv, [ReaderNext]_readerVars PROVE CopiesInv'
    OBVIOUS
  <1>1. Shape
    BY DEF CopiesInv
  <1>2. ASSUME NEW r \in Runs, StoreRaw(r) PROVE CopiesInv'
    BY <1>1, <1>2, CopiesStore DEF StoreRaw, At, Layers, Stages, Unjudged, Shape
  <1>3. ASSUME NEW r \in Runs, StoreProcessed(r) PROVE CopiesInv'
    <2>1. CASE Store(r, "processed", RecordOf(r, "raw" \in run[r].held, NoReport),
                     After(r, "admitting"))
      BY <1>1, <1>3, <2>1, CopiesStore DEF StoreProcessed, At, Layers, Stages, Unjudged, Shape
    <2>2. CASE Goto(r, "failed") /\ Fails /\ UNCHANGED <<stored, sync, crashes>>
      BY <1>3, <2>2, CopiesGoto DEF StoreProcessed, stored, Fails
    <2> QED BY <1>3, <2>1, <2>2 DEF StoreProcessed
  <1>4. ASSUME NEW r \in Runs, StoreReport(r) PROVE CopiesInv'
    BY <1>1, <1>4, CopiesStore DEF StoreReport, At, Layers, Stages, Unjudged, Shape
  <1>5. ASSUME NEW r \in Runs, StoreServed(r) PROVE CopiesInv'
    <2>1. clock' \in Nat
      BY <1>1, <1>5 DEF StoreServed, Shape
    <2> QED BY <1>5, <2>1, CopiesStore DEF StoreServed, Layers, Stages, Unjudged
  <1>6. ASSUME NEW r \in Runs, StoreGraph(r) PROVE CopiesInv'
    BY <1>6, CopiesGoto DEF StoreGraph, Fails
  <1>7. ASSUME NEW r \in Runs, SetCache(r) PROVE CopiesInv'
    BY <1>7, CopiesGoto DEF SetCache, Fails
  <1>8. CASE Syncing \/ Refresh \/ UNCHANGED readerVars
    <2>1. UNCHANGED <<run, lake, manifest, corpus, clock, crashes>>
          /\ faults' \in {faults, faults + 1}
      BY <1>1, <1>8, BesideMoves
    <2>2. Shape' /\ (Clean' => Clean)
      BY <1>1, <2>1 DEF Shape, Clean
    <2> QED BY <2>1, <2>2, CopiesStay
  <1>9. CASE Crash
    <2>1. Shape' /\ ~Clean'
      BY <1>1, <1>9, CrashMoves DEF Shape, Clean
    <2>2. \A s \in Runs : /\ run'[s].report = run[s].report
                          /\ run'[s].at \in Unjudged => run[s].at \in Unjudged
                          /\ run'[s].at = "checking" => run[s].at = "checking"
                          /\ run'[s].request = run[s].request
                          /\ run'[s].beside = run[s].beside
      BY <1>1, <1>9, CrashMoves DEF Unjudged
    <2> QED BY <2>1, <2>2, CopiesStay
  <1>10. CASE \E r \in Runs : Advance(r)
    BY <1>2, <1>3, <1>4, <1>5, <1>6, <1>7, <1>10, CopiesBegin, CopiesAdmit, CopiesCheck
    DEF Advance
  <1> QED BY <1>8, <1>9, <1>10 DEF ReaderNext

\* As long as nothing fails and nothing dies, two articles with one story are both let
\* in only when each was being checked as the other was admitted.
THEOREM CopiesHold == ReaderSpec => []CopiesAreCaught
  BY CopiesInit, CopiesNext, CopiesImplies, PTL DEF ReaderSpec

-----------------------------------------------------------------------------
(* Why the feed follows the lake: a served record is written once, stamped with a *)
(* moment of its own, and a refresh drops none of a listing but those it could    *)
(* not read.                                                                      *)

\* Every served record has a moment of its own, and each article has a newest one.
ServedInv ==
  /\ \A r \in Listing : Served(r).produced \in Nat /\ Served(r).produced <= clock
  /\ \A r, s \in Listing : Served(r).produced = Served(s).produced => r = s
  /\ \A r \in Listing : \E s \in Listing :
       /\ Served(s).url = Served(r).url
       /\ \A q \in Listing : Served(q).url = Served(r).url => Served(q).produced <= Served(s).produced

\* What the index has read is in the lake, and what it has gone through without
\* reading is missed.
IndexInv ==
  /\ index \in Index /\ index.seen \subseteq Listing
  /\ index.listing \subseteq Listing /\ index.todo \subseteq index.listing
  /\ index.busy => index.listing \ index.seen \subseteq index.todo \cup index.missed
  /\ ~index.busy => index.todo = {} /\ index.stamps \ index.seen \subseteq index.missed

\* A run writes its served record after every other layer, which is why none is there
\* before (TraceInv).
FeedInv == TraceInv /\ ServedInv /\ IndexInv

\* What the invariant is for.
LEMMA FeedImplies == FeedInv => FeedFollowsLake
  <1> SUFFICES ASSUME FeedInv, ~index.busy, index.known, index.stamps = Listing, index.missed = {},
                      NEW u \in Urls, {r \in Listing : Served(r).url = u} # {}
               PROVE  LET of == {r \in Listing : Served(r).url = u}
                          last == CHOOSE r \in of : \A s \in of : Served(s).produced <= Served(r).produced
                      IN {r \in Feed : Served(r).url = u} = {r \in {last} : Served(r).publishable}
    BY DEF FeedFollowsLake
  <1> DEFINE of == {r \in Listing : Served(r).url = u}
             last == CHOOSE r \in of : \A s \in of : Served(s).produced <= Served(r).produced
  <1>1. index.seen = Listing
    BY DEF FeedInv, IndexInv
  <1>2. last \in of /\ \A s \in of : Served(s).produced <= Served(last).produced
    <2>1. \E r \in of : \A s \in of : Served(s).produced <= Served(r).produced
      BY DEF FeedInv, ServedInv
    <2> QED BY <2>1
  <1> HIDE DEF last
  <1>3. ASSUME NEW r \in of, \A s \in of : Served(s).produced <= Served(r).produced
        PROVE  r = last
    <2>1. Served(r).produced <= Served(last).produced /\ Served(last).produced <= Served(r).produced
      BY <1>2, <1>3
    <2>2. Served(r).produced \in Nat /\ Served(last).produced \in Nat /\ r \in Listing /\ last \in Listing
      BY <1>2 DEF FeedInv, ServedInv
    <2>3. Served(r).produced = Served(last).produced
      BY <2>1, <2>2
    <2> QED BY <2>2, <2>3 DEF FeedInv, ServedInv
  <1>4. \A r : r \in Feed /\ Served(r).url = u <=> r = last /\ Served(r).publishable
    BY <1>1, <1>2, <1>3 DEF Feed, Latest
  <1>5. {r \in Feed : Served(r).url = u} = {r \in {last} : Served(r).publishable}
    BY <1>4
  <1> QED BY <1>5 DEF last

\* An empty lake, and an empty index.
LEMMA FeedInit == ReaderInit => FeedInv
  <1> SUFFICES ASSUME ReaderInit PROVE FeedInv
    OBVIOUS
  <1>1. Listing = {}
    <2>1. \A r \in Runs : <<"exploitation", r>> \in Ids
      BY IdsArePairs DEF Layers
    <2> QED BY <2>1 DEF ReaderInit, Init, Listing, Served
  <1>2. ServedInv
    BY <1>1 DEF ServedInv
  <1>3. IndexInv
    BY <1>1 DEF ReaderInit, IndexInv, Index, NoIndex
  <1> QED BY <1>2, <1>3, TraceInit DEF FeedInv

\* What is served, unless a run serves its record.
LEMMA ServedStays ==
  ASSUME TraceInv, [ReaderNext]_readerVars, ~(\E r \in Runs : StoreServed(r))
  PROVE  /\ \A r \in Runs : Served(r)' = Served(r)
         /\ clock' \in Nat /\ clock <= clock'
  <1>0. Shape
    BY DEF TraceInv
  <1>1. CASE Syncing \/ Refresh \/ UNCHANGED readerVars
    BY <1>0, <1>1, BesideMoves DEF Served, Shape
  <1>2. CASE Crash
    BY <1>0, <1>2, CrashMoves DEF Served, Shape
  <1>3. CASE \E r \in Runs : QuietStep(r)
    <2>1. PICK r \in Runs : QuietStep(r)
      BY <1>3
    <2>2. UNCHANGED lake
      BY <1>0, <2>1, QuietMoves
    <2>3. clock' \in {clock, clock + 1}
      BY <2>1 DEF QuietStep, Begin, Admit, Check, StoreGraph, SetCache
    <2> QED BY <1>0, <2>2, <2>3 DEF Served, Shape
  <1>4. CASE \E r \in Runs : StoreRaw(r) \/ StoreProcessed(r) \/ StoreReport(r)
    <2>1. PICK r \in Runs : StoreRaw(r) \/ StoreProcessed(r) \/ StoreReport(r)
      BY <1>4
    <2>2. UNCHANGED clock
      BY <2>1 DEF StoreRaw, StoreProcessed, StoreReport
    <2>3. UNCHANGED lake \/ \E layer \in {"raw", "processed"}, stage \in Stages : \E record :
            Store(r, layer, record, After(r, stage))
      BY <2>1 DEF StoreRaw, StoreProcessed, StoreReport, Stages, stored
    <2>4. CASE UNCHANGED lake
      BY <1>0, <2>2, <2>4 DEF Served, Shape
    <2>5. CASE \E layer \in {"raw", "processed"}, stage \in Stages : \E record :
            Store(r, layer, record, After(r, stage))
      <3>1. PICK layer \in {"raw", "processed"}, stage \in Stages : \E record :
              Store(r, layer, record, After(r, stage))
        BY <2>5
      <3>2. PICK record : Store(r, layer, record, After(r, stage))
        BY <3>1
      <3>3. layer \in Layers /\ layer # "exploitation"
        BY DEF Layers
      <3>4. \A id \in Ids \ {<<layer, r>>} : lake'[id] = lake[id]
        BY <1>0, <3>2, <3>3, StoreEffect DEF StoreDoes
      <3>5. \A s \in Runs : <<"exploitation", s>> \in Ids \ {<<layer, r>>}
        BY <3>3, IdsArePairs DEF Layers
      <3> QED BY <1>0, <2>2, <3>4, <3>5 DEF Served, Shape
    <2> QED BY <2>3, <2>4, <2>5
  <1> QED BY <1>1, <1>2, <1>3, <1>4 DEF ReaderNext, Advance, QuietStep

\* A run that serves its record stamps it later than every other; it may write none.
LEMMA ServedOnce ==
  ASSUME TraceInv, NEW r \in Runs, StoreServed(r)
  PROVE  /\ clock \in Nat /\ clock' = clock + 1 /\ Served(r) = NoRecord
         /\ \A s \in Runs \ {r} : Served(s)' = Served(s)
         /\ \/ Served(r)' = NoRecord
            \/ Served(r)' # NoRecord /\ Served(r)'.produced = clock + 1
  <1> DEFINE plain == RecordOf(r, "processed" \in run[r].held, NoReport)
             record == [plain EXCEPT !.publishable = Publishable(run[r].report),
                                     !.produced = clock + 1]
  <1>1. StoreDoes(r, "exploitation", record, "storingGraph")
    BY StoreEffect DEF StoreServed, TraceInv, Layers, Stages
  <1>2. clock \in Nat /\ clock' = clock + 1
    BY DEF StoreServed, TraceInv, Shape
  <1>3. Served(r) = NoRecord
    BY DEF StoreServed, At, TraceInv, Progress, NotServed, Served
  <1>4. \A s \in Runs \ {r} : <<"exploitation", s>> \in Ids \ {<<"exploitation", r>>}
    BY IdsArePairs DEF Layers
  <1>5. \A s \in Runs \ {r} : Served(s)' = Served(s)
    BY <1>1, <1>4 DEF StoreDoes, Served
  <1>6. record # NoRecord /\ record.produced = clock + 1
    <2>1. "edition" \in DOMAIN record /\ record.produced = clock + 1 BY DEF RecordOf
    <2>2. "edition" \notin DOMAIN NoRecord BY DEF NoRecord
    <2> QED BY <2>1, <2>2
  <1>7. Served(r)' \in {Served(r), record}
    BY <1>1 DEF StoreDoes, Served
  <1> HIDE DEF record
  <1> QED BY <1>2, <1>3, <1>5, <1>6, <1>7

\* What is served keeps its moments, and what the index read stays in the lake.
LEMMA ListingGrows ==
  ASSUME TraceInv, [ReaderNext]_readerVars
  PROVE  Listing \subseteq Listing' /\ \A r \in Listing : Served(r)' = Served(r)
  <1>1. CASE \E r \in Runs : StoreServed(r)
    <2>1. PICK r \in Runs : StoreServed(r)
      BY <1>1
    <2>2. Served(r) = NoRecord /\ \A s \in Runs \ {r} : Served(s)' = Served(s)
      BY <2>1, ServedOnce
    <2> QED BY <2>2 DEF Listing
  <1>2. CASE ~(\E r \in Runs : StoreServed(r))
    BY <1>2, ServedStays DEF Listing
  <1> QED BY <1>1, <1>2

\* Every step keeps the moments.
LEMMA ServedKeeps ==
  ASSUME TraceInv, ServedInv, [ReaderNext]_readerVars
  PROVE  ServedInv'
  <1>1. CASE ~(\E r \in Runs : StoreServed(r))
    <2>1. /\ \A r \in Runs : Served(r)' = Served(r)
          /\ clock' \in Nat /\ clock <= clock' /\ clock \in Nat
      BY <1>1, ServedStays DEF TraceInv, Shape
    <2>2. Listing' = Listing /\ Listing \subseteq Runs
      BY <2>1 DEF Listing
    <2>3. \A r \in Listing' : Served(r)'.produced \in Nat /\ Served(r)'.produced <= clock'
      BY <2>1, <2>2 DEF ServedInv
    <2>4. \A r, s \in Listing' : Served(r)'.produced = Served(s)'.produced => r = s
      BY <2>1, <2>2 DEF ServedInv
    <2>5. \A r \in Listing' : \E s \in Listing' :
            /\ Served(s)'.url = Served(r)'.url
            /\ \A q \in Listing' : Served(q)'.url = Served(r)'.url
                                   => Served(q)'.produced <= Served(s)'.produced
      BY <2>1, <2>2 DEF ServedInv
    <2> QED BY <2>3, <2>4, <2>5 DEF ServedInv
  <1>2. CASE \E r \in Runs : StoreServed(r)
    <2>0. PICK n \in Runs : StoreServed(n)
      BY <1>2
    <2>1. /\ clock \in Nat /\ clock' = clock + 1 /\ Served(n) = NoRecord
          /\ \A s \in Runs \ {n} : Served(s)' = Served(s)
          /\ \/ Served(n)' = NoRecord
             \/ Served(n)' # NoRecord /\ Served(n)'.produced = clock + 1
      BY <2>0, ServedOnce
    <2>2. /\ n \notin Listing /\ Listing \subseteq Runs /\ Listing \subseteq Listing'
          /\ Listing' \subseteq Listing \cup {n}
          /\ \A s \in Listing : Served(s)' = Served(s)
          /\ n \in Listing' => Served(n)'.produced = clock + 1
      BY <2>1 DEF Listing
    <2>3. \A r \in Listing : Served(r)'.produced \in Nat /\ Served(r)'.produced <= clock
      BY <2>2 DEF ServedInv
    <2>4. \A r \in Listing' : Served(r)'.produced \in Nat /\ Served(r)'.produced <= clock'
      BY <2>1, <2>2, <2>3
    <2>5. ASSUME NEW r \in Listing', NEW s \in Listing', Served(r)'.produced = Served(s)'.produced
          PROVE  r = s
      <3>1. CASE r \in Listing /\ s \in Listing
        BY <2>2, <2>5, <3>1 DEF ServedInv
      <3>2. CASE r = n /\ s = n
        BY <3>2
      <3>3. CASE r = n /\ s \in Listing
        BY <2>1, <2>2, <2>3, <2>5, <3>3
      <3>4. CASE r \in Listing /\ s = n
        BY <2>1, <2>2, <2>3, <2>5, <3>4
      <3> QED BY <2>2, <3>1, <3>2, <3>3, <3>4
    <2>6. ASSUME NEW r \in Listing'
          PROVE  \E s \in Listing' :
                   /\ Served(s)'.url = Served(r)'.url
                   /\ \A q \in Listing' : Served(q)'.url = Served(r)'.url
                                          => Served(q)'.produced <= Served(s)'.produced
      <3>1. CASE n \in Listing' /\ Served(n)'.url = Served(r)'.url
        <4>1. \A q \in Listing' : Served(q)'.produced <= Served(n)'.produced
          BY <2>1, <2>2, <2>4, <3>1
        <4> QED BY <3>1, <4>1
      <3>2. CASE ~(n \in Listing' /\ Served(n)'.url = Served(r)'.url)
        <4>1. r \in Listing
          BY <2>2, <3>2
        <4>2. PICK s \in Listing :
                /\ Served(s).url = Served(r).url
                /\ \A q \in Listing : Served(q).url = Served(r).url => Served(q).produced <= Served(s).produced
          BY <4>1 DEF ServedInv
        <4>3. \A q \in Listing' : Served(q)'.url = Served(r)'.url => q \in Listing
          BY <2>2, <3>2
        <4> QED BY <2>2, <4>1, <4>2, <4>3
      <3> QED BY <3>1, <3>2
    <2> QED BY <2>4, <2>5, <2>6 DEF ServedInv
  <1> QED BY <1>1, <1>2

\* Every step keeps what the index is.
LEMMA IndexKeeps ==
  ASSUME TraceInv, IndexInv, [ReaderNext]_readerVars
  PROVE  IndexInv'
  <1>1. Listing \subseteq Listing' /\ Listing \subseteq Runs
    BY ListingGrows DEF Listing
  <1>2. CASE UNCHANGED index
    BY <1>1, <1>2 DEF IndexInv
  <1>3. CASE Crash
    BY <1>3 DEF Crash, IndexInv, Index, NoIndex
  <1>4. CASE RefreshStart
    <2>1. index' = [index EXCEPT !.busy = TRUE, !.listing = Listing, !.todo = Listing \ index.seen]
          /\ ~index.busy
      BY <1>4 DEF RefreshStart
    <2>2. index' \in Index /\ index'.busy /\ index'.listing = Listing
          /\ index'.todo = Listing \ index.seen /\ index'.seen = index.seen
      BY <1>1, <2>1 DEF IndexInv, Index
    <2> QED BY <1>1, <2>2 DEF IndexInv
  <1>5. CASE \E r \in Runs : RefreshRead(r)
    <2>1. PICK r \in Runs :
            /\ r \in index.todo
            /\ \/ index' = [index EXCEPT !.todo = @ \ {r}, !.seen = @ \cup {r}, !.missed = @ \ {r}]
               \/ index' = [index EXCEPT !.todo = @ \ {r}, !.missed = @ \cup {r}]
      BY <1>5 DEF RefreshRead
    <2>2. index.busy /\ r \in Listing
      BY <2>1 DEF IndexInv
    <2>3. CASE index' = [index EXCEPT !.todo = @ \ {r}, !.seen = @ \cup {r}, !.missed = @ \ {r}]
      <3>1. /\ index' \in Index /\ index'.busy /\ index'.listing = index.listing
            /\ index'.todo = index.todo \ {r} /\ index'.seen = index.seen \cup {r}
            /\ index'.missed = index.missed \ {r}
        BY <2>2, <2>3 DEF IndexInv, Index
      <3> QED BY <1>1, <2>1, <2>2, <3>1 DEF IndexInv
    <2>4. CASE index' = [index EXCEPT !.todo = @ \ {r}, !.missed = @ \cup {r}]
      <3>1. /\ index' \in Index /\ index'.busy /\ index'.listing = index.listing
            /\ index'.todo = index.todo \ {r} /\ index'.seen = index.seen
            /\ index'.missed = index.missed \cup {r}
        BY <2>2, <2>4 DEF IndexInv, Index
      <3> QED BY <1>1, <2>1, <2>2, <3>1 DEF IndexInv
    <2> QED BY <2>1, <2>3, <2>4
  <1>6. CASE RefreshEnd
    <2>1. /\ index.busy /\ index.todo = {}
          /\ index' = [index EXCEPT !.busy = FALSE, !.known = TRUE, !.stamps = index.listing,
                                    !.listing = {}, !.seen = @ \cap index.listing]
      BY <1>6 DEF RefreshEnd
    <2>2. /\ index' \in Index /\ ~index'.busy /\ index'.stamps = index.listing
          /\ index'.listing = {} /\ index'.seen = index.seen \cap index.listing
          /\ index'.todo = {} /\ index'.missed = index.missed
      BY <2>1 DEF IndexInv, Index
    <2> QED BY <1>1, <2>1, <2>2 DEF IndexInv
  <1>7. CASE UNCHANGED readerVars
    BY <1>2, <1>7 DEF readerVars
  <1> QED BY <1>2, <1>3, <1>4, <1>5, <1>6, <1>7 DEF ReaderNext, Refresh

\* Every step keeps it.
LEMMA FeedNext == FeedInv /\ [ReaderNext]_readerVars => FeedInv'
  BY TraceNext, ServedKeeps, IndexKeeps DEF FeedInv

\* An index in step with the lake shows of each article the newest run, and only when
\* that one is to be published: whatever the analyses wrote while it was refreshed.
THEOREM FeedHolds == ReaderSpec => []FeedFollowsLake
  BY FeedInit, FeedNext, FeedImplies, PTL DEF ReaderSpec

-----------------------------------------------------------------------------
(* A claim is judged on sources that stand for themselves. *)

Fields == {"at", "looks", "planning", "time", "found", "left", "searchDown", "ranked",
           "attempt", "waits", "refused", "answers", "check"}

\* Sources that are not the article, and of an outlet on the web one page.
Apart(items) ==
  /\ \A i \in items : i.page # Own
  /\ \A i, j \in items : i.origin = "web" /\ j.origin = "web" /\ Outlet[i.page] = Outlet[j.page]
                         => i.page = j.page

\* What VerdictsAreGrounded says of one check.
IsGrounded(check) ==
  check.verdict \in Definitive =>
    LET cited == {check.stances[i] : i \in {j \in DOMAIN check.evidence : OnEvidence(check, j)}}
    IN /\ ~check.llmDown /\ check.usable
       /\ Len(check.evidence) >= opt.floor /\ cited # {}
       /\ HoldsToStances /\ check.verdict = "FALSE" => "contradicts" \in cited
       /\ HoldsToStances /\ check.verdict \in {"TRUE", "PARTIALLY_TRUE"} => "supports" \in cited

\* Sources in an order, as they are ranked and judged.
Sources(s) == s \in Seq(Item) /\ Apart(ToSet(s))

Asking == {"asking", "waiting", "calling"}

\* A claim's thread: what it found, ranked and was judged on is apart, and while a source
\* is asked about there is one that has not answered.
Sound(t) ==
  /\ DOMAIN t = Fields
  /\ t.found \subseteq Item /\ Apart(t.found)
  /\ Sources(t.ranked)
  /\ t.answers \in Seq(Stances \cup {"down"})
  /\ t.at \in Asking /\ Alone(t) => Len(t.answers) < Len(t.ranked)
  /\ t.at = "done" => Sources(t.check.evidence) /\ IsGrounded(t.check)

ClaimsInv ==
  /\ opt \in Options
  /\ DOMAIN claims \subseteq 1..Cardinality(Statements)
  /\ \A c \in DOMAIN claims : Sound(claims[c])

\* What the invariant is for.
LEMMA ClaimsImply == ClaimsInv => VerdictsAreGrounded /\ CorroborationIsIndependent
  <1> SUFFICES ASSUME ClaimsInv, NEW c \in DOMAIN claims, claims[c].at = "done"
               PROVE  LET check == claims[c].check
                      IN  /\ IsGrounded(check)
                          /\ \A i \in DOMAIN check.evidence : check.evidence[i].page # Own
                          /\ \A p, q \in WebPages(check) : Outlet[p] = Outlet[q] => p = q
    BY DEF VerdictsAreGrounded, CorroborationIsIndependent, Checks, IsGrounded
  <1> DEFINE check == claims[c].check
  <1>1. IsGrounded(check) /\ Apart(ToSet(check.evidence))
    BY DEF ClaimsInv, Sound, Sources
  <1> HIDE DEF check
  <1>2. \A i \in DOMAIN check.evidence : check.evidence[i].page # Own
    BY <1>1 DEF Apart, ToSet
  <1>3. \A p, q \in WebPages(check) : Outlet[p] = Outlet[q] => p = q
    BY <1>1 DEF Apart, WebPages
  <1> QED BY <1>1, <1>2, <1>3 DEF check

\* Nothing is kept of no source.
LEMMA NoSources == Sources(<< >>) /\ Apart({})
  <1>1. << >> \in Seq(Item) /\ ToSet(<< >>) = {}
    BY DEF ToSet
  <1> QED BY <1>1 DEF Sources, Apart

\* A claim at its start.
LEMMA NewIsSound ==
  /\ Sound(NewClaim) /\ DOMAIN NewClaim = Fields /\ NewClaim.found = {}
  /\ NewClaim.ranked = << >> /\ NewClaim.answers = << >> /\ NewClaim.at = "queued"
  <1>1. << >> \in Seq(Stances \cup {"down"})
    OBVIOUS
  <1>2. /\ DOMAIN NewClaim = Fields /\ NewClaim.found = {} /\ NewClaim.ranked = << >>
        /\ NewClaim.answers = << >> /\ NewClaim.at = "queued"
    BY DEF NewClaim, Fields
  <1> QED BY <1>1, <1>2, NoSources DEF Sound, Asking

\* A claim that goes elsewhere with what it has.
LEMMA GoesOn ==
  ASSUME NEW t, Sound(t), NEW new, DOMAIN new = Fields, new.found = t.found,
         new.ranked = t.ranked, new.answers = t.answers, new.at # "done",
         new.at \in Asking /\ Alone(new) => t.at \in Asking /\ Alone(t)
  PROVE  Sound(new)
  BY DEF Sound

\* What is sound stays so.
LEMMA SoundStays ==
  ASSUME UNCHANGED opt, NEW k, Sound(k)
  PROVE  Sound(k)'
  BY DEF Sound, Alone, IsGrounded, HoldsToStances

\* One claim is set to what is sound.
LEMMA SetKeeps ==
  ASSUME ClaimsInv, NEW c \in DOMAIN claims, UNCHANGED opt, \E new : Sound(new) /\ Set(c, new)
  PROVE  ClaimsInv'
  <1>1. PICK new : Sound(new) /\ claims' = [claims EXCEPT ![c] = new]
    BY DEF Set
  <1>2. \A d \in DOMAIN claims' : claims'[d] = IF d = c THEN new ELSE claims[d]
    BY <1>1
  <1>4. DOMAIN claims' = DOMAIN claims
    BY <1>1
  <1>5. ASSUME NEW d \in DOMAIN claims' PROVE Sound(claims[d])' 
    <2>1. PICK k : k = claims'[d] /\ Sound(k)
      BY <1>1, <1>2, <1>4, <1>5 DEF ClaimsInv
    <2> QED BY <2>1, SoundStays
  <1> QED BY <1>4, <1>5 DEF ClaimsInv

-----------------------------------------------------------------------------
(* The judgement. *)

\* An answer about some ranked sources: it cites among them, and says nothing when the
\* model was not reached or could not be read.
Honest(ranked, result) ==
  /\ result.cited \subseteq DOMAIN ranked
  /\ result.down \/ ~result.usable => result.verdict = "UNVERIFIED"

\* A verdict is called off by the model's own stances, or it has its sources.
LEMMA RecalibratedIs ==
  ASSUME NEW result, Recalibrated(result) \in Definitive
  PROVE  /\ result.verdict \in Definitive /\ Grounded(result) # {}
         /\ HoldsToStances /\ Recalibrated(result) = "FALSE" => "contradicts" \in CitedStances(result)
         /\ HoldsToStances /\ Recalibrated(result) \in {"TRUE", "PARTIALLY_TRUE"}
              => "supports" \in CitedStances(result)
  <1> DEFINE said == result.verdict
             unheld == \/ said = "FALSE" /\ "contradicts" \notin CitedStances(result)
                       \/ said \in {"TRUE", "PARTIALLY_TRUE"} /\ "supports" \notin CitedStances(result)
             called == (said \in Definitive /\ Grounded(result) = {}) \/ (HoldsToStances /\ unheld)
  <1>1. /\ called => Recalibrated(result) = "UNVERIFIED"
        /\ ~called => \/ Recalibrated(result) = said
                      \/ said = "TRUE" /\ Recalibrated(result) = "PARTIALLY_TRUE"
    BY DEF Recalibrated
  <1>2. "UNVERIFIED" \notin Definitive /\ {"TRUE", "PARTIALLY_TRUE"} \subseteq Definitive
    BY DEF Definitive
  <1> HIDE DEF called
  <1>3. ~called
    BY <1>1, <1>2
  <1>4. said \in Definitive
    BY <1>1, <1>2, <1>3
  <1>5. Recalibrated(result) \in {"TRUE", "PARTIALLY_TRUE"} => said \in {"TRUE", "PARTIALLY_TRUE"}
    BY <1>1, <1>3
  <1>6. Recalibrated(result) = "FALSE" => said = "FALSE"
    BY <1>1, <1>3
  <1> QED BY <1>3, <1>4, <1>5, <1>6 DEF called

\* A claim judged on what it was ranked.
LEMMA JudgedIsSound ==
  ASSUME opt \in Options, NEW ranked, Sources(ranked), NEW result, Honest(ranked, result),
         NEW unsure, NEW searchDown
  PROVE  LET check == Judged(ranked, result, unsure, searchDown)
         IN  Sources(check.evidence) /\ IsGrounded(check)
  <1> DEFINE check == Judged(ranked, result, unsure, searchDown)
  <1>1. /\ check.usable = result.usable /\ check.llmDown = result.down
        /\ BelowFloor(ranked) => check.verdict = "UNVERIFIED" /\ check.evidence = << >>
        /\ ~BelowFloor(ranked) => /\ check.verdict = Recalibrated(result) /\ check.evidence = ranked
                                  /\ check.stances = result.stances /\ check.cited = result.cited
    BY DEF Judged, Score, NoCheck
  <1> HIDE DEF check
  <1>2. CASE BelowFloor(ranked)
    <2>1. check.verdict \notin Definitive
      BY <1>1, <1>2 DEF Definitive
    <2> QED BY <1>1, <1>2, <2>1, NoSources DEF IsGrounded, check
  <1>3. CASE ~BelowFloor(ranked)
    <2>1. Sources(check.evidence)
      BY <1>1, <1>3
    <2>2. ASSUME check.verdict \in Definitive PROVE IsGrounded(check)
      <3> DEFINE cited == {check.stances[i] : i \in {j \in DOMAIN check.evidence : OnEvidence(check, j)}}
      <3>1. ~check.llmDown /\ check.usable
        BY <1>1, <1>3, <2>2, RecalibratedIs DEF Honest, Definitive
      <3>2. Len(check.evidence) >= opt.floor
        <4>1. Len(ranked) \in Nat /\ opt.floor \in Nat
          BY ClaimsAssumption DEF Sources, Option
        <4> QED BY <1>1, <1>3, <4>1 DEF BelowFloor
      <3>3. CitedStances(result) \subseteq cited
        BY <1>1, <1>3 DEF CitedStances, Grounded, OnEvidence, Honest
      <3>4. cited # {}
        <4>1. PICK i : i \in Grounded(result)
          BY <1>1, <1>3, <2>2, RecalibratedIs
        <4> QED BY <1>1, <1>3, <4>1 DEF Grounded, OnEvidence, Honest
      <3> HIDE DEF cited
      <3>5. /\ HoldsToStances /\ check.verdict = "FALSE" => "contradicts" \in cited
            /\ HoldsToStances /\ check.verdict \in {"TRUE", "PARTIALLY_TRUE"} => "supports" \in cited
        BY <1>1, <1>3, <2>2, <3>3, RecalibratedIs
      <3> QED BY <3>1, <3>2, <3>4, <3>5 DEF IsGrounded, cited
    <2>3. ASSUME check.verdict \notin Definitive PROVE IsGrounded(check)
      BY <2>3 DEF IsGrounded
    <2> QED BY <2>1, <2>2, <2>3 DEF check
  <1> QED BY <1>2, <1>3

\* What the claim comes to then: a check, or a second look on what it was judged on.
LEMMA ConcludedIsSound ==
  ASSUME opt \in Options, NEW t, Sources(t.ranked), NEW result, Honest(t.ranked, result),
         NEW new \in Concluded(t, result)
  PROVE  Sound(new)
  <1>1. PICK unsure : new = Conclude(t, result, Judged(t.ranked, result, unsure, t.searchDown))
    BY DEF Concluded
  <1> DEFINE check == Judged(t.ranked, result, unsure, t.searchDown)
             twice == [check EXCEPT !.second = TRUE]
  <1>2. Sources(check.evidence) /\ IsGrounded(check)
    BY JudgedIsSound
  <1>3. Sources(twice.evidence) /\ IsGrounded(twice)
    <2>1. /\ twice.evidence = check.evidence /\ twice.verdict = check.verdict
          /\ twice.llmDown = check.llmDown /\ twice.usable = check.usable
          /\ twice.stances = check.stances /\ twice.cited = check.cited
      BY DEF Judged, Score, NoCheck
    <2> HIDE DEF twice, check
    <2> QED BY <1>2, <2>1 DEF IsGrounded, OnEvidence
  <1> HIDE DEF check, twice
  <1>4. \/ new = [NewClaim EXCEPT !.at = "done", !.looks = 2, !.check = twice]
        \/ \E left : new = [NewClaim EXCEPT !.at = "asking", !.looks = 2, !.planning = TRUE,
                                            !.found = ToSet(check.evidence), !.left = left]
        \/ new = [NewClaim EXCEPT !.at = "done", !.check = check]
    BY <1>1 DEF Conclude, check, twice
  <1>5. ASSUME NEW k \in {check, twice}, new.check = k, new.at = "done", DOMAIN new = Fields,
               new.found = {}, new.ranked = << >>, new.answers = << >>
        PROVE  Sound(new)
    BY <1>2, <1>3, <1>5, NewIsSound, NoSources DEF Sound, Asking
  <1>6. CASE new = [NewClaim EXCEPT !.at = "done", !.looks = 2, !.check = twice]
    <2>1. /\ new.check = twice /\ new.at = "done" /\ DOMAIN new = Fields
          /\ new.found = {} /\ new.ranked = << >> /\ new.answers = << >>
      BY <1>6, NewIsSound DEF Fields
    <2> QED BY <1>5, <2>1
  <1>7. CASE new = [NewClaim EXCEPT !.at = "done", !.check = check]
    <2>1. /\ new.check = check /\ new.at = "done" /\ DOMAIN new = Fields
          /\ new.found = {} /\ new.ranked = << >> /\ new.answers = << >>
      BY <1>7, NewIsSound DEF Fields
    <2> QED BY <1>5, <2>1
  <1>8. ASSUME NEW left, new = [NewClaim EXCEPT !.at = "asking", !.looks = 2, !.planning = TRUE,
                                            !.found = ToSet(check.evidence), !.left = left]
        PROVE  Sound(new)
    <2>1. /\ new.at = "asking" /\ new.planning = TRUE /\ DOMAIN new = Fields
          /\ new.found = ToSet(check.evidence) /\ new.ranked = << >> /\ new.answers = << >>
      BY <1>8, NewIsSound DEF Fields
    <2>2. ToSet(check.evidence) \subseteq Item /\ Apart(ToSet(check.evidence))
      BY <1>2 DEF Sources, ToSet
    <2> QED BY <2>1, <2>2, NewIsSound DEF Sound, Alone
  <1> QED BY <1>4, <1>6, <1>7, <1>8

-----------------------------------------------------------------------------
(* The answers a claim is judged on. *)

\* A claim not asked about, and a model that did not answer.
LEMMA NothingIsHonest ==
  ASSUME NEW ranked
  PROVE  Honest(ranked, NotAsked(ranked)) /\ Honest(ranked, Unreachable(ranked))
         /\ Honest(ranked, Unreadable(ranked))
  BY DEF Honest, NotAsked, Unreachable, Unreadable, Result

\* What the model wrote about the sources it was shown.
LEMMA WrittenIsHonest ==
  ASSUME NEW ranked, NEW result \in Written(ranked)
  PROVE  Honest(ranked, result)
  BY DEF Honest, Written, Result

\* What comes of the sources that were asked about one by one.
LEMMA VerdictIsHonest ==
  ASSUME NEW ranked \in Seq(Item), NEW answers \in Seq(Stances \cup {"down"}),
         Len(answers) <= Len(ranked)
  PROVE  Honest(ranked, VerdictFrom(ranked, answers))
  <1> DEFINE cited == {i \in DOMAIN answers : answers[i] \in {"supports", "contradicts"}}
             new == VerdictFrom(ranked, answers)
  <1>1. \/ new = Unreachable(ranked) \/ new = Unreadable(ranked)
        \/ \E verdict, stances : new = Result(verdict, cited, stances, TRUE, FALSE)
    BY DEF VerdictFrom
  <1>2. cited \subseteq DOMAIN ranked
    BY DEF Stances
  <1> HIDE DEF cited, new
  <1>3. ASSUME NEW verdict, NEW stances, new = Result(verdict, cited, stances, TRUE, FALSE)
        PROVE  Honest(ranked, new)
    BY <1>2, <1>3 DEF Honest, Result
  <1>4. Honest(ranked, new)
    BY <1>1, <1>3, NothingIsHonest
  <1> QED BY <1>4 DEF new

\* What a claim comes to when the model's answer, or the lack of one, is in.
LEMMA EndedIsSound ==
  ASSUME opt \in Options, NEW t, Sound(t), t.at \in Asking, NEW outcome \in {"json", "none", "down"},
         NEW new \in Ended(t, outcome)
  PROVE  Sound(new)
  <1> DEFINE with == IF outcome = "json" THEN Stances
                     ELSE {IF outcome = "down" THEN "down" ELSE "none"}
  <1>1. with \subseteq Stances \cup {"down"}
    BY DEF Stances
  <1>2. Sources(t.ranked) /\ t.ranked \in Seq(Item) /\ t.answers \in Seq(Stances \cup {"down"})
        /\ DOMAIN t = Fields
    BY DEF Sound, Sources
  <1>3. CASE t.planning
    <2>1. new = [t EXCEPT !.at = "searching", !.planning = FALSE]
      BY <1>3 DEF Ended, Planned
    <2>2. /\ DOMAIN new = Fields /\ new.found = t.found /\ new.ranked = t.ranked
          /\ new.answers = t.answers /\ new.at = "searching"
      BY <1>2, <2>1 DEF Fields
    <2> QED BY <2>2, GoesOn DEF Asking
  <1>4. CASE ~t.planning /\ Alone(t)
    <2>1. Len(t.answers) < Len(t.ranked)
      BY <1>4 DEF Sound
    <2>2. PICK a \in with :
            \/ /\ Len(t.answers) + 1 < Len(t.ranked)
               /\ new = [t EXCEPT !.at = "asking", !.answers = Append(@, a),
                                  !.attempt = 0, !.waits = 0, !.refused = FALSE]
            \/ new \in Concluded([t EXCEPT !.answers = << >>],
                                 VerdictFrom(t.ranked, Append(t.answers, a)))
      BY <1>4 DEF Ended
    <2>3. /\ Append(t.answers, a) \in Seq(Stances \cup {"down"})
          /\ Len(Append(t.answers, a)) = Len(t.answers) + 1
          /\ Len(t.answers) \in Nat /\ Len(t.ranked) \in Nat
      BY <1>1, <1>2, AppendProperties
    <2>4. CASE /\ Len(t.answers) + 1 < Len(t.ranked)
               /\ new = [t EXCEPT !.at = "asking", !.answers = Append(@, a),
                                  !.attempt = 0, !.waits = 0, !.refused = FALSE]
      <3>1. /\ DOMAIN new = Fields /\ new.found = t.found /\ new.ranked = t.ranked
            /\ new.answers = Append(t.answers, a) /\ new.at = "asking"
        BY <1>2, <2>4 DEF Fields
      <3> QED BY <1>2, <2>3, <2>4, <3>1 DEF Sound
    <2>5. CASE new \in Concluded([t EXCEPT !.answers = << >>],
                                 VerdictFrom(t.ranked, Append(t.answers, a)))
      <3> DEFINE asked == [t EXCEPT !.answers = << >>]
      <3>1. asked.ranked = t.ranked
        BY <1>2 DEF Fields
      <3>2. Honest(t.ranked, VerdictFrom(t.ranked, Append(t.answers, a)))
        <4> DEFINE all == Append(t.answers, a)
        <4>1. all \in Seq(Stances \cup {"down"}) /\ Len(all) <= Len(t.ranked)
          BY <2>1, <2>3
        <4> HIDE DEF all
        <4>2. Honest(t.ranked, VerdictFrom(t.ranked, all))
          BY <1>2, <4>1, VerdictIsHonest
        <4> QED BY <4>2 DEF all
      <3> HIDE DEF asked
      <3> QED BY <1>2, <2>5, <3>1, <3>2, ConcludedIsSound DEF asked
    <2> QED BY <2>2, <2>4, <2>5
  <1>5. CASE ~t.planning /\ ~Alone(t)
    <2>1. PICK result : Honest(t.ranked, result) /\ new \in Concluded(t, result)
      BY <1>5, NothingIsHonest, WrittenIsHonest DEF Ended
    <2> QED BY <1>2, <2>1, ConcludedIsSound
  <1> QED BY <1>3, <1>4, <1>5

-----------------------------------------------------------------------------
(* What is found, and ranked. *)

\* A ranking of sources that are apart: some of them, in an order.
LEMMA RankedIsApart ==
  ASSUME NEW found \in SUBSET Item, Apart(found), NEW ranked \in SetToAllKPermutations(found)
  PROVE  Sources(ranked)
  <1>1. IsFiniteSet(Item)
    <2> DEFINE kinds == {"web", "internal"}
               make == [k \in Pages \X kinds |-> [page |-> k[1], origin |-> k[2]]]
    <2>1. IsFiniteSet(kinds)
      <3>1. IsFiniteSet({"web"} \cup {"internal"})
        BY FS_Singleton, FS_AddElement
      <3>2. kinds = {"web"} \cup {"internal"}
        OBVIOUS
      <3> QED BY <3>1, <3>2
    <2>2. IsFiniteSet(Pages \X kinds)
      BY <2>1, ClaimsAssumption, FS_Product
    <2>3. make \in Surjection(Pages \X kinds, Item)
      <3>1. make \in [Pages \X kinds -> Item]
        BY DEF Item
      <3>2. ASSUME NEW i \in Item PROVE \E k \in Pages \X kinds : make[k] = i
        <4>1. i = [page |-> i.page, origin |-> i.origin] /\ i.page \in Pages /\ i.origin \in kinds
          BY DEF Item
        <4>2. <<i.page, i.origin>> \in Pages \X kinds /\ make[<<i.page, i.origin>>] = i
          BY <4>1
        <4> QED BY <4>2
      <3> QED BY <3>1, <3>2 DEF Surjection
    <2> QED BY <2>2, <2>3, FS_Surjection
  <1>2. PICK s \in SUBSET found : ranked \in [1..Cardinality(s) -> s]
    BY DEF SetToAllKPermutations, SetToSeqs
  <1>3. Cardinality(s) \in Nat
    BY <1>1, FS_Subset, FS_CardinalityType
  <1>4. ranked \in Seq(Item)
    <2>1. ranked \in [1..Cardinality(s) -> Item]
      BY <1>2
    <2> QED BY <1>3, <2>1, SeqDef
  <1>5. ToSet(ranked) \subseteq found
    BY <1>2 DEF ToSet
  <1> QED BY <1>4, <1>5 DEF Sources, Apart

\* Pages that are not the article, one for each outlet, found anew or beside what was
\* found before on other outlets.
LEMMA MoreIsApart ==
  ASSUME NEW had, had \subseteq Item, Apart(had), NEW pages \in SUBSET Pages, Own \notin pages,
         \A p \in pages : \A i \in had : i.origin = "web" => Outlet[p] # Outlet[i.page],
         NEW best \in OnePerOutlet(pages), NEW n, NEW top \in Firsts(best, n)
  PROVE  LET more == had \cup {WebItem(p) : p \in top}
         IN  more \subseteq Item /\ Apart(more)
  <1> DEFINE fresh == {WebItem(p) : p \in top}
  <1>1. top \subseteq pages /\ \A p, q \in top : Outlet[p] = Outlet[q] => p = q
    BY DEF OnePerOutlet, Firsts
  <1>2. fresh \subseteq Item
    BY <1>1 DEF WebItem, Item
  <1>3. \A i \in fresh : i.page \in top /\ i.origin = "web"
    BY DEF WebItem
  <1> HIDE DEF fresh
  <1>4. Apart(had \cup fresh)
    <2>1. \A i \in had \cup fresh : i.page # Own
      BY <1>1, <1>3 DEF Apart
    <2>2. ASSUME NEW i \in had \cup fresh, NEW j \in had \cup fresh,
                 i.origin = "web", j.origin = "web", Outlet[i.page] = Outlet[j.page]
          PROVE  i.page = j.page
      <3>1. CASE i \in had /\ j \in had
        BY <2>2, <3>1 DEF Apart
      <3>2. CASE i \in fresh /\ j \in fresh
        BY <1>1, <1>3, <2>2, <3>2
      <3>3. CASE i \in had /\ j \in fresh
        BY <1>1, <1>3, <2>2, <3>3
      <3>4. CASE i \in fresh /\ j \in had
        BY <1>1, <1>3, <2>2, <3>4
      <3> QED BY <3>1, <3>2, <3>3, <3>4
    <2> QED BY <2>1, <2>2 DEF Apart
  <1> QED BY <1>2, <1>4 DEF fresh

\* What the corpus returns without the article.
LEMMA CorpusIsApart ==
  ASSUME NEW internal \in SUBSET Elsewhere(Corpus)
  PROVE  LET items == {CorpusItem(p) : p \in internal}
         IN  items \subseteq Item /\ Apart(items) /\ \A i \in items : i.origin # "web"
  BY ClaimsAssumption DEF CorpusItem, Item, Apart, Elsewhere

-----------------------------------------------------------------------------
(* The steps of a claim. *)

\* Selection, and a worker that takes a claim.
LEMMA SelectKeeps ==
  ASSUME ClaimsInv, Select
  PROVE  ClaimsInv'
  <1>1. PICK kept \in SetToAllKPermutations(Statements) :
          claims' = [i \in DOMAIN kept |-> NewClaim] /\ opt' = opt
    BY DEF Select, Anchors
  <1>2. PICK s \in SUBSET Statements : kept \in [1..Cardinality(s) -> s]
    BY DEF SetToAllKPermutations, SetToSeqs
  <1>3. 1..Cardinality(s) \subseteq 1..Cardinality(Statements)
    BY FS_Subset, FS_CardinalityType, ClaimsAssumption
  <1>4. ASSUME NEW c \in DOMAIN claims' PROVE Sound(claims[c])'
    <2>1. PICK k : k = claims'[c] /\ Sound(k)
      BY <1>1, <1>4, NewIsSound
    <2> QED BY <1>1, <2>1, SoundStays
  <1>5. DOMAIN claims' = 1..Cardinality(s)
    BY <1>1, <1>2
  <1> QED BY <1>1, <1>3, <1>4, <1>5 DEF ClaimsInv

\* A claim goes to a stage that asks nobody, or in which it was asking already.
LEMMA MovesOn ==
  ASSUME ClaimsInv, NEW c \in DOMAIN claims, UNCHANGED opt, NEW new, Set(c, new),
         DOMAIN new = Fields, new.found = claims[c].found, new.ranked = claims[c].ranked,
         new.answers = claims[c].answers, new.planning = claims[c].planning, new.at # "done",
         new.at \in Asking => claims[c].at \in Asking
  PROVE  ClaimsInv'
  <1>1. Sound(claims[c])
    BY DEF ClaimsInv
  <1>2. Sound(new)
    BY <1>1, GoesOn DEF Alone
  <1> QED BY <1>2, SetKeeps

\* A worker that takes a claim, and a clock that runs.
LEMMA BeginClaimKeeps ==
  ASSUME ClaimsInv, NEW c \in DOMAIN claims, BeginClaim(c) \/ TimePasses(c)
  PROVE  ClaimsInv'
  <1>1. PICK t : t = claims[c] /\ Sound(t)
    BY DEF ClaimsInv
  <1>2. DOMAIN t = Fields
    BY <1>1 DEF Sound
  <1>3. CASE BeginClaim(c)
    <2>1. PICK new : new = [t EXCEPT !.at = "retrieving"] /\ Set(c, new) /\ UNCHANGED opt
      BY <1>1, <1>3 DEF BeginClaim, Now
    <2>2. /\ DOMAIN new = Fields /\ new.found = t.found /\ new.ranked = t.ranked
          /\ new.answers = t.answers /\ new.planning = t.planning /\ new.at = "retrieving"
      BY <1>2, <2>1 DEF Fields
    <2> QED BY <1>1, <2>1, <2>2, MovesOn DEF Asking
  <1>4. CASE TimePasses(c)
    <2>1. PICK left, new : new = [t EXCEPT !.time = left] /\ Set(c, new) /\ UNCHANGED opt
                           /\ t.at \in Busy
      BY <1>1, <1>4 DEF TimePasses, Now
    <2>2. /\ DOMAIN new = Fields /\ new.found = t.found /\ new.ranked = t.ranked
          /\ new.answers = t.answers /\ new.planning = t.planning /\ new.at = t.at
      BY <1>2, <2>1 DEF Fields
    <2> QED BY <1>1, <2>1, <2>2, MovesOn DEF Busy
  <1> QED BY <1>3, <1>4

\* Retrieval brings what is apart, whether or not the search was reached.
LEMMA RetrieveKeeps ==
  ASSUME ClaimsInv, NEW c \in DOMAIN claims, Retrieve(c)
  PROVE  ClaimsInv'
  <1>1. PICK t : t = claims[c] /\ Sound(t)
    BY DEF ClaimsInv
  <1>2. DOMAIN t = Fields /\ Sources(t.ranked) /\ t.answers \in Seq(Stances \cup {"down"})
    BY <1>1 DEF Sound
  <1>3. Hits[c] \subseteq Pages
    BY ClaimsAssumption DEF ClaimsInv
  <1>4. ASSUME NEW new, Set(c, new), UNCHANGED opt, DOMAIN new = Fields, new.at = "ranking",
               new.ranked = t.ranked, new.answers = t.answers,
               new.found \subseteq Item, Apart(new.found)
        PROVE  ClaimsInv'
    <2>1. Sound(new)
      BY <1>2, <1>4 DEF Sound, Asking
    <2> QED BY <1>4, <2>1, SetKeeps
  <1>5. ASSUME NEW web \in Searched(c), NEW internal \in SUBSET Elsewhere(Corpus),
               NEW best \in OnePerOutlet(Elsewhere(web)), NEW top \in Firsts(best, opt.cap),
               NEW left, UNCHANGED opt,
               Set(c, [t EXCEPT !.at = "ranking",
                         !.found = {WebItem(p) : p \in top} \cup {CorpusItem(p) : p \in internal},
                         !.left = left])
        PROVE  ClaimsInv'
    <2> DEFINE had == {CorpusItem(p) : p \in internal}
               more == {WebItem(p) : p \in top}
    <2>1. had \subseteq Item /\ Apart(had) /\ \A i \in had : i.origin # "web"
      BY CorpusIsApart
    <2>2. Elsewhere(web) \in SUBSET Pages /\ Own \notin Elsewhere(web)
      BY <1>3 DEF Searched, Elsewhere
    <2>3. PICK new : /\ new = [t EXCEPT !.at = "ranking", !.found = more \cup had, !.left = left]
                     /\ Set(c, new)
      BY <1>5
    <2> HIDE DEF had
    <2>4. had \cup more \subseteq Item /\ Apart(had \cup more)
      BY <2>1, <2>2, MoreIsApart
    <2> HIDE DEF more
    <2>5. more \cup had = had \cup more
      OBVIOUS
    <2>6. /\ DOMAIN new = Fields /\ new.at = "ranking" /\ new.found = had \cup more
          /\ new.ranked = t.ranked /\ new.answers = t.answers
      BY <1>2, <2>3, <2>5 DEF Fields
    <2> QED BY <1>4, <1>5, <2>3, <2>4, <2>6
  <1>6. ASSUME NEW internal \in SUBSET Elsewhere(Corpus), UNCHANGED opt,
               Set(c, [t EXCEPT !.at = "ranking", !.searchDown = TRUE,
                                !.found = {CorpusItem(p) : p \in internal}])
        PROVE  ClaimsInv'
    <2> DEFINE had == {CorpusItem(p) : p \in internal}
    <2>1. had \subseteq Item /\ Apart(had)
      BY CorpusIsApart
    <2>2. PICK new : /\ new = [t EXCEPT !.at = "ranking", !.searchDown = TRUE, !.found = had]
                     /\ Set(c, new)
      BY <1>6
    <2> HIDE DEF had
    <2>3. /\ DOMAIN new = Fields /\ new.at = "ranking" /\ new.found = had
          /\ new.ranked = t.ranked /\ new.answers = t.answers
      BY <1>2, <2>2 DEF Fields
    <2> QED BY <1>4, <1>6, <2>1, <2>2, <2>3
  <1>7. ASSUME Set(c, [t EXCEPT !.at = "failed"]), UNCHANGED opt
        PROVE  ClaimsInv'
    <2>1. PICK new : new = [t EXCEPT !.at = "failed"] /\ Set(c, new)
      BY <1>7
    <2>2. /\ DOMAIN new = Fields /\ new.found = t.found /\ new.ranked = t.ranked
          /\ new.answers = t.answers /\ new.planning = t.planning /\ new.at = "failed"
      BY <1>2, <2>1 DEF Fields
    <2> QED BY <1>1, <1>7, <2>1, <2>2, MovesOn DEF Asking
  <1>8. /\ UNCHANGED opt
        /\ \/ \E web \in Searched(c), internal \in SUBSET Elsewhere(Corpus) :
               \E best \in OnePerOutlet(Elsewhere(web)) : \E top \in Firsts(best, opt.cap) : \E left :
                 Set(c, [t EXCEPT !.at = "ranking",
                           !.found = {WebItem(p) : p \in top} \cup {CorpusItem(p) : p \in internal},
                           !.left = left])
           \/ \E internal \in SUBSET Elsewhere(Corpus) :
                 Set(c, [t EXCEPT !.at = "ranking", !.searchDown = TRUE,
                                  !.found = {CorpusItem(p) : p \in internal}])
           \/ Set(c, [t EXCEPT !.at = "failed"])
    BY <1>1 DEF Retrieve, Now
  <1> QED BY <1>5, <1>6, <1>7, <1>8

\* The ranker orders what was found; a claim with too few sources, or too late, is
\* judged without the model.
LEMMA RankKeeps ==
  ASSUME ClaimsInv, NEW c \in DOMAIN claims, Rank(c)
  PROVE  ClaimsInv'
  <1>1. PICK t : t = claims[c] /\ Sound(t)
    BY DEF ClaimsInv
  <1>2. DOMAIN t = Fields /\ t.found \subseteq Item /\ Apart(t.found)
    BY <1>1 DEF Sound
  <1>3. UNCHANGED opt /\ opt \in Options
    BY DEF Rank, ClaimsInv
  <1>4. CASE \E ranked \in SetToAllKPermutations(t.found) : \E out, k :
               /\ k = [t EXCEPT !.ranked = ranked, !.left = out, !.answers = << >>,
                                !.attempt = 0, !.waits = 0, !.refused = FALSE]
               /\ \/ \E new \in Concluded(k, NotAsked(ranked)) : Set(c, new)
                  \/ \E new \in Concluded(k, Unreachable(ranked)) : Set(c, new)
                  \/ ~BelowFloor(ranked) /\ Set(c, [k EXCEPT !.at = "asking"])
    <2>1. PICK ranked, out, k :
               /\ ranked \in SetToAllKPermutations(t.found)
               /\ k = [t EXCEPT !.ranked = ranked, !.left = out, !.answers = << >>,
                                !.attempt = 0, !.waits = 0, !.refused = FALSE]
               /\ \/ \E new \in Concluded(k, NotAsked(ranked)) : Set(c, new)
                  \/ \E new \in Concluded(k, Unreachable(ranked)) : Set(c, new)
                  \/ ~BelowFloor(ranked) /\ Set(c, [k EXCEPT !.at = "asking"])
      BY <1>4
    <2>2. /\ Sources(ranked) /\ k.ranked = ranked /\ k.answers = << >> /\ DOMAIN k = Fields
          /\ k.found = t.found
      BY <1>2, <2>1, RankedIsApart DEF Fields
    <2>3. CASE \E new \in Concluded(k, NotAsked(ranked)) \cup Concluded(k, Unreachable(ranked)) : Set(c, new)
      <3>1. PICK new, result : /\ new \in Concluded(k, result) /\ Set(c, new)
                               /\ result \in {NotAsked(ranked), Unreachable(ranked)}
        BY <2>3
      <3>2. Honest(ranked, result)
        BY <3>1, NothingIsHonest
      <3>3. Sound(new)
        BY <1>3, <2>2, <3>1, <3>2, ConcludedIsSound
      <3> QED BY <1>3, <3>1, <3>3, SetKeeps
    <2>4. CASE ~BelowFloor(ranked) /\ Set(c, [k EXCEPT !.at = "asking"])
      <3>1. PICK new : new = [k EXCEPT !.at = "asking"] /\ Set(c, new)
        BY <2>4
      <3>2. /\ DOMAIN new = Fields /\ new.at = "asking" /\ new.found = t.found
            /\ new.ranked = ranked /\ new.answers = << >>
        BY <2>2, <3>1 DEF Fields
      <3>3. Len(ranked) \in Nat /\ Len(ranked) # 0
        BY <2>2, <2>4, EmptySeq DEF BelowFloor, Sources
      <3>4. << >> \in Seq(Stances \cup {"down"}) /\ Len(<< >>) = 0
        OBVIOUS
      <3>5. Sound(new)
        BY <1>2, <2>2, <3>2, <3>3, <3>4 DEF Sound
      <3> QED BY <1>3, <3>1, <3>5, SetKeeps
    <2> QED BY <2>1, <2>3, <2>4
  <1>5. CASE Set(c, [t EXCEPT !.at = "failed"])
    <2>1. PICK new : new = [t EXCEPT !.at = "failed"] /\ Set(c, new)
      BY <1>5
    <2>2. /\ DOMAIN new = Fields /\ new.found = t.found /\ new.ranked = t.ranked
          /\ new.answers = t.answers /\ new.planning = t.planning /\ new.at = "failed"
      BY <1>2, <2>1 DEF Fields
    <2> QED BY <1>1, <1>3, <2>1, <2>2, MovesOn DEF Asking
  <1>6. ASSUME NEW ranked \in SetToAllKPermutations(t.found),
               LET out == Reject(t.found \ ToSet(ranked), "ranking")
                   k == [t EXCEPT !.ranked = ranked, !.left = @ \cup out, !.answers = << >>,
                                  !.attempt = 0, !.waits = 0, !.refused = FALSE]
               IN \/ /\ BelowFloor(ranked)
                     /\ \E new \in Concluded(k, NotAsked(ranked)) : Set(c, new)
                  \/ /\ ~BelowFloor(ranked) /\ k.time # "enough"
                     /\ \E new \in Concluded(k, Unreachable(ranked)) : Set(c, new)
                  \/ /\ ~BelowFloor(ranked) /\ k.time = "enough"
                     /\ Set(c, [k EXCEPT !.at = "asking"])
        PROVE  ClaimsInv'
    <2> DEFINE out == t.left \cup Reject(t.found \ ToSet(ranked), "ranking")
               k == [t EXCEPT !.ranked = ranked, !.left = out, !.answers = << >>,
                              !.attempt = 0, !.waits = 0, !.refused = FALSE]
    <2>1. \/ \E new \in Concluded(k, NotAsked(ranked)) : Set(c, new)
          \/ \E new \in Concluded(k, Unreachable(ranked)) : Set(c, new)
          \/ ~BelowFloor(ranked) /\ Set(c, [k EXCEPT !.at = "asking"])
      BY <1>6
    <2>2. k = [t EXCEPT !.ranked = ranked, !.left = out, !.answers = << >>,
                        !.attempt = 0, !.waits = 0, !.refused = FALSE]
      OBVIOUS
    <2> HIDE DEF k, out
    <2> QED BY <1>4, <2>1, <2>2
  <1> QED BY <1>1, <1>5, <1>6 DEF Rank, Now

\* The end of a call to the model.
LEMMA EndKeeps ==
  ASSUME ClaimsInv, NEW c \in DOMAIN claims, NEW outcome \in {"json", "none", "down"},
         End(c, outcome), claims[c].at \in Asking, UNCHANGED opt
  PROVE  ClaimsInv'
  <1>1. PICK t : t = claims[c] /\ Sound(t)
    BY DEF ClaimsInv
  <1>2. PICK new \in Ended(t, outcome) : Set(c, new)
    BY <1>1 DEF End, Now
  <1>3. Sound(new)
    BY <1>1, EndedIsSound DEF ClaimsInv
  <1> QED BY <1>2, <1>3, SetKeeps

\* An attempt starts, waits for its permit, and is answered, refused or retried.
LEMMA AskKeeps ==
  ASSUME ClaimsInv, NEW c \in DOMAIN claims, Ask(c) \/ Permit(c) \/ Respond(c)
  PROVE  ClaimsInv'
  <1>1. PICK t : t = claims[c] /\ Sound(t)
    BY DEF ClaimsInv
  <1>2. DOMAIN t = Fields /\ UNCHANGED opt /\ t.at \in Asking
    BY <1>1 DEF Sound, Asking, Ask, Permit, Respond, Now
  <1>3. ASSUME NEW new, Set(c, new), new \in
          {[t EXCEPT !.at = "waiting"], [t EXCEPT !.at = "calling"], Again(t, TRUE), Again(t, FALSE),
           [t EXCEPT !.at = "waiting", !.waits = @ + 1]}
        PROVE  ClaimsInv'
    <2>1. /\ DOMAIN new = Fields /\ new.found = t.found /\ new.ranked = t.ranked
          /\ new.answers = t.answers /\ new.planning = t.planning
          /\ new.at \in {"waiting", "calling", "asking"}
      BY <1>2, <1>3 DEF Fields, Again
    <2> QED BY <1>1, <1>2, <1>3, <2>1, MovesOn
  <1>4. \/ \E outcome \in {"json", "none", "down"} : End(c, outcome)
        \/ \E new \in {[t EXCEPT !.at = "waiting"], [t EXCEPT !.at = "calling"], Again(t, TRUE),
                       Again(t, FALSE), [t EXCEPT !.at = "waiting", !.waits = @ + 1]} : Set(c, new)
    <2>1. CASE Ask(c)
      BY <1>1, <2>1 DEF Ask, Now
    <2>2. CASE Permit(c)
      BY <1>1, <2>2 DEF Permit, Now
    <2>3. CASE Respond(c)
      BY <1>1, <2>3 DEF Respond, Now
    <2> QED BY <2>1, <2>2, <2>3
  <1> QED BY <1>1, <1>2, <1>3, <1>4, EndKeeps

\* A second look adds pages on outlets the first did not have.
LEMMA SearchAgainKeeps ==
  ASSUME ClaimsInv, NEW c \in DOMAIN claims, SearchAgain(c)
  PROVE  ClaimsInv'
  <1>1. PICK t : t = claims[c] /\ Sound(t)
    BY DEF ClaimsInv
  <1>2. DOMAIN t = Fields /\ t.found \subseteq Item /\ Apart(t.found) /\ Sources(t.ranked)
        /\ t.answers \in Seq(Stances \cup {"down"})
    BY <1>1 DEF Sound
  <1>3. Hits[c] \subseteq Pages
    BY ClaimsAssumption DEF ClaimsInv
  <1>4. PICK hits, w :
          /\ hits \in SUBSET Pages /\ w \in Wider(c, hits) /\ UNCHANGED opt
          /\ Set(c, [t EXCEPT !.at = "ranking", !.found = w.found, !.left = w.left])
    <2>1. {} \in SUBSET Pages /\ Searched(c) \subseteq SUBSET Pages
      BY <1>3 DEF Searched
    <2> QED BY <1>1, <2>1 DEF SearchAgain, Now
  <1>5. w.found \subseteq Item /\ Apart(w.found)
    <2> DEFINE seen == PagesOf(t.found) \cup {r.page : r \in t.left} \cup {Own}
               fresh == {p \in hits \ seen : Outlet[p] \notin {Outlet[q] : q \in PagesOf(t.found)}}
    <2>1. PICK best, top :
            /\ best \in OnePerOutlet(fresh) /\ top \in Firsts(best, opt.cap)
            /\ w.found = t.found \cup {WebItem(p) : p \in top}
      BY <1>1, <1>4 DEF Wider, Now
    <2>2. /\ fresh \in SUBSET Pages /\ Own \notin fresh
          /\ \A p \in fresh : \A i \in t.found : i.origin = "web" => Outlet[p] # Outlet[i.page]
      BY <1>4 DEF PagesOf
    <2> HIDE DEF fresh
    <2> DEFINE more == t.found \cup {WebItem(p) : p \in top}
    <2>3. more \subseteq Item /\ Apart(more)
      BY <1>2, <2>1, <2>2, MoreIsApart
    <2>4. w.found = more
      BY <2>1
    <2> HIDE DEF more
    <2> QED BY <2>3, <2>4
  <1>6. PICK new : /\ new = [t EXCEPT !.at = "ranking", !.found = w.found, !.left = w.left]
                   /\ Set(c, new)
    BY <1>4
  <1>7. /\ DOMAIN new = Fields /\ new.at = "ranking" /\ new.found = w.found
        /\ new.ranked = t.ranked /\ new.answers = t.answers
    BY <1>2, <1>6 DEF Fields
  <1>8. Sound(new)
    BY <1>2, <1>5, <1>7 DEF Sound, Asking
  <1> QED BY <1>4, <1>6, <1>8, SetKeeps

\* The claims no worker has taken are called off.
LEMMA CallOffKeeps ==
  ASSUME ClaimsInv, CallOff
  PROVE  ClaimsInv'
  <1>1. /\ UNCHANGED opt
        /\ claims' = [c \in DOMAIN claims |-> IF claims[c].at = "queued"
                                             THEN [claims[c] EXCEPT !.at = "dropped"] ELSE claims[c]]
    BY DEF CallOff, Now
  <1>2. ASSUME NEW c \in DOMAIN claims' PROVE Sound(claims[c])'
    <2>1. PICK t, k : /\ t = claims[c] /\ Sound(t) /\ k = claims'[c]
                      /\ k = [t EXCEPT !.at = "dropped"] \/ k = t
      BY <1>1, <1>2 DEF ClaimsInv
    <2>2. CASE k = [t EXCEPT !.at = "dropped"]
      <3>1. DOMAIN t = Fields
        BY <2>1 DEF Sound
      <3>2. /\ DOMAIN k = Fields /\ k.found = t.found /\ k.ranked = t.ranked
            /\ k.answers = t.answers /\ k.at = "dropped"
        BY <2>2, <3>1 DEF Fields
      <3>3. Sound(k)
        BY <2>1, <3>2, GoesOn DEF Asking
      <3> QED BY <1>1, <2>1, <3>3, SoundStays
    <2> QED BY <1>1, <2>1, <2>2, SoundStays
  <1> QED BY <1>1, <1>2 DEF ClaimsInv

\* Every step keeps it.
LEMMA ClaimsKeep == ClaimsInv /\ [ClaimsNext]_claimVars => ClaimsInv'
  <1> SUFFICES ASSUME ClaimsInv, [ClaimsNext]_claimVars PROVE ClaimsInv'
    OBVIOUS
  <1>1. CASE UNCHANGED <<opt, claims>>
    <2>1. ASSUME NEW c \in DOMAIN claims' PROVE Sound(claims[c])'
      <3>1. PICK k : k = claims'[c] /\ Sound(k)
        BY <1>1, <2>1 DEF ClaimsInv
      <3> QED BY <1>1, <3>1, SoundStays
    <2> QED BY <1>1, <2>1 DEF ClaimsInv
  <1>2. CASE \E c \in DOMAIN claims : BeginClaim(c) \/ TimePasses(c) \/ Step(c)
    BY <1>2, BeginClaimKeeps, RetrieveKeeps, RankKeeps, AskKeeps, SearchAgainKeeps DEF Step
  <1>3. CASE Select \/ CallOff
    BY <1>3, SelectKeeps, CallOffKeeps
  <1>4. Finish \/ Over \/ UNCHANGED claimVars => UNCHANGED <<opt, claims>>
    BY DEF Finish, Over, claimVars
  <1> QED BY <1>1, <1>2, <1>3, <1>4 DEF ClaimsNext

\* At the start no claim is selected.
LEMMA ClaimsStart == ClaimsInit => ClaimsInv
  BY DEF ClaimsInit, ClaimsInv

\* No claim is called true, partly true, false or misleading without enough sources and
\* one cited that the model did not call off the subject, whatever it answered, however
\* its calls went and however late.
THEOREM GroundedHolds == ClaimsSpec => []VerdictsAreGrounded
  BY ClaimsStart, ClaimsKeep, ClaimsImply, PTL DEF ClaimsSpec

\* What a claim is judged on after one look or two is one page of an outlet on the web
\* at most, and never the article.
THEOREM IndependentHolds == ClaimsSpec => []CorroborationIsIndependent
  BY ClaimsStart, ClaimsKeep, ClaimsImply, PTL DEF ClaimsSpec
=============================================================================
