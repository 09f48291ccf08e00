-------------------------- MODULE UploadFlowProofs --------------------------
(***************************************************************************)
(* Proofs about UploadFlow, for any files, sheets, rows, columns and       *)
(* issues, and any number of jobs.                                         *)
(***************************************************************************)
EXTENDS UploadFlow, TLAPS

(* The latest job is at work.                                              *)
Running == jobSeq > 0 /\ jobs[jobSeq] # None

(* Job ids are handed out in order.                                        *)
JobsInOrder ==
    /\ jobSeq \in 0..MaxJobs
    /\ \A id \in Id : id > jobSeq => jobs[id] = None

(* What the stage shows belongs to the latest job, and it has what its     *)
(* buttons need.                                                           *)
StageOfJob ==
    /\ Working => Running
    /\ Running => /\ Working
                  /\ jobs[jobSeq].file = file /\ jobs[jobSeq].prior = prior
                  /\ jobs[jobSeq].step = "inspect" <=> stage # "parsing"
    /\ busy => stage = "configure"
    /\ stage # "idle" => file # None
    /\ stage = "review" => table # None

(* A hidden sheet is selected with the consent to it.                      *)
Consented(sel) == sel.sheet \in Hidden => sel.sheet \in consent /\ sel.allowHidden

(* The opt-ins are consents, here and in the latest job; a sheet that was  *)
(* inspected is one the user allows, and so is the one a job inspects.     *)
ConsentKept ==
    /\ opted \subseteq consent
    /\ inspected # None => Consented(selection)
    /\ stage \in {"parsing", "review"} => inspected # None
    /\ retryStep = "parse" => inspected # None
    /\ Running =>
          /\ jobs[jobSeq].opted \subseteq consent
          /\ jobs[jobSeq].selection.sheet \in Hidden => jobs[jobSeq].selection.sheet \in consent
          /\ jobs[jobSeq].step # "inspect" =>
                /\ jobs[jobSeq].inspected # None
                /\ Consented(jobs[jobSeq].selection)

(* The decisions on one plan agree with the issues it approves.            *)
Coherent(d) ==
    /\ \A i \in UseCache : i \in d.approved <=> OfColumn[i] \in d.cache
    /\ \A i \in ConfirmType : i \in d.approved <=> d.overrides[OfColumn[i]] = "confirmed"
PlansCoherent == Coherent(decisions) /\ (prior # None => Coherent(prior.plan))

(* The inductive invariant.                                                *)
Inv == TypeOK /\ JobsInOrder /\ StageOfJob /\ ConsentKept /\ PlansCoherent

-----------------------------------------------------------------------------
(* Starting a job                                                          *)

(* The job started is the latest, and there is none after it.              *)
LEMMA StartStep ==
    ASSUME TypeOK, JobsInOrder, NEW run \in Run, Start(run)
    PROVE  /\ jobSeq' \in Nat /\ jobs' \in [Id -> Run \cup {None}]
           /\ JobsInOrder' /\ Running' /\ jobs'[jobSeq'] = run
BY InputAssumption, NoneAssumption
   DEF InputAssumption, NoneAssumption, TypeOK, JobsInOrder, Start, Running, Id

(* The decisions of no review agree.                                       *)
LEMMA NoReviewCoherent ==
    ASSUME Inv, NoReview, prior' = prior
    PROVE  /\ PlansCoherent'
           /\ table' = None /\ decisions' \in Decisions
BY InputAssumption
   DEF InputAssumption, Inv, TypeOK, PlansCoherent, Coherent, NoReview, EmptyDecisions,
       Decisions

(* A file that is inspected anew is inspected without a selection.         *)
LEMMA AnewInv ==
    ASSUME Inv, NEW f \in File, EmitInspecting(f, prior),
           Inspect(f, NoSelection, {}, prior), consent' \in SUBSET Hidden
    PROVE  Inv'
<1> DEFINE run == [step |-> "inspect", file |-> f, selection |-> NoSelection,
                   inspected |-> None, opted |-> {}, prior |-> prior]
<1>1. run \in Run /\ NoSelection \in Selection
    BY DEF Inv, TypeOK, Run, Selection, NoSelection
<1>2. Start(run) /\ EmitInspecting(f, prior)
    BY DEF Inspect
<1>3. /\ jobSeq' \in Nat /\ jobs' \in [Id -> Run \cup {None}]
      /\ JobsInOrder' /\ Running' /\ jobs'[jobSeq'] = run
    BY <1>1, <1>2, StartStep DEF Inv
<1>4. PlansCoherent' /\ table' = None /\ decisions' \in Decisions
    BY <1>2, NoReviewCoherent DEF EmitInspecting
<1>5. TypeOK'
    BY <1>1, <1>2, <1>3, <1>4 DEF EmitInspecting, Forget, Inv, TypeOK, Stage
<1>6. StageOfJob'
    BY <1>2, <1>3, InputAssumption
       DEF EmitInspecting, StageOfJob, Working, InputAssumption
<1>7. ConsentKept'
    BY <1>2, <1>3, NoneAssumption, InputAssumption
       DEF EmitInspecting, Forget, ConsentKept, NoSelection, NoneAssumption, InputAssumption
<1> QED
    BY <1>3, <1>4, <1>5, <1>6, <1>7 DEF Inv

-----------------------------------------------------------------------------
(* The configure stage                                                     *)

(* A sheet that is selected is visible, or one of the opt-ins.             *)
LEMMA SelectInv ==
    ASSUME Inv, NEW sheet \in Sheet, NEW opts \in SUBSET Hidden,
           Inspected, Select(sheet, opts),
           opts \subseteq consent', consent \subseteq consent', consent' \subseteq Hidden
    PROVE  Inv'
<1> DEFINE sel == [selection EXCEPT !.sheet = sheet, !.row = None,
                                    !.allowHidden = (sheet \in Hidden)]
           run == [step |-> "inspect", file |-> file, selection |-> sel,
                   inspected |-> None, opted |-> opts, prior |-> prior]
<1>1. /\ sel \in Selection /\ sel.sheet = sheet
      /\ sel.allowHidden = TRUE \/ sheet \notin Hidden
  <2>1. CASE sheet \in Hidden
    <3>1. sel = [selection EXCEPT !.sheet = sheet, !.row = None, !.allowHidden = TRUE]
        BY <2>1
    <3> HIDE DEF sel
    <3> QED
        BY <3>1 DEF Inv, TypeOK, Selection
  <2>2. CASE sheet \notin Hidden
    <3>1. (sheet \in Hidden) = FALSE
        BY <2>2
    <3>2. sel = [selection EXCEPT !.sheet = sheet, !.row = None, !.allowHidden = FALSE]
        BY <3>1
    <3> HIDE DEF sel
    <3> QED
        BY <2>2, <3>2 DEF Inv, TypeOK, Selection
  <2> QED
      BY <2>1, <2>2
<1>2. run \in Run
    BY <1>1 DEF Inv, TypeOK, StageOfJob, Inspected, Configuring, Run
<1>3. /\ Start(run) /\ EmitConfigure(file, prior, inspected, sel, opts, TRUE)
      /\ sheet \in Hidden => sheet \in opts
    BY DEF Select, Inspect
<1>4. /\ jobSeq' \in Nat /\ jobs' \in [Id -> Run \cup {None}]
      /\ JobsInOrder' /\ Running' /\ jobs'[jobSeq'] = run
    BY <1>2, <1>3, StartStep DEF Inv
<1>5. PlansCoherent' /\ table' = None /\ decisions' \in Decisions
    BY <1>3, NoReviewCoherent DEF EmitConfigure
<1>6. TypeOK'
    BY <1>1, <1>3, <1>4, <1>5 DEF EmitConfigure, Inv, TypeOK, Stage
<1>7. StageOfJob'
    BY <1>3, <1>4 DEF EmitConfigure, Inv, StageOfJob, Working, Inspected, Configuring
<1>8. ConsentKept'
  <2>1. /\ opted' = opts /\ selection' = sel /\ inspected' = inspected /\ retryStep' = None
        /\ stage' = "configure"
      BY <1>3 DEF EmitConfigure
  <2>2. Consented(selection)'
    <3> HIDE DEF sel
    <3> QED
        BY <1>1, <1>3, <2>1 DEF Consented
  <2>3. jobs'[jobSeq'].selection.sheet = sheet /\ jobs'[jobSeq'].step = "inspect"
        /\ jobs'[jobSeq'].opted = opts
    <3>1. sel.sheet = sheet
        BY <1>1
    <3> HIDE DEF sel
    <3> QED
        BY <1>4, <3>1
  <2> QED
      BY <1>3, <2>1, <2>2, <2>3, NoneAssumption DEF ConsentKept, NoneAssumption
<1> QED
    BY <1>4, <1>5, <1>6, <1>7, <1>8 DEF Inv

(* Withdrawing an opt-in withdraws the sheet that was selected by it.      *)
LEMMA RevokeInv ==
    ASSUME Inv, NEW sheet \in Sheet, RevokeHiddenSheet(sheet)
    PROVE  Inv'
<1> DEFINE sel == IF selection.sheet = sheet
                  THEN [selection EXCEPT !.sheet = DefaultSheet, !.allowHidden = FALSE]
                  ELSE selection
<1> USE InputAssumption, NoneAssumption DEF InputAssumption, NoneAssumption
<1>1. /\ EmitConfigure(file, prior, inspected, sel, opted \ {sheet}, busy)
      /\ Inspected /\ sheet \in opted /\ consent' = consent \ {sheet}
      /\ jobSeq' = jobSeq /\ jobs' = jobs
    BY DEF RevokeHiddenSheet
<1>2. sel \in Selection
    BY DEF Inv, TypeOK, Selection
<1>3. PlansCoherent' /\ table' = None /\ decisions' \in Decisions
    BY <1>1, NoReviewCoherent DEF EmitConfigure
<1>4. TypeOK'
    BY <1>1, <1>2, <1>3 DEF EmitConfigure, Inv, TypeOK, Stage
<1>5. ~Running /\ ~Running'
    BY <1>1 DEF Inv, StageOfJob, Working, Inspected, Configuring, Running
<1>6. StageOfJob'
    BY <1>1, <1>5 DEF EmitConfigure, Inv, StageOfJob, Working, Inspected, Configuring
<1>7. Consented(selection)'
  <2>1. CASE selection.sheet = sheet
      BY <1>1, <2>1 DEF EmitConfigure, Inv, TypeOK, Selection, Consented
  <2>2. CASE selection.sheet # sheet
      BY <1>1, <2>2 DEF EmitConfigure, Inv, ConsentKept, Consented, Inspected
  <2> QED
      BY <2>1, <2>2
<1>8. ConsentKept'
    BY <1>1, <1>5, <1>7 DEF EmitConfigure, Inv, ConsentKept
<1> QED
    BY <1>1, <1>3, <1>4, <1>6, <1>8 DEF Inv, JobsInOrder

(* The delimiter that was chosen is tried on the default sheet.            *)
LEMMA DelimiterInv ==
    ASSUME Inv, ChooseDelimiter
    PROVE  Inv'
<1> DEFINE sel == [NoSelection EXCEPT !.delimiter = TRUE]
           run == [step |-> "inspect", file |-> file, selection |-> sel,
                   inspected |-> None, opted |-> opted, prior |-> prior]
<1>1. /\ sel \in Selection /\ sel.sheet = None
      /\ run \in Run
    BY DEF Inv, TypeOK, StageOfJob, Configuring, ChooseDelimiter, NoSelection, Selection, Run
<1>2. /\ Start(run) /\ EmitConfigure(file, prior, inspected, selection, opted, TRUE)
      /\ Configuring /\ inspected = None /\ consent' = consent
    BY DEF ChooseDelimiter, Inspect
<1>3. /\ jobSeq' \in Nat /\ jobs' \in [Id -> Run \cup {None}]
      /\ JobsInOrder' /\ Running' /\ jobs'[jobSeq'] = run
    BY <1>1, <1>2, StartStep DEF Inv
<1>4. PlansCoherent' /\ table' = None /\ decisions' \in Decisions
    BY <1>2, NoReviewCoherent DEF EmitConfigure
<1>5. TypeOK'
    BY <1>2, <1>3, <1>4 DEF EmitConfigure, Inv, TypeOK, Stage
<1>6. StageOfJob'
    BY <1>2, <1>3 DEF EmitConfigure, Inv, StageOfJob, Working, Configuring
<1>7. ConsentKept'
  <2>1. jobs'[jobSeq'].step = "inspect" /\ jobs'[jobSeq'].opted = opted
      BY <1>3
  <2>2. jobs'[jobSeq'].selection.sheet \notin Hidden
    <3>1. jobs'[jobSeq'].selection = sel
        BY <1>3
    <3> HIDE DEF sel
    <3> QED
        BY <1>1, <3>1, InputAssumption DEF InputAssumption
  <2> QED
      BY <1>2, <2>1, <2>2, NoneAssumption
         DEF EmitConfigure, Inv, ConsentKept, NoneAssumption
<1> QED
    BY <1>3, <1>4, <1>5, <1>6, <1>7 DEF Inv

LEMMA HeaderRowInv ==
    ASSUME Inv, NEW row \in Row, SetHeaderRow(row)
    PROVE  Inv'
<1> DEFINE sel == [selection EXCEPT !.row = row]
<1>1. /\ EmitConfigure(file, prior, inspected, sel, opted, busy)
      /\ Inspected /\ UNCHANGED <<jobSeq, jobs, consent>>
    BY DEF SetHeaderRow
<1>2. /\ sel \in Selection
      /\ sel.sheet = selection.sheet /\ sel.allowHidden = selection.allowHidden
    BY DEF Inv, TypeOK, Selection
<1>3. PlansCoherent' /\ table' = None /\ decisions' \in Decisions
    BY <1>1, NoReviewCoherent DEF EmitConfigure
<1>4. TypeOK'
    BY <1>1, <1>2, <1>3 DEF EmitConfigure, Inv, TypeOK, Stage
<1>5. ~Running /\ ~Running'
    BY <1>1 DEF Inv, StageOfJob, Working, Inspected, Configuring, Running
<1>6. StageOfJob'
    BY <1>1, <1>5 DEF EmitConfigure, Inv, StageOfJob, Working, Inspected, Configuring
<1>7. ConsentKept'
    BY <1>1, <1>2, <1>5, NoneAssumption
       DEF EmitConfigure, Inv, ConsentKept, Consented, Inspected, NoneAssumption
<1> QED
    BY <1>1, <1>3, <1>4, <1>6, <1>7 DEF Inv, JobsInOrder

(* A sheet that was inspected is parsed as it is selected.                 *)
LEMMA ParseInv ==
    ASSUME Inv, NEW opts \in SUBSET consent,
           stage \in {"configure", "error"}, inspected # None,
           EmitParsing(file, prior, inspected, selection),
           Parse(file, selection, inspected, opts, prior), consent' = consent
    PROVE  Inv'
<1> DEFINE run == [step |-> "parse", file |-> file, selection |-> selection,
                   inspected |-> inspected, opted |-> opts, prior |-> prior]
<1>1. run \in Run /\ Consented(selection)
    BY DEF Inv, TypeOK, StageOfJob, ConsentKept, Run
<1>2. Start(run)
    BY DEF Parse
<1>3. /\ jobSeq' \in Nat /\ jobs' \in [Id -> Run \cup {None}]
      /\ JobsInOrder' /\ Running' /\ jobs'[jobSeq'] = run
    BY <1>1, <1>2, StartStep DEF Inv
<1>4. PlansCoherent' /\ table' = None /\ decisions' \in Decisions
    BY NoReviewCoherent DEF EmitParsing
<1>5. TypeOK'
    BY <1>3, <1>4 DEF EmitParsing, Inv, TypeOK, Stage
<1>6. StageOfJob'
    BY <1>3 DEF EmitParsing, Inv, StageOfJob, Working
<1>7. ConsentKept'
    BY <1>1, <1>3, NoneAssumption
       DEF EmitParsing, ConsentKept, Consented, NoneAssumption
<1> QED
    BY <1>3, <1>4, <1>5, <1>6, <1>7 DEF Inv

-----------------------------------------------------------------------------
(* What the ports answer                                                   *)

(* A job that ends and is not the latest changes nothing that is on show.  *)
LEMMA StaleInv ==
    ASSUME Inv, NEW id \in Id, id # jobSeq,
           jobs' = [jobs EXCEPT ![id] = None], UNCHANGED <<shown, jobSeq, consent>>
    PROVE  Inv'
<1>1. jobSeq > 0 => jobs'[jobSeq] = jobs[jobSeq]
    BY DEF Inv, TypeOK, JobsInOrder, Id
<1>2. TypeOK' /\ JobsInOrder'
    BY DEF Inv, TypeOK, JobsInOrder, shown
<1>3. StageOfJob'
    BY <1>1 DEF Inv, StageOfJob, Working, Running, shown
<1>4. ConsentKept'
    BY <1>1 DEF Inv, ConsentKept, Consented, Running, shown
<1>5. PlansCoherent'
    BY DEF Inv, PlansCoherent, Coherent, shown
<1> QED
    BY <1>2, <1>3, <1>4, <1>5 DEF Inv

(* The latest job is of the file on show, and none is at work once it ends.*)
LEMMA LatestEnds ==
    ASSUME Inv, NEW id \in Id, id = jobSeq, jobs[id] # None,
           jobs' = [jobs EXCEPT ![id] = None], jobSeq' = jobSeq
    PROVE  /\ jobs[id] \in Run /\ Running
           /\ jobs[id].file = file /\ jobs[id].prior = prior
           /\ jobs' \in [Id -> Run \cup {None}] /\ JobsInOrder' /\ ~Running'
<1>1. jobs[id] \in Run /\ Running
    BY DEF Inv, TypeOK, Running, Id
<1>2. jobs[id].file = file /\ jobs[id].prior = prior
    BY <1>1 DEF Inv, StageOfJob
<1>3. jobs' \in [Id -> Run \cup {None}] /\ JobsInOrder'
    BY DEF Inv, TypeOK, JobsInOrder
<1>4. ~Running'
    BY DEF Inv, TypeOK, Running
<1> QED
    BY <1>1, <1>2, <1>3, <1>4

LEMMA InspectSucceedsInv ==
    ASSUME Inv, NEW id \in Id, InspectSucceeds(id)
    PROVE  Inv'
<1> DEFINE run == jobs[id]
           sheet == Target(run.selection)
           sel == [run.selection EXCEPT !.sheet = sheet, !.allowHidden = (sheet \in Hidden)]
<1>1. /\ run # None /\ run.step = "inspect"
      /\ jobs' = [jobs EXCEPT ![id] = None] /\ UNCHANGED <<jobSeq, consent>>
    BY DEF InspectSucceeds, Ends
<1>2. CASE id # jobSeq
    BY <1>1, <1>2, StaleInv DEF InspectSucceeds, Latest
<1>3. CASE id = jobSeq
  <2>1. EmitConfigure(run.file, run.prior, sheet, sel, run.opted, FALSE)
      BY <1>3 DEF InspectSucceeds, Latest
  <2>2. /\ run \in Run /\ Running /\ run.file = file /\ run.prior = prior
        /\ jobs' \in [Id -> Run \cup {None}] /\ JobsInOrder' /\ ~Running'
      BY <1>1, <1>3, LatestEnds
  <2>3. /\ run.selection \in Selection /\ sheet \in Sheet
        /\ sheet \in Hidden => sheet \in consent
      BY <1>3, <2>2, InputAssumption
         DEF Inv, ConsentKept, Run, Selection, Target, InputAssumption
  <2>4. /\ sel \in Selection /\ sel.sheet = sheet
        /\ sel.allowHidden = TRUE \/ sheet \notin Hidden
    <3> HIDE DEF sheet, run
    <3>1. CASE sheet \in Hidden
      <4>1. sel = [run.selection EXCEPT !.sheet = sheet, !.allowHidden = TRUE]
          BY <3>1
      <4> HIDE DEF sel
      <4> QED
          BY <2>3, <4>1 DEF Selection
    <3>2. CASE sheet \notin Hidden
      <4>1. (sheet \in Hidden) = FALSE
          BY <3>2
      <4>2. sel = [run.selection EXCEPT !.sheet = sheet, !.allowHidden = FALSE]
          BY <4>1
      <4> HIDE DEF sel
      <4> QED
          BY <2>3, <3>2, <4>2 DEF Selection
    <3> QED
        BY <3>1, <3>2
  <2> HIDE DEF sheet, sel
  <2>5. PlansCoherent' /\ table' = None /\ decisions' \in Decisions
      BY <2>1, <2>2, NoReviewCoherent DEF EmitConfigure
  <2>6. TypeOK'
      BY <1>1, <2>1, <2>2, <2>3, <2>4, <2>5 DEF EmitConfigure, Inv, TypeOK, Stage, Run
  <2>7. StageOfJob'
      BY <2>1, <2>2, InputAssumption DEF EmitConfigure, StageOfJob, Working, Run, InputAssumption
  <2>8. ConsentKept'
      BY <1>1, <1>3, <2>1, <2>2, <2>3, <2>4, NoneAssumption
         DEF EmitConfigure, Inv, ConsentKept, Consented, NoneAssumption
  <2> QED
      BY <2>2, <2>5, <2>6, <2>7, <2>8 DEF Inv
<1> QED
    BY <1>2, <1>3

(* The delimiter is asked for: nothing is inspected.                       *)
LEMMA InspectAmbiguousInv ==
    ASSUME Inv, NEW id \in Id, InspectAmbiguous(id)
    PROVE  Inv'
<1> DEFINE run == jobs[id]
           sel == [NoSelection EXCEPT !.sheet = run.selection.sheet]
<1>1. /\ run # None /\ run.step = "inspect"
      /\ jobs' = [jobs EXCEPT ![id] = None] /\ UNCHANGED <<jobSeq, consent>>
    BY DEF InspectAmbiguous, Ends
<1>2. CASE id # jobSeq
    BY <1>1, <1>2, StaleInv DEF InspectAmbiguous, Latest
<1>3. CASE id = jobSeq
  <2>1. EmitConfigure(run.file, run.prior, None, sel, run.opted, FALSE)
      BY <1>3 DEF InspectAmbiguous, Latest
  <2>2. /\ run \in Run /\ Running /\ run.file = file /\ run.prior = prior
        /\ jobs' \in [Id -> Run \cup {None}] /\ JobsInOrder' /\ ~Running'
      BY <1>1, <1>3, LatestEnds
  <2>3. sel \in Selection
      BY <2>2 DEF Run, Selection, NoSelection
  <2> HIDE DEF sel
  <2>4. PlansCoherent' /\ table' = None /\ decisions' \in Decisions
      BY <2>1, <2>2, NoReviewCoherent DEF EmitConfigure
  <2>5. TypeOK'
      BY <1>1, <2>1, <2>2, <2>3, <2>4 DEF EmitConfigure, Inv, TypeOK, Stage, Run
  <2>6. StageOfJob'
      BY <2>1, <2>2, InputAssumption DEF EmitConfigure, StageOfJob, Working, Run, InputAssumption
  <2>7. ConsentKept'
      BY <1>1, <1>3, <2>1, <2>2, NoneAssumption
         DEF EmitConfigure, Inv, ConsentKept, NoneAssumption
  <2> QED
      BY <2>2, <2>4, <2>5, <2>6, <2>7 DEF Inv
<1> QED
    BY <1>2, <1>3

(* A failed inspection shows its error with nothing inspected.             *)
LEMMA InspectFailsInv ==
    ASSUME Inv, NEW id \in Id, InspectFails(id)
    PROVE  Inv'
<1> DEFINE run == [jobs[id] EXCEPT !.inspected = None, !.selection = NoSelection]
<1>1. /\ jobs[id] # None /\ jobs[id].step = "inspect"
      /\ jobs' = [jobs EXCEPT ![id] = None] /\ UNCHANGED <<jobSeq, consent>>
    BY DEF InspectFails, Ends
<1>2. CASE id # jobSeq
    BY <1>1, <1>2, StaleInv DEF InspectFails, Latest
<1>3. CASE id = jobSeq
  <2>1. EmitError(run, "inspect")
      BY <1>3 DEF InspectFails, Latest
  <2>2. /\ jobs[id] \in Run /\ Running /\ jobs[id].file = file /\ jobs[id].prior = prior
        /\ jobs' \in [Id -> Run \cup {None}] /\ JobsInOrder' /\ ~Running'
      BY <1>1, <1>3, LatestEnds
  <2>3. /\ run.file = file /\ run.prior = prior /\ file \in File
        /\ run.inspected = None /\ run.selection = NoSelection
        /\ NoSelection \in Selection
      BY <2>2 DEF Run, Selection, NoSelection
  <2> HIDE DEF run
  <2>4. PlansCoherent' /\ table' = None /\ decisions' \in Decisions
      BY <2>1, <2>3, NoReviewCoherent DEF EmitError
  <2>5. TypeOK'
      BY <1>1, <2>1, <2>2, <2>3, <2>4 DEF EmitError, Inv, TypeOK, Stage
  <2>6. StageOfJob'
      BY <2>1, <2>2, <2>3, InputAssumption DEF EmitError, StageOfJob, Working, InputAssumption
  <2>7. ConsentKept'
      BY <2>1, <2>2, <2>3 DEF EmitError, ConsentKept
  <2> QED
      BY <2>2, <2>4, <2>5, <2>6, <2>7 DEF Inv
<1> QED
    BY <1>2, <1>3

(* The latest job goes on to profile the table that it parsed.             *)
LEMMA ParseSucceedsInv ==
    ASSUME Inv, NEW id \in Id, ParseSucceeds(id)
    PROVE  Inv'
<1>1. /\ jobs[id] # None /\ jobs[id].step = "parse"
      /\ jobs[id] \in Run
      /\ UNCHANGED <<shown, jobSeq, consent>>
    BY DEF ParseSucceeds, Inv, TypeOK
<1>2. CASE id # jobSeq
    BY <1>1, <1>2, StaleInv DEF ParseSucceeds, Latest
<1>3. CASE id = jobSeq
  <2> DEFINE run == [jobs[id] EXCEPT !.step = "profile"]
  <2>1. jobs' = [jobs EXCEPT ![id] = run] /\ jobs'[jobSeq'] = run
      BY <1>1, <1>3 DEF ParseSucceeds, Latest, Inv, TypeOK
  <2>2. /\ run \in Run /\ run # None /\ run.step = "profile"
        /\ run.file = jobs[id].file /\ run.prior = jobs[id].prior
        /\ run.inspected = jobs[id].inspected /\ run.opted = jobs[id].opted
        /\ run.selection = jobs[id].selection
      BY <1>1, NoneAssumption DEF Run, NoneAssumption
  <2> HIDE DEF run
  <2>3. Running /\ Running'
      BY <1>1, <1>3, <2>1, <2>2 DEF Running, Id
  <2>4. TypeOK' /\ JobsInOrder'
      BY <1>1, <1>3, <2>1, <2>2 DEF Inv, TypeOK, JobsInOrder, shown
  <2>5. StageOfJob'
      BY <1>1, <1>3, <2>1, <2>2, <2>3 DEF Inv, StageOfJob, Working, shown
  <2>6. ConsentKept'
      BY <1>1, <1>3, <2>1, <2>2, <2>3 DEF Inv, ConsentKept, Consented, shown
  <2>7. PlansCoherent'
      BY <1>1 DEF Inv, PlansCoherent, Coherent, shown
  <2> QED
      BY <2>4, <2>5, <2>6, <2>7 DEF Inv
<1> QED
    BY <1>2, <1>3

(* The table is reviewed with the sheet inspected and the opt-ins of its   *)
(* job.                                                                    *)
LEMMA ProfileSucceedsInv ==
    ASSUME Inv, NEW id \in Id, ProfileSucceeds(id)
    PROVE  Inv'
<1> DEFINE run == jobs[id]
<1>1. /\ run # None /\ run.step = "profile"
      /\ jobs' = [jobs EXCEPT ![id] = None] /\ UNCHANGED <<jobSeq, consent>>
    BY DEF ProfileSucceeds, Ends
<1>2. CASE id # jobSeq
    BY <1>1, <1>2, StaleInv DEF ProfileSucceeds, Latest
<1>3. CASE id = jobSeq
  <2>1. EmitReview(run)
      BY <1>3 DEF ProfileSucceeds, Latest
  <2>2. /\ run \in Run /\ Running /\ run.file = file /\ run.prior = prior
        /\ jobs' \in [Id -> Run \cup {None}] /\ JobsInOrder' /\ ~Running'
      BY <1>1, <1>3, LatestEnds
  <2>3. /\ run.inspected # None /\ run.opted \subseteq consent
        /\ Consented(run.selection)
      BY <1>1, <1>3, <2>2 DEF Inv, ConsentKept
  <2>4. /\ file \in File /\ run.selection \in Selection
        /\ table' = [file |-> run.file, selection |-> run.selection]
        /\ table' \in Table /\ table' # None
      BY <2>1, <2>2, NoneAssumption DEF EmitReview, Run, Table, NoneAssumption
  <2>5. PlansCoherent' /\ decisions' \in Decisions
      BY <2>1, <2>2, InputAssumption
         DEF EmitReview, Inv, PlansCoherent, Coherent, EmptyDecisions, Decisions, InputAssumption
  <2>6. TypeOK'
      BY <1>1, <2>1, <2>2, <2>4, <2>5 DEF EmitReview, Inv, TypeOK, Stage, Run
  <2>7. StageOfJob'
      BY <2>1, <2>2, <2>4, InputAssumption DEF EmitReview, StageOfJob, Working, InputAssumption
  <2>8. ConsentKept'
      BY <1>1, <2>1, <2>2, <2>3, NoneAssumption
         DEF EmitReview, ConsentKept, Consented, NoneAssumption
  <2> QED
      BY <2>2, <2>5, <2>6, <2>7, <2>8 DEF Inv
<1> QED
    BY <1>2, <1>3

(* The error of a failed parse keeps what a retry needs.                   *)
LEMMA ParseFailsInv ==
    ASSUME Inv, NEW id \in Id, ParseFails(id)
    PROVE  Inv'
<1> DEFINE run == jobs[id]
<1>1. /\ run # None /\ run.step \in {"parse", "profile"}
      /\ jobs' = [jobs EXCEPT ![id] = None] /\ UNCHANGED <<jobSeq, consent>>
    BY DEF ParseFails, Ends
<1>2. CASE id # jobSeq
    BY <1>1, <1>2, StaleInv DEF ParseFails, Latest
<1>3. CASE id = jobSeq
  <2>1. EmitError(run, "parse")
      BY <1>3 DEF ParseFails, Latest
  <2>2. /\ run \in Run /\ Running /\ run.file = file /\ run.prior = prior
        /\ jobs' \in [Id -> Run \cup {None}] /\ JobsInOrder' /\ ~Running'
      BY <1>1, <1>3, LatestEnds
  <2>3. /\ run.inspected # None /\ Consented(run.selection)
        /\ file \in File /\ run.selection \in Selection
      BY <1>1, <1>3, <2>2 DEF Inv, ConsentKept, Run
  <2>4. PlansCoherent' /\ table' = None /\ decisions' \in Decisions
      BY <2>1, <2>2, NoReviewCoherent DEF EmitError
  <2>5. TypeOK'
      BY <1>1, <2>1, <2>2, <2>3, <2>4 DEF EmitError, Inv, TypeOK, Stage, Run
  <2>6. StageOfJob'
      BY <2>1, <2>2, <2>3, InputAssumption DEF EmitError, StageOfJob, Working, InputAssumption
  <2>7. ConsentKept'
      BY <1>1, <2>1, <2>2, <2>3 DEF EmitError, ConsentKept, Consented
  <2> QED
      BY <2>2, <2>4, <2>5, <2>6, <2>7 DEF Inv
<1> QED
    BY <1>2, <1>3

(* The drop zone is shown again, and no job is at work.                    *)
LEMMA IdleInv ==
    ASSUME Inv, EmitIdle(prior), consent' = consent, ~Running',
           JobsInOrder', jobs' \in [Id -> Run \cup {None}], jobSeq' \in Nat
    PROVE  Inv'
<1>1. PlansCoherent' /\ table' = None /\ decisions' \in Decisions
    BY NoReviewCoherent DEF EmitIdle
<1>2. TypeOK'
    BY <1>1 DEF EmitIdle, Forget, Inv, TypeOK, Stage, NoSelection, Selection
<1>3. StageOfJob'
    BY DEF EmitIdle, StageOfJob, Working
<1>4. ConsentKept'
    BY NoneAssumption DEF EmitIdle, Forget, ConsentKept, NoneAssumption
<1> QED
    BY <1>1, <1>2, <1>3, <1>4 DEF Inv

LEMMA PortCancelledInv ==
    ASSUME Inv, NEW id \in Id, PortCancelled(id)
    PROVE  Inv'
<1>1. /\ jobs[id] # None
      /\ jobs' = [jobs EXCEPT ![id] = None] /\ UNCHANGED <<jobSeq, consent>>
    BY DEF PortCancelled, Ends
<1>2. CASE id # jobSeq
    BY <1>1, <1>2, StaleInv DEF PortCancelled, Latest
<1>3. CASE id = jobSeq
  <2>1. EmitIdle(jobs[id].prior)
      BY <1>3 DEF PortCancelled, Latest
  <2>2. /\ jobs[id].prior = prior
        /\ jobs' \in [Id -> Run \cup {None}] /\ JobsInOrder' /\ ~Running'
      BY <1>1, <1>3, LatestEnds
  <2> QED
      BY <1>1, <2>1, <2>2, IdleInv DEF Inv, TypeOK
<1> QED
    BY <1>2, <1>3

-----------------------------------------------------------------------------
(* The review stage                                                        *)

(* No job is at work while a table is reviewed.                            *)
LEMMA ReviewIdle ==
    ASSUME Inv, stage = "review"
    PROVE  ~Working /\ ~Running /\ table \in Table
BY DEF Inv, TypeOK, StageOfJob, Working

LEMMA DecideInv ==
    ASSUME Inv, NEW d \in Decisions, Coherent(d), Decide(d)
    PROVE  Inv'
<1>1. TypeOK' /\ JobsInOrder'
    BY DEF Decide, Inv, TypeOK, JobsInOrder
<1>2. StageOfJob'
    BY DEF Decide, Inv, StageOfJob, Working, Running
<1>3. ConsentKept'
    BY DEF Decide, Inv, ConsentKept, Consented, Running
<1>4. PlansCoherent'
    BY DEF Decide, Inv, PlansCoherent, Coherent
<1> QED
    BY <1>1, <1>2, <1>3, <1>4 DEF Inv

(* A checkbox is of an issue that no column decision governs.              *)
LEMMA ToggleIssueInv ==
    ASSUME Inv, NEW issue \in Issue, ToggleIssue(issue)
    PROVE  Inv'
<1>1. PICK approved \in {decisions.approved \cup {issue}, decisions.approved \ {issue}} :
          Decide([decisions EXCEPT !.approved = approved])
    BY DEF ToggleIssue
<1> DEFINE d == [decisions EXCEPT !.approved = approved]
<1>2. d \in Decisions
    BY <1>1 DEF Inv, TypeOK, Decisions
<1>3. Coherent(d)
    BY <1>1 DEF ToggleIssue, Inv, TypeOK, Decisions, PlansCoherent, Coherent
<1> QED
    BY <1>1, <1>2, <1>3, DecideInv

(* A decision on the type of a column takes the issues of that column along*)
LEMMA ColumnInv ==
    ASSUME Inv, NEW column \in Column,
           ConfirmColumn(column) \/ DowngradeColumnToText(column)
    PROVE  Inv'
<1> USE InputAssumption DEF InputAssumption, Inv, TypeOK, Decisions, PlansCoherent, Coherent, Of
<1>1. CASE ConfirmColumn(column)
  <2> DEFINE d == [decisions EXCEPT !.overrides[column] = "confirmed",
                                    !.approved = @ \cup Of(column, ConfirmType)]
  <2>1. d \in Decisions /\ Decide(d)
      BY <1>1 DEF ConfirmColumn
  <2>2. /\ d.approved = decisions.approved \cup Of(column, ConfirmType)
        /\ d.cache = decisions.cache
        /\ d.overrides = [decisions.overrides EXCEPT ![column] = "confirmed"]
      OBVIOUS
  <2> HIDE DEF d
  <2>3. Coherent(d)
      BY <2>2
  <2> QED
      BY <2>1, <2>3, DecideInv
<1>2. CASE DowngradeColumnToText(column)
  <2> DEFINE d == [decisions EXCEPT !.overrides[column] = "text",
                                    !.approved = @ \ Of(column, ConfirmType)]
  <2>1. d \in Decisions /\ Decide(d)
      BY <1>2 DEF DowngradeColumnToText
  <2>2. /\ d.approved = decisions.approved \ Of(column, ConfirmType)
        /\ d.cache = decisions.cache
        /\ d.overrides = [decisions.overrides EXCEPT ![column] = "text"]
      OBVIOUS
  <2> HIDE DEF d
  <2>3. Coherent(d)
      BY <2>2
  <2> QED
      BY <2>1, <2>3, DecideInv
<1> QED
    BY <1>1, <1>2

(* A consent to the caches of a column takes its issues along.             *)
LEMMA CacheInv ==
    ASSUME Inv, NEW column \in Column, ToggleFormulaCache(column)
    PROVE  Inv'
<1> USE InputAssumption DEF InputAssumption, Inv, TypeOK, Decisions, PlansCoherent, Coherent, Of
<1>1. CASE column \in decisions.cache
  <2> DEFINE d == [decisions EXCEPT !.cache = @ \ {column},
                                    !.approved = @ \ Of(column, UseCache)]
  <2>1. d \in Decisions /\ Decide(d)
      BY <1>1 DEF ToggleFormulaCache
  <2>2. /\ d.approved = decisions.approved \ Of(column, UseCache)
        /\ d.cache = decisions.cache \ {column} /\ d.overrides = decisions.overrides
      OBVIOUS
  <2> HIDE DEF d
  <2>3. Coherent(d)
      BY <2>2
  <2> QED
      BY <2>1, <2>3, DecideInv
<1>2. CASE column \notin decisions.cache
  <2> DEFINE d == [decisions EXCEPT !.cache = @ \cup {column},
                                    !.approved = @ \cup Of(column, UseCache)]
  <2>1. d \in Decisions /\ Decide(d)
      BY <1>2 DEF ToggleFormulaCache
  <2>2. /\ d.approved = decisions.approved \cup Of(column, UseCache)
        /\ d.cache = decisions.cache \cup {column} /\ d.overrides = decisions.overrides
      OBVIOUS
  <2> HIDE DEF d
  <2>3. Coherent(d)
      BY <2>2
  <2> QED
      BY <2>1, <2>3, DecideInv
<1> QED
    BY <1>1, <1>2

LEMMA EditSelectionInv ==
    ASSUME Inv, EditSelection
    PROVE  Inv'
<1>1. /\ EmitConfigure(file, prior, inspected, selection, opted, FALSE)
      /\ stage = "review" /\ UNCHANGED <<jobSeq, jobs, consent>>
    BY DEF EditSelection
<1>2. ~Running /\ ~Running'
    BY <1>1, ReviewIdle DEF Running
<1>3. PlansCoherent' /\ table' = None /\ decisions' \in Decisions
    BY <1>1, NoReviewCoherent DEF EmitConfigure
<1>4. TypeOK' /\ JobsInOrder'
    BY <1>1, <1>3 DEF EmitConfigure, Inv, TypeOK, JobsInOrder, Stage
<1>5. StageOfJob'
    BY <1>1, <1>2 DEF EmitConfigure, Inv, StageOfJob, Working
<1>6. ConsentKept'
    BY <1>1, <1>2, NoneAssumption
       DEF EmitConfigure, Inv, ConsentKept, Consented, NoneAssumption
<1> QED
    BY <1>3, <1>4, <1>5, <1>6 DEF Inv

(* The plan submitted is that of the table under review.                   *)
LEMMA SubmitInv ==
    ASSUME Inv, Submit
    PROVE  Inv'
<1> DEFINE outcome == [table |-> table, plan |-> decisions]
<1>1. /\ EmitIdle(outcome) /\ stage = "review" /\ UNCHANGED <<jobSeq, jobs, consent>>
    BY DEF Submit
<1>2. ~Running' /\ outcome \in Outcome
    BY <1>1, ReviewIdle DEF Running, Inv, TypeOK, Outcome
<1>3. TypeOK' /\ JobsInOrder'
    BY <1>1, <1>2, InputAssumption
       DEF EmitIdle, Forget, NoReview, EmptyDecisions, NoSelection, Inv, TypeOK, JobsInOrder,
           Stage, Selection, Decisions, InputAssumption
<1>4. StageOfJob'
    BY <1>1, <1>2 DEF EmitIdle, StageOfJob, Working
<1>5. ConsentKept'
    BY <1>1, <1>2, NoneAssumption DEF EmitIdle, Forget, ConsentKept, NoneAssumption
<1>6. PlansCoherent'
    BY <1>1, InputAssumption
       DEF EmitIdle, NoReview, EmptyDecisions, Inv, PlansCoherent, Coherent, InputAssumption
<1> QED
    BY <1>3, <1>4, <1>5, <1>6 DEF Inv

-----------------------------------------------------------------------------
(* The idle stage, cancelling and retrying                                 *)

LEMMA AcceptInv ==
    ASSUME Inv, NEW f \in File, AcceptFile(f)
    PROVE  Inv'
<1>1. CASE prior = None
    BY <1>1, AnewInv DEF AcceptFile, Pick
<1>2. CASE prior # None
  <2>1. /\ stage \in {"idle", "confirm-replace"}
        /\ stage' = "confirm-replace" /\ file' = f
        /\ UNCHANGED <<prior, inspected, selection, opted, busy, table, decisions,
                       retryStep, jobSeq, jobs, consent>>
      BY <1>2 DEF AcceptFile
  <2>2. ~Running /\ ~Running'
      BY <2>1 DEF Inv, StageOfJob, Working, Running
  <2>3. TypeOK' /\ JobsInOrder'
      BY <2>1 DEF Inv, TypeOK, JobsInOrder, Stage
  <2>4. StageOfJob'
      BY <2>1, <2>2, InputAssumption DEF Inv, StageOfJob, Working, InputAssumption
  <2>5. ConsentKept'
      BY <2>1, <2>2 DEF Inv, ConsentKept, Consented
  <2>6. PlansCoherent'
      BY <2>1 DEF Inv, PlansCoherent, Coherent
  <2> QED
      BY <2>3, <2>4, <2>5, <2>6 DEF Inv
<1> QED
    BY <1>1, <1>2

(* Once the last job is cancelled, no other is the latest.                 *)
LEMMA CancelInv ==
    ASSUME Inv, Cancel
    PROVE  Inv'
<1>1. /\ jobSeq < MaxJobs /\ jobSeq' = jobSeq + 1 /\ EmitIdle(prior)
      /\ jobs' = jobs /\ consent' = consent
    BY DEF Cancel
<1>2. /\ JobsInOrder' /\ ~Running' /\ jobSeq' \in Nat
      /\ jobs' \in [Id -> Run \cup {None}]
    BY <1>1, InputAssumption DEF Inv, TypeOK, JobsInOrder, Running, Id, InputAssumption
<1> QED
    BY <1>1, <1>2, IdleInv

LEMMA DeclineInv ==
    ASSUME Inv, DeclineReplace
    PROVE  Inv'
<1>1. /\ stage = "confirm-replace" /\ EmitIdle(prior)
      /\ UNCHANGED <<jobSeq, jobs, consent>>
    BY DEF DeclineReplace
<1>2. ~Running'
    BY <1>1 DEF Inv, StageOfJob, Working, Running
<1>3. JobsInOrder' /\ jobs' \in [Id -> Run \cup {None}] /\ jobSeq' \in Nat
    BY <1>1 DEF Inv, TypeOK, JobsInOrder
<1> QED
    BY <1>1, <1>2, <1>3, IdleInv

LEMMA RetryInv ==
    ASSUME Inv, Retry
    PROVE  Inv'
<1>1. stage = "error" /\ file \in File /\ consent' = consent
    BY DEF Retry, Inv, TypeOK, StageOfJob
<1>2. CASE retryStep = "inspect"
    BY <1>1, <1>2, AnewInv DEF Retry, Inv, TypeOK
<1>3. CASE retryStep = "parse"
    BY <1>1, <1>3, ParseInv DEF Retry, Inv, ConsentKept
<1> QED
    BY <1>2, <1>3 DEF Retry

-----------------------------------------------------------------------------
(* The invariant                                                           *)

LEMMA InitInv == Init => Inv
<1> SUFFICES ASSUME Init PROVE Inv
    OBVIOUS
<1>1. TypeOK
  <2>1. NoSelection \in Selection /\ EmptyDecisions \in Decisions
      BY DEF NoSelection, Selection, EmptyDecisions, Decisions
  <2> QED
      BY <2>1 DEF Init, TypeOK, Stage
<1>2. JobsInOrder
    BY InputAssumption DEF Init, JobsInOrder, Id, InputAssumption
<1>3. StageOfJob
    BY DEF Init, StageOfJob, Working, Running
<1>4. ConsentKept
    BY NoneAssumption DEF Init, ConsentKept, Running, NoneAssumption
<1>5. PlansCoherent
    BY InputAssumption
       DEF Init, PlansCoherent, Coherent, EmptyDecisions, InputAssumption
<1> QED
    BY <1>1, <1>2, <1>3, <1>4, <1>5 DEF Inv

LEMMA NextInv == Inv /\ [Next]_vars => Inv'
<1> SUFFICES ASSUME Inv, [Next]_vars PROVE Inv'
    OBVIOUS
<1>1. ASSUME NEW id \in Id, Settles(id) PROVE Inv'
    BY <1>1, InspectSucceedsInv, InspectAmbiguousInv, InspectFailsInv, ParseSucceedsInv,
       ProfileSucceedsInv, ParseFailsInv, PortCancelledInv DEF Settles
<1>2. ASSUME NEW f \in File, AcceptFile(f) PROVE Inv'
    BY <1>2, AcceptInv
<1>3. CASE ConfirmReplace
  <2>1. file \in File
      BY <1>3 DEF ConfirmReplace, Inv, TypeOK, StageOfJob
  <2> QED
      BY <1>3, <2>1, AnewInv DEF ConfirmReplace, Pick
<1>4. CASE DeclineReplace
    BY <1>4, DeclineInv
<1>5. ASSUME NEW s \in Sheet, SelectSheet(s) PROVE Inv'
    BY <1>5, SelectInv DEF SelectSheet, Inv, TypeOK, ConsentKept
<1>6. ASSUME NEW s \in Sheet, OptIntoHiddenSheet(s) PROVE Inv'
  <2> DEFINE opts == opted \cup {s}
  <2>1. /\ opts \in SUBSET Hidden /\ opts \subseteq consent'
        /\ consent \subseteq consent' /\ consent' \subseteq Hidden
        /\ Inspected /\ Select(s, opts)
      BY <1>6 DEF OptIntoHiddenSheet, Inv, TypeOK, ConsentKept
  <2> HIDE DEF opts
  <2> QED
      BY <2>1, SelectInv
<1>7. ASSUME NEW s \in Sheet, RevokeHiddenSheet(s) PROVE Inv'
    BY <1>7, RevokeInv
<1>8. CASE ChooseDelimiter
    BY <1>8, DelimiterInv
<1>9. CASE Proceed
    BY <1>9, ParseInv DEF Proceed, Inspected, Configuring, Inv, ConsentKept
<1>10. ASSUME NEW row \in Row, SetHeaderRow(row) PROVE Inv'
    BY <1>10, HeaderRowInv
<1>11. ASSUME NEW i \in Issue, ToggleIssue(i) PROVE Inv'
    BY <1>11, ToggleIssueInv
<1>12. ASSUME NEW c \in Column,
              ConfirmColumn(c) \/ DowngradeColumnToText(c) \/ ToggleFormulaCache(c)
       PROVE  Inv'
    BY <1>12, ColumnInv, CacheInv
<1>13. CASE EditSelection
    BY <1>13, EditSelectionInv
<1>14. CASE Submit
    BY <1>14, SubmitInv
<1>15. CASE Cancel
    BY <1>15, CancelInv
<1>16. CASE Retry
    BY <1>16, RetryInv
<1>17. CASE UNCHANGED vars
  <2>1. TypeOK' /\ JobsInOrder'
      BY <1>17 DEF Inv, TypeOK, JobsInOrder, vars, shown
  <2>2. StageOfJob'
      BY <1>17 DEF Inv, StageOfJob, Working, Running, vars, shown
  <2>3. ConsentKept'
      BY <1>17 DEF Inv, ConsentKept, Consented, Running, vars, shown
  <2>4. PlansCoherent'
      BY <1>17 DEF Inv, PlansCoherent, Coherent, vars, shown
  <2> QED
      BY <2>1, <2>2, <2>3, <2>4 DEF Inv
<1> QED
    BY <1>1, <1>2, <1>3, <1>4, <1>5, <1>6, <1>7, <1>8, <1>9, <1>10, <1>11, <1>12, <1>13,
       <1>14, <1>15, <1>16, <1>17 DEF Next

LEMMA Invariance == Spec => []Inv
<1>1. Spec => Init /\ [][Next]_vars
    BY PTL DEF Spec
<1> QED
    BY <1>1, InitInv, NextInv, PTL

-----------------------------------------------------------------------------
(* The properties                                                          *)

(* A stage shows work exactly while the latest job is running, for the     *)
(* file on show, however late the jobs before it settle.                   *)
THEOREM StageFollows == Spec => []StageFollowsJob
<1>1. Inv => StageFollowsJob
  <2> SUFFICES ASSUME Inv PROVE StageFollowsJob
      OBVIOUS
  <2>1. TypeOK
      BY DEF Inv
  <2>2. CASE Working
      BY <2>1, <2>2 DEF Inv, StageOfJob, Running, StageFollowsJob
  <2>3. CASE ~Working
      BY <2>1, <2>3 DEF Inv, StageOfJob, Running, StageFollowsJob
  <2> QED
      BY <2>2, <2>3
<1> QED
    BY Invariance, <1>1, PTL

(* No hidden sheet is parsed or reviewed without the consent of the user.  *)
THEOREM Consent == Spec => []ParseConsented
<1>1. Inv => ParseConsented
    BY DEF Inv, ConsentKept, Consented, ParseConsented
<1> QED
    BY Invariance, <1>1, PTL

(* The plan submitted agrees with the decisions it was made of.            *)
THEOREM Coherence == Spec => []PlanCoherent
<1>1. Inv => PlanCoherent
    BY DEF Inv, PlansCoherent, Coherent, PlanCoherent
<1> QED
    BY Invariance, <1>1, PTL

(* The outcome submitted is replaced only by that of the table under       *)
(* review: a coroutine that ends restores the outcome it was started with, *)
(* which is the one on show while its job is the latest.                   *)
THEOREM OutcomeSurvives == Spec => PriorSurvives
<1> DEFINE Survives == prior' # prior => stage = "review" /\ prior'.table = table
<1>1. ASSUME Inv, [Next]_vars PROVE [Survives]_vars
  <2>1. ASSUME NEW id \in Id, Settles(id) PROVE prior' = prior
    <3>1. CASE id # jobSeq
        BY <2>1, <3>1 DEF Settles, InspectSucceeds, InspectAmbiguous, InspectFails,
           ParseSucceeds, ProfileSucceeds, ParseFails, PortCancelled, Latest, shown
    <3>2. CASE id = jobSeq
      <4>1. jobs[id] # None
          BY <2>1 DEF Settles, InspectSucceeds, InspectAmbiguous, InspectFails,
             ParseSucceeds, ProfileSucceeds, ParseFails, PortCancelled, Ends
      <4>2. jobs[id].prior = prior /\ jobs[id] \in Run
          BY <1>1, <3>2, <4>1 DEF Inv, TypeOK, StageOfJob, Running, Id
      <4>3. [jobs[id] EXCEPT !.inspected = None, !.selection = NoSelection].prior = prior
          BY <4>2 DEF Run
      <4> QED
          BY <2>1, <3>2, <4>2, <4>3
             DEF Settles, InspectSucceeds, InspectAmbiguous, InspectFails,
                 ParseSucceeds, ProfileSucceeds, ParseFails, PortCancelled, Latest, shown,
                 EmitConfigure, EmitError, EmitReview, EmitIdle
    <3> QED
        BY <3>1, <3>2
  <2>2. CASE Submit
      BY <2>2 DEF Submit, EmitIdle
  <2>3. CASE ~Submit /\ ~\E id \in Id : Settles(id)
    <3>1. prior' = prior
        BY <1>1, <2>3
           DEF Next, vars, shown, AcceptFile, Pick, ConfirmReplace, DeclineReplace, SelectSheet,
               OptIntoHiddenSheet, RevokeHiddenSheet, Select, ChooseDelimiter, Proceed,
               SetHeaderRow, ToggleIssue, ConfirmColumn, DowngradeColumnToText,
               ToggleFormulaCache, Decide, EditSelection, Cancel, Retry, EmitIdle,
               EmitInspecting, EmitConfigure, EmitParsing
    <3> QED
        BY <3>1
  <2> QED
      BY <2>1, <2>2, <2>3
<1>2. Inv /\ [Next]_vars => [Survives]_vars
    BY <1>1
<1>3. Spec => [][Next]_vars
    BY PTL DEF Spec
<1> QED
    BY Invariance, <1>2, <1>3, PTL DEF PriorSurvives
=============================================================================
