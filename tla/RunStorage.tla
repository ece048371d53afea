------------------------------- MODULE RunStorage -------------------------------
(***************************************************************************)
(* The runs of the laboratory on disk (src/src/storage): a directory of    *)
(* sections, each sealed once by a manifest and then entered in the run's  *)
(* append-only ledger, the verdict on its integrity, and the index that    *)
(* can be rebuilt from the records. The materialisation of a project's     *)
(* attempt (dev/lib/project-history.ts) writes through the same operations.*)
(* A digest stands for what it is the digest of.                           *)
(***************************************************************************)
EXTENDS Integers, Sequences, FiniteSets, SequencesExt

Sections == {"execution", "evaluation", "score"}

\* A section is sealed when its manifest exists; "listed" is what the manifest
\* lists. A ledger entry repeats the line before it as the start of its chain.
\* createRunDirectory: a directory is made once, and removed when it could not
\* be given its metadata.
NewRun ==
  [metadata |-> TRUE, files |-> [s \in Sections |-> {}], sealed |-> {},
   listed |-> [s \in Sections |-> {}], ledger |-> <<>>, record |-> FALSE]

\* createOrResumeRun: what a run that was begun lacks is written again.
CreateOrResume(runs, id) ==
  IF id \in DOMAIN runs THEN [runs EXCEPT ![id].metadata = TRUE]
  ELSE [r \in DOMAIN runs \cup {id} |-> IF r = id THEN NewRun ELSE runs[r]]

\* writeJsonOnce: an artifact is written once with one content.
WithFiles(run, section, names) == [run EXCEPT !.files[section] = @ \cup names]

--------------------------------------------------------------------------------
(* manifest.ts and finalize.ts.                                            *)

\* writeSectionManifest, which fails when the manifest exists.
WithManifest(run, section) ==
  [run EXCEPT !.sealed = @ \cup {section}, !.listed[section] = run.files[section]]

\* appendLedgerEntry, chained to the last line.
WithEntry(run, section) ==
  [run EXCEPT !.ledger =
     Append(@, [sequence |-> Len(@) + 1, section |-> section, digest |-> run.listed[section],
                previous |-> IF @ = <<>> THEN <<>> ELSE <<Last(@).section>>])]

Entered(run, section) == \E i \in DOMAIN run.ledger : run.ledger[i].section = section

\* resumeOrSeal: the writes sealing a section still takes, first to last. A
\* manifest that does not describe its section is never entered.
SealWrites(run, section) ==
  CASE section \notin run.sealed -> <<"manifest", "entry">>
    [] section \in run.sealed /\ run.listed[section] # run.files[section] -> <<"diverges">>
    [] OTHER -> IF Entered(run, section) THEN <<>> ELSE <<"entry">>

--------------------------------------------------------------------------------
(* integrity.ts.                                                           *)

\* verifyLedgerChain.
LedgerViolations(ledger) ==
  UNION {(IF ledger[i].sequence # i THEN {"LEDGER_SEQUENCE_BROKEN"} ELSE {}) \cup
         (IF ledger[i].previous # (IF i = 1 THEN <<>> ELSE <<ledger[i - 1].section>>)
            THEN {"LEDGER_CHAIN_BROKEN"} ELSE {}) : i \in DOMAIN ledger}

\* verifySection and verifyArtifacts, of what a ledger entry says.
SectionViolations(run, entry) ==
  LET listed == run.listed[entry.section]
      files  == run.files[entry.section]
  IN IF entry.section \notin run.sealed THEN {"MANIFEST_MISSING"}
     ELSE (IF listed # entry.digest THEN {"LEDGER_MANIFEST_MISMATCH"} ELSE {}) \cup
          (IF listed \subseteq files THEN {} ELSE {"ARTIFACT_MISSING"}) \cup
          (IF files \subseteq listed THEN {} ELSE {"ARTIFACT_UNEXPECTED"})

\* reportUnrecordedSections: a section that was never sealed is not reported.
Unrecorded(run) == {s \in run.sealed : ~Entered(run, s)}

\* verifyRunIntegrity.
Violations(run) ==
  IF run.ledger = <<>> THEN {"LEDGER_MISSING"}
  ELSE LedgerViolations(run.ledger) \cup
       UNION {SectionViolations(run, run.ledger[i]) : i \in DOMAIN run.ledger} \cup
       (IF Unrecorded(run) = {} THEN {} ELSE {"SECTION_UNRECORDED"})

Intact(run) == Violations(run) = {}

--------------------------------------------------------------------------------
(* sqlite-index.ts.                                                        *)

\* indexRun writes the record into the run and then the rows, task, trial, run.
WithRecord(run) == [run EXCEPT !.record = TRUE]

\* listRunRecords, and what RunIndex.rebuild would insert into an empty index:
\* every run with a record, whether or not it verifies.
Recorded(runs) == {id \in DOMAIN runs : runs[id].record}

================================================================================
