--------------------------- MODULE TatoebaImport ---------------------------
(* The import of the Tatoeba corpus (backend/internal/tatoeba/import.go,    *)
(* migration 0016).  A run has two phases, each over its own file and with  *)
(* its own checkpoint: the Russian sentences of the pairs, then the English *)
(* ones with their pairs, chosen among the Russian sentences of this run.   *)
(* Only the end of a run deletes.  The ids of the two languages differ.     *)
EXTENDS Integers, FiniteSets, SequencesExt

CONSTANTS
    Dump,             \* Dump[v]: the pairs <<en, ru>> and the lines of both files
    BatchLines,       \* lines of a transaction
    MaxTranslations,  \* pairs kept of an English sentence
    RunLimit,         \* bound: rows of tatoeba_imports
    NoJob             \* no import is running

(* A sentence has one language, so the ids of the two sides differ. *)
CorpusAssumption ==
    /\ BatchLines \in Nat \ {0} /\ MaxTranslations \in Nat /\ RunLimit \in Nat
    /\ Dump \in Seq(Range(Dump)) /\ Dump # <<>>
    /\ \A v \in DOMAIN Dump :
          /\ Dump[v].pairs \subseteq Nat \X Nat
          /\ Dump[v].ru \in Seq(Nat) /\ Dump[v].en \in Seq(Nat)
          /\ {p[1] : p \in Dump[v].pairs} \cap Range(Dump[v].ru) = {}
          /\ {p[2] : p \in Dump[v].pairs} \cap Range(Dump[v].en) = {}
          /\ Range(Dump[v].ru) \cap Range(Dump[v].en) = {}

VARIABLES
    version,    \* the export now published
    runs,       \* the rows of tatoeba_imports; a run's id is its index
    sentences,  \* tatoeba_sentences: id -> import_id
    links,      \* tatoeba_links: pair -> import_id
    job,        \* the process that holds importLock, or NoJob
    last,       \* history: the run that finished last, 0 if none
    settled     \* history: no batch was written since then

vars == <<version, runs, sentences, links, job, last, settled>>

Export(run) == Dump[runs[run].version]
File(run) == IF runs[run].phase = "ru" THEN Export(run).ru ELSE Export(run).en
Unfinished == {r \in DOMAIN runs : runs[r].state = "running"}
Put(rows, keys, run) ==
    [k \in DOMAIN rows \cup keys |-> IF k \in keys THEN run ELSE rows[k]]
Keep(rows, keys) == [k \in DOMAIN rows \cap keys |-> rows[k]]

Init ==
    /\ version = 1 /\ runs = <<>> /\ job = NoJob
    /\ sentences = [i \in {} |-> 0] /\ links = [p \in {} |-> 0]
    /\ last = 0 /\ settled = FALSE

-----------------------------------------------------------------------------
(* beginRun.  Unlike the dictionary's, a restart abandons the run and       *)
(* starts another in two statements.                                        *)

Resume ==
    \E run \in Unfinished :
        /\ job = NoJob /\ runs[run].version = version
        /\ job' = [run |-> run, step |-> runs[run].phase]
        /\ UNCHANGED <<version, runs, sentences, links, last, settled>>

Abandon ==
    \E run \in Unfinished :
        /\ job = NoJob
        /\ runs' = [runs EXCEPT ![run].state = "abandoned"]
        /\ job' = [run |-> run, step |-> "new"]
        /\ UNCHANGED <<version, sentences, links, last, settled>>

NewRun ==
    /\ Len(runs) < RunLimit
    /\ \/ job = NoJob /\ Unfinished = {}
       \/ job # NoJob /\ job.step = "new"
    /\ runs' = Append(runs, [version |-> version, phase |-> "ru", lines |-> 0,
                             state |-> "running"])
    /\ job' = [run |-> Len(runs'), step |-> "ru"]
    /\ UNCHANGED <<version, sentences, links, last, settled>>

-----------------------------------------------------------------------------
(* The batches.  The checkpoint is written with the batch; the last batch   *)
(* of the Russian file and the turn to the English phase are two            *)
(* statements, and an interrupted run may end between them.                 *)

BatchEnd(run) ==
    LET lines == runs[run].lines
        next  == (lines \div BatchLines + 1) * BatchLines
    IN  IF next < Len(File(run)) THEN next ELSE Len(File(run))

Batch(run) == {File(run)[n] : n \in runs[run].lines + 1 .. BatchEnd(run)}

Checkpoint(run, then) ==
    /\ runs' = [runs EXCEPT ![run].lines = BatchEnd(run)]
    /\ job' = IF BatchEnd(run) = Len(File(run)) THEN [job EXCEPT !.step = then] ELSE job
    /\ settled' = FALSE
    /\ UNCHANGED <<version, last>>

Linked(run) == {p[2] : p \in Export(run).pairs}

WriteRussian ==
    /\ job # NoJob /\ job.step = "ru"
    /\ sentences' = Put(sentences, Batch(job.run) \cap Linked(job.run), job.run)
    /\ Checkpoint(job.run, "turn")
    /\ UNCHANGED links

TurnToEnglish ==
    /\ job # NoJob /\ job.step = "turn"
    /\ runs' = [runs EXCEPT ![job.run].phase = "en", ![job.run].lines = 0]
    /\ job' = [job EXCEPT !.step = "en"]
    /\ UNCHANGED <<version, sentences, links, last, settled>>

Rows(run) == {i \in DOMAIN sentences : sentences[i] = run}

(* The Russian sentences are taken whatever run they are from. *)
RussianMutantOfAnyRun(run) == DOMAIN sentences

Russian(run) == Rows(run)

Lowest(ids) == {i \in ids : Cardinality({j \in ids : j < i}) < MaxTranslations}

Translations(run, en) ==
    {<<en, ru>> : ru \in Lowest({p[2] : p \in {q \in Export(run).pairs : q[1] = en}}
                                \cap Russian(run))}

WriteEnglish ==
    /\ job # NoJob /\ job.step = "en"
    /\ LET pairs == UNION {Translations(job.run, en) : en \in Batch(job.run)}
       IN  /\ sentences' = Put(sentences, {p[1] : p \in pairs}, job.run)
           /\ links' = Put(links, pairs, job.run)
    /\ Checkpoint(job.run, "finish")

-----------------------------------------------------------------------------
(* finish: one transaction deletes the pairs of other runs, then the        *)
(* sentences of other runs and the Russian ones without a pair.             *)

EnglishOf(run) == Rows(run) \cap Range(Export(run).en)

Finish ==
    /\ job # NoJob /\ job.step = "finish" /\ EnglishOf(job.run) # {}
    /\ LET run  == job.run
           kept == {p \in DOMAIN links : links[p] = run}
           used == EnglishOf(run) \cup (Rows(run) \cap {p[2] : p \in kept})
       IN  /\ links' = Keep(links, kept)
           /\ sentences' = Keep(sentences, used)
           /\ runs' = [runs EXCEPT ![run].state = "finished"]
           /\ last' = run
    /\ settled' = TRUE /\ job' = NoJob
    /\ UNCHANGED version

(* ErrEmpty: no English sentence was written, the run stays unfinished. *)
Empty ==
    /\ job # NoJob /\ job.step = "finish" /\ EnglishOf(job.run) = {}
    /\ job' = NoJob
    /\ UNCHANGED <<version, runs, sentences, links, last, settled>>

(* The process dies, a file stalls, breaks off or turns out to have changed *)
(* since the run began (dumpfile.ErrChanged), or a statement fails.         *)
Abort ==
    /\ job # NoJob /\ job' = NoJob
    /\ UNCHANGED <<version, runs, sentences, links, last, settled>>

Publish ==
    /\ version < Len(Dump) /\ version' = version + 1
    /\ UNCHANGED <<runs, sentences, links, job, last, settled>>

Next ==
    \/ Resume \/ Abandon \/ NewRun \/ WriteRussian \/ TurnToEnglish
    \/ WriteEnglish \/ Finish \/ Empty \/ Abort \/ Publish

Spec == Init /\ [][Next]_vars

-----------------------------------------------------------------------------
TypeOK ==
    /\ version \in DOMAIN Dump
    /\ \A r \in DOMAIN runs :
          /\ runs[r].phase \in {"ru", "en"} /\ runs[r].lines \in 0..Len(File(r))
          /\ runs[r].state \in {"running", "finished", "abandoned"}
    /\ Cardinality(Unfinished) <= 1
    /\ \A i \in DOMAIN sentences : sentences[i] \in DOMAIN runs
    /\ \A p \in DOMAIN links : links[p] \in DOMAIN runs
    /\ job = NoJob \/ job.run \in DOMAIN runs
    /\ last \in 0..Len(runs) /\ settled \in BOOLEAN

(* The pairs one uninterrupted import of the run's export would leave. *)
CleanPairs(run) ==
    UNION {{<<en, ru>> : ru \in Lowest({p[2] : p \in {q \in Export(run).pairs :
                                                         q[1] = en /\ q[2] \in Range(Export(run).ru)}})} :
              en \in Range(Export(run).en)}

(* Import's promise (import.go, the comment of Import): a run that finishes *)
(* leaves exactly the corpus of a clean import of its export, wherever it   *)
(* was interrupted, resumed or restarted; until the next run finishes no    *)
(* pair of that corpus is missing; and at every moment both sentences of a  *)
(* pair are there, so that no statement of finish breaks a foreign key.     *)
ImportedCorpus ==
    /\ \A p \in DOMAIN links : p[1] \in DOMAIN sentences /\ p[2] \in DOMAIN sentences
    /\ last # 0 =>
          /\ CleanPairs(last) \subseteq DOMAIN links
          /\ settled =>
                /\ DOMAIN links = CleanPairs(last)
                /\ DOMAIN sentences = UNION {{p[1], p[2]} : p \in CleanPairs(last)}
=============================================================================
