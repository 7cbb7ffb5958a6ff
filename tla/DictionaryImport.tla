-------------------------- MODULE DictionaryImport --------------------------
(* The import of the Wiktionary dataset into the table definitions          *)
(* (backend/internal/dictionary/import.go, migration 0009).  A run reads    *)
(* the lines of one version of a source in batches; a batch writes its      *)
(* articles and its checkpoint in one transaction, and an interrupted run   *)
(* goes on from the checkpoint.  Only the end of a run deletes articles.    *)
EXTENDS Integers, FiniteSets, SequencesExt

CONSTANTS
    Sources,      \* the sources the operator imports
    Dump,         \* Dump[source][version] is the sequence of its lines
    NoEntry,      \* a line that yields no article: malformed or too long
    BatchLines,   \* lines of a transaction
    RunLimit,     \* bound: rows of definition_imports
    NoJob         \* no import is running

IsSequence(s) == s \in Seq(Range(s))

DictionaryAssumption ==
    /\ BatchLines \in Nat \ {0} /\ RunLimit \in Nat
    /\ \A s \in Sources :
          /\ IsSequence(Dump[s]) /\ Dump[s] # <<>>
          /\ \A v \in DOMAIN Dump[s] : IsSequence(Dump[s][v])

VARIABLES
    version,      \* the version each source now has
    runs,         \* the rows of definition_imports; a run's id is its index
    definitions,  \* article -> the run and the line it was written from
    job,          \* the process that holds importLock, or NoJob
    last,         \* history: the run that finished last, 0 if none
    settled,      \* history: no batch was written since then
    crossed       \* history: runs another run wrote or finished in between

vars == <<version, runs, definitions, job, last, settled, crossed>>

Lines(run) == Dump[runs[run].source][runs[run].version]

Unfinished(source) ==
    {r \in DOMAIN runs : runs[r].source = source /\ runs[r].state = "running"}

NewRun(source) ==
    [source |-> source, version |-> version[source], lines |-> 0,
     wrote |-> FALSE, state |-> "running"]

Init ==
    /\ version = [s \in Sources |-> 1]
    /\ runs = <<>> /\ definitions = [w \in {} |-> 0]
    /\ job = NoJob
    /\ last = 0 /\ settled = FALSE /\ crossed = {}

-----------------------------------------------------------------------------
(* beginRun: the unfinished run of the source is resumed if it read the     *)
(* same version; restarting abandons it and starts another in one           *)
(* transaction.  A second process finds importLock taken and gives up.      *)

Work(run) == [run |-> run, step |-> "read"]

BeginNew(source) ==
    /\ job = NoJob /\ Unfinished(source) = {} /\ Len(runs) < RunLimit
    /\ runs' = Append(runs, NewRun(source))
    /\ job' = Work(Len(runs'))
    /\ UNCHANGED <<version, definitions, last, settled, crossed>>

Resume(source) ==
    \E run \in Unfinished(source) :
        /\ job = NoJob /\ runs[run].version = version[source]
        /\ job' = Work(run)
        /\ UNCHANGED <<version, runs, definitions, last, settled, crossed>>

Restarted(run) ==
    Append([runs EXCEPT ![run].state = "abandoned"], NewRun(runs[run].source))

Restart(source) ==
    \E run \in Unfinished(source) :
        /\ job = NoJob /\ Len(runs) < RunLimit
        /\ runs' = Restarted(run)
        /\ job' = Work(Len(runs'))
        /\ UNCHANGED <<version, definitions, last, settled, crossed>>

-----------------------------------------------------------------------------
(* writeBatch.  Of the articles with one key the first line of the run      *)
(* wins; an article of any other run is overwritten.                        *)

BatchEnd(run) ==
    Min({Len(Lines(run)), (runs[run].lines \div BatchLines + 1) * BatchLines})

BatchLinesOf(run) ==
    {n \in runs[run].lines + 1 .. BatchEnd(run) : Lines(run)[n] # NoEntry}

(* The upsert compares lines whatever run the article is from. *)
YieldsMutantByLine(row, run, line) == row.line >= line

Yields(row, run, line) == row.run # run \/ row.line >= line

(* The lines of the batch that carry an article, and the first of them. *)
LinesWith(run, word) == {n \in BatchLinesOf(run) : Lines(run)[n] = word}
FirstLine(run, word) == Min(LinesWith(run, word))

(* The upserts of the batch, in the order of its lines: after the first one *)
(* of an article its later lines change nothing.                            *)
Written(run) ==
    LET words == {Lines(run)[n] : n \in BatchLinesOf(run)}
        Upserted(w) ==
            /\ w \in words
            /\ w \in DOMAIN definitions => Yields(definitions[w], run, FirstLine(run, w))
    IN  [w \in DOMAIN definitions \cup words |->
            IF Upserted(w) THEN [run |-> run, line |-> FirstLine(run, w)] ELSE definitions[w]]

CrossedBy(run) ==
    {r \in DOMAIN runs \ {run} : runs[r].state = "running" /\ runs[r].lines > 0}

WriteBatch ==
    /\ job # NoJob /\ job.step = "read"
    /\ LET run == job.run
           end == BatchEnd(run)
       IN  /\ definitions' = Written(run)
           /\ runs' = [runs EXCEPT ![run].lines = end,
                                   ![run].wrote = runs[run].wrote \/ BatchLinesOf(run) # {}]
           /\ job' = IF end = Len(Lines(run)) THEN [job EXCEPT !.step = "finish"] ELSE job
           /\ crossed' = crossed \cup CrossedBy(run)
    /\ settled' = FALSE
    /\ UNCHANGED <<version, last>>

-----------------------------------------------------------------------------
(* finishRun deletes the articles of every other run.  A run that wrote     *)
(* nothing ends with ErrEmpty and stays unfinished.                         *)

Finish ==
    /\ job # NoJob /\ job.step = "finish" /\ runs[job.run].wrote
    /\ definitions' = LET own == {w \in DOMAIN definitions : definitions[w].run = job.run}
                      IN  [w \in own |-> definitions[w]]
    /\ runs' = [runs EXCEPT ![job.run].state = "finished"]
    /\ crossed' = crossed \cup CrossedBy(job.run)
    /\ last' = job.run /\ settled' = TRUE /\ job' = NoJob
    /\ UNCHANGED version

Empty ==
    /\ job # NoJob /\ job.step = "finish" /\ ~runs[job.run].wrote
    /\ job' = NoJob
    /\ UNCHANGED <<version, runs, definitions, last, settled, crossed>>

(* The process dies, the source stalls or breaks off in the middle of a     *)
(* line, or a statement fails: the transaction and the lock are gone.       *)
Abort ==
    /\ job # NoJob /\ job' = NoJob
    /\ UNCHANGED <<version, runs, definitions, last, settled, crossed>>

(* The publisher replaces the source's file. *)
Publish(source) ==
    /\ version[source] < Len(Dump[source])
    /\ version' = [version EXCEPT ![source] = @ + 1]
    /\ UNCHANGED <<runs, definitions, job, last, settled, crossed>>

Next ==
    \/ \E s \in Sources : BeginNew(s) \/ Resume(s) \/ Restart(s) \/ Publish(s)
    \/ WriteBatch \/ Finish \/ Empty \/ Abort

Spec == Init /\ [][Next]_vars

-----------------------------------------------------------------------------
TypeOK ==
    /\ \A s \in Sources : version[s] \in DOMAIN Dump[s]
    /\ \A r \in DOMAIN runs :
          /\ runs[r].source \in Sources
          /\ runs[r].lines \in 0..Len(Lines(r))
          /\ runs[r].state \in {"running", "finished", "abandoned"}
    /\ \A w \in DOMAIN definitions :
          definitions[w].run \in DOMAIN runs /\ definitions[w].line \in Nat
    /\ job = NoJob \/ job.run \in DOMAIN runs
    /\ last \in 0..Len(runs) /\ settled \in BOOLEAN /\ crossed \subseteq DOMAIN runs
    /\ \A s \in Sources : Cardinality(Unfinished(s)) <= 1

(* What one uninterrupted import of the run's version into an empty table   *)
(* would leave: every article of the dump, from its first line.             *)
Clean(run) ==
    LET lines == Lines(run)
        words == Range(lines) \ {NoEntry}
        First(w) == Min({n \in DOMAIN lines : lines[n] = w})
    IN  [w \in words |-> [run |-> run, line |-> First(w)]]

(* Import's promise to an operator (import.go, the comment of Import): a    *)
(* run that finishes leaves the dictionary of a clean import, however often *)
(* it was interrupted, resumed or restarted and whatever version the        *)
(* articles before it came from; and until the next run finishes no article *)
(* of that dictionary is missing.  Runs of two sources that crossed are     *)
(* excused: see SameAsClean.                                                *)
ImportedDictionary ==
    last \notin crossed \cup {0} =>
        /\ settled => definitions = Clean(last)
        /\ \A w \in DOMAIN Clean(last) :
              /\ w \in DOMAIN definitions
              /\ definitions[w].run = last => definitions[w] = Clean(last)[w]

(* The same comment as it stands: a repeated or resumed import of a source  *)
(* gives the same dictionary.  The code breaks it when another source was   *)
(* imported to its end in between: the lines the checkpoint skips are the   *)
(* ones whose articles that run has deleted.                                *)
SameAsClean == settled => definitions = Clean(last)

=============================================================================
