---------------------------- MODULE ImportProofs ----------------------------
(***************************************************************************)
(* What the imports of the corpus and of the dictionary promise, proved of *)
(* Background for every export, every dump and every interruption; and the *)
(* types of all of Background.                                             *)
(***************************************************************************)
EXTENDS BackgroundProofs, SequenceTheorems, WellFoundedInduction

\* A row of a table of runs changes, or one is added.
LEMMA RunsChanged ==
    ASSUME NEW S, NEW rows \in Seq(S), NEW r \in DOMAIN rows, NEW x \in S,
           NEW after, after = [rows EXCEPT ![r] = x]
    PROVE  /\ after \in Seq(S) /\ Len(after) = Len(rows) /\ DOMAIN after = DOMAIN rows
           /\ after[r] = x /\ \A s \in DOMAIN rows : s # r => after[s] = rows[s]
  <1>1. r \in 1..Len(rows) /\ DOMAIN rows = 1..Len(rows)
    BY LenProperties
  <1>2. after \in Seq(S) /\ Len(after) = Len(rows)
    BY <1>1, ExceptSeq
  <1>3. DOMAIN after = 1..Len(after)
    BY <1>2, LenProperties
  <1>4. \A s \in 1..Len(rows) : after[s] = IF s = r THEN x ELSE rows[s]
    BY <1>1, ExceptSeq
  <1>5. QED
    BY <1>1, <1>2, <1>3, <1>4

LEMMA RunAdded ==
    ASSUME NEW S, NEW rows \in Seq(S), NEW x \in S, NEW after, after = Append(rows, x)
    PROVE  /\ after \in Seq(S) /\ Len(rows) \in Nat /\ Len(after) = Len(rows) + 1
           /\ DOMAIN rows = 1..Len(rows) /\ DOMAIN after = 1..Len(rows) + 1
           /\ after[Len(after)] = x /\ \A s \in DOMAIN rows : after[s] = rows[s]
  <1>1. DOMAIN rows = 1..Len(rows) /\ Len(rows) \in Nat
    BY LenProperties
  <1>2. after \in Seq(S) /\ Len(after) = Len(rows) + 1
    BY AppendProperties
  <1>3. DOMAIN after = 1..Len(after)
    BY <1>2, LenProperties
  <1>4. after[Len(rows) + 1] = x /\ \A s \in 1..Len(rows) : after[s] = rows[s]
    BY AppendProperties
  <1>5. QED
    BY <1>1, <1>2, <1>3, <1>4

\* The next checkpoint of a file lies further on, but not behind its end.
LEMMA NextCheckpoint ==
    ASSUME NEW lines \in Nat, NEW batch \in Nat \ {0}
    PROVE  (lines \div batch + 1) * batch \in Nat /\ (lines \div batch + 1) * batch > lines
  OBVIOUS

-----------------------------------------------------------------------------
\* The corpus

LEMMA CorpusSteps ==
    ASSUME [Next]_vars
    PROVE  \/ UNCHANGED tatoeba
           \/ Corpus!Resume \/ Corpus!Abandon \/ Corpus!NewRun \/ Corpus!WriteRussian
           \/ Corpus!TurnToEnglish \/ Corpus!WriteEnglish \/ Corpus!Finish \/ Corpus!Empty
           \/ Corpus!Abort \/ Corpus!Publish
  <1>1. CASE UNCHANGED vars
    BY <1>1 DEF vars
  <1>2. CASE CorpusNext
    BY <1>2 DEF CorpusNext
  <1>3. CASE CalendarNext \/ ScheduleNext \/ HarvestNext \/ DictionaryNext
    <2>1. \E p \in {"calendar", "schedule", "harvest", "dictionary"} : Others(p)
      BY <1>3 DEF CalendarNext, ScheduleNext, HarvestNext, DictionaryNext
    <2>2. QED
      BY <2>1 DEF Others
  <1>4. QED
    BY <1>1, <1>2, <1>3 DEF Next

Pass == [version : DOMAIN Exports, phase : {"ru", "en"}, lines : Nat,
         state : {"running", "finished", "abandoned"}]
Loader == [run : DOMAIN passes, step : {"new", "ru", "turn", "en", "finish"}]

FileOf(pass) == IF pass.phase = "ru" THEN Exports[pass.version].ru ELSE Exports[pass.version].en

CorpusTypes ==
    /\ export \in DOMAIN Exports
    /\ passes \in Seq(Pass)
    /\ \A r \in DOMAIN passes : passes[r].lines <= Len(FileOf(passes[r]))
    /\ \A i \in DOMAIN sentences : sentences[i] \in DOMAIN passes
    /\ \A p \in DOMAIN links : links[p] \in DOMAIN passes
    /\ corpus \in 0..Len(passes) /\ clean \in BOOLEAN

\* One run is unfinished, and who holds the lock works on it, in its phase; or
\* has abandoned it and is to begin the next one.
OnePass ==
    /\ \A r, s \in Corpus!Unfinished : r = s
    /\ loader # NoJob =>
          /\ loader \in Loader
          /\ loader.step = "new" => Corpus!Unfinished = {}
          /\ loader.step # "new" => loader.run \in Corpus!Unfinished
          /\ loader.step \in {"ru", "turn"} => passes[loader.run].phase = "ru"
          /\ loader.step \in {"en", "finish"} => passes[loader.run].phase = "en"
          /\ loader.step \in {"turn", "finish"} =>
                passes[loader.run].lines = Len(FileOf(passes[loader.run]))

\* What a clean import of an export leaves of one English sentence.
CleanOf(e, en) ==
    {<<en, ru>> : ru \in Corpus!Lowest({p[2] : p \in {q \in e.pairs :
                                            q[1] = en /\ q[2] \in Corpus!Range(e.ru)}})}
CleanOfAll(e, ens) == UNION {CleanOf(e, en) : en \in ens}

Read(file, lines) == {file[n] : n \in 1..lines}

\* What a run has written before its checkpoint.
PairsSoFar(pass) ==
    LET e == Exports[pass.version]
    IN  IF pass.phase = "ru" THEN {} ELSE CleanOfAll(e, Read(e.en, pass.lines))
RussianSoFar(pass) ==
    LET e == Exports[pass.version]
    IN  {p[2] : p \in e.pairs} \cap
            (IF pass.phase = "ru" THEN Read(e.ru, pass.lines) ELSE Corpus!Range(e.ru))

LinksOf(r) == {p \in DOMAIN links : links[p] = r}

\* The rows of a run are what it has written before its checkpoint.
Progress(r) ==
    /\ LinksOf(r) = PairsSoFar(passes[r])
    /\ Corpus!Rows(r) = RussianSoFar(passes[r]) \cup {p[1] : p \in PairsSoFar(passes[r])}

Whole == \A p \in DOMAIN links : p[1] \in DOMAIN sentences /\ p[2] \in DOMAIN sentences

CleanCorpus(r) == LET e == Exports[passes[r].version] IN CleanOfAll(e, Corpus!Range(e.en))

Preserved ==
    corpus # 0 =>
        /\ CleanCorpus(corpus) \subseteq DOMAIN links
        /\ clean => /\ DOMAIN links = CleanCorpus(corpus)
                    /\ DOMAIN sentences = UNION {{p[1], p[2]} : p \in CleanCorpus(corpus)}

CorpusInv ==
    /\ CorpusTypes /\ OnePass
    /\ \A r \in Corpus!Unfinished : Progress(r)
    /\ Whole /\ Preserved

LEMMA CorpusConstants ==
    /\ CorpusBatch \in Nat \ {0} /\ Len(Exports) \in Nat /\ Len(Exports) >= 1
    /\ DOMAIN Exports = 1..Len(Exports)
    /\ \A v \in DOMAIN Exports :
          /\ Exports[v].pairs \subseteq Nat \X Nat
          /\ Exports[v].ru \in Seq(Nat) /\ Exports[v].en \in Seq(Nat)
          /\ {p[2] : p \in Exports[v].pairs} \cap Corpus!Range(Exports[v].en) = {}
          /\ Corpus!Range(Exports[v].ru) \cap Corpus!Range(Exports[v].en) = {}
  <1>1. Corpus!CorpusAssumption
    BY BackgroundAssumption
  <1>2. Exports \in Seq(Corpus!Range(Exports)) /\ Exports # <<>>
    BY <1>1 DEF Corpus!CorpusAssumption
  <1>3. Len(Exports) \in Nat /\ Len(Exports) >= 1 /\ DOMAIN Exports = 1..Len(Exports)
    BY <1>2, LenProperties, EmptySeq
  <1>4. QED
    BY <1>1, <1>3 DEF Corpus!CorpusAssumption

LEMMA FileLines ==
    ASSUME NEW pass \in Pass
    PROVE  /\ FileOf(pass) \in Seq(Nat) /\ Len(FileOf(pass)) \in Nat
           /\ DOMAIN FileOf(pass) = 1..Len(FileOf(pass))
  <1>1. FileOf(pass) \in Seq(Nat)
    BY CorpusConstants DEF FileOf, Pass
  <1>2. QED
    BY <1>1, LenProperties

\* The state of a run of which only lines, phase or state change.
LEMMA PassesDomain ==
    ASSUME CorpusTypes
    PROVE  /\ Len(passes) \in Nat /\ DOMAIN passes = 1..Len(passes)
           /\ \A r \in DOMAIN passes : passes[r] \in Pass
  BY LenProperties, ElementOfSeq DEF CorpusTypes

LEMMA BatchBounds ==
    ASSUME CorpusTypes, NEW r \in DOMAIN passes
    PROVE  /\ Corpus!File(r) = FileOf(passes[r]) /\ passes[r].lines \in Nat
           /\ Corpus!BatchEnd(r) \in Nat /\ passes[r].lines <= Corpus!BatchEnd(r)
           /\ Corpus!BatchEnd(r) <= Len(FileOf(passes[r]))
           /\ Read(FileOf(passes[r]), Corpus!BatchEnd(r)) =
                  Read(FileOf(passes[r]), passes[r].lines) \cup Corpus!Batch(r)
  <1>1. passes[r] \in Pass
    BY PassesDomain
  <1>2. Corpus!File(r) = FileOf(passes[r]) /\ passes[r].lines \in Nat
    BY <1>1 DEF Corpus!File, Corpus!Export, FileOf, Pass
  <1>3. Len(FileOf(passes[r])) \in Nat /\ passes[r].lines <= Len(FileOf(passes[r]))
    BY <1>1, FileLines DEF CorpusTypes
  <1> DEFINE lines == passes[r].lines
             next == (lines \div CorpusBatch + 1) * CorpusBatch
  <1>4. next \in Nat /\ next > lines
    BY <1>2, CorpusConstants, NextCheckpoint
  <1>5. Corpus!BatchEnd(r) = IF next < Len(FileOf(passes[r])) THEN next ELSE Len(FileOf(passes[r]))
    BY <1>2 DEF Corpus!BatchEnd
  <1> HIDE DEF next
  <1>6. /\ Corpus!BatchEnd(r) \in Nat /\ lines <= Corpus!BatchEnd(r)
        /\ Corpus!BatchEnd(r) <= Len(FileOf(passes[r]))
    BY <1>2, <1>3, <1>4, <1>5
  <1>7. 1..Corpus!BatchEnd(r) = (1..lines) \cup (lines + 1..Corpus!BatchEnd(r))
    BY <1>2, <1>6
  <1>8. Corpus!Batch(r) = {FileOf(passes[r])[n] : n \in lines + 1..Corpus!BatchEnd(r)}
    BY <1>2 DEF Corpus!Batch
  <1>9. QED
    BY <1>2, <1>6, <1>7, <1>8 DEF Read

LEMMA WholeFile ==
    ASSUME NEW file \in Seq(Nat) PROVE Read(file, Len(file)) = Corpus!Range(file)
  BY LenProperties DEF Read, Corpus!Range

\* What no longer changes of a run: its export.
LEMMA SameExports ==
    ASSUME CorpusTypes, NEW S, S \subseteq DOMAIN passes,
           \A r \in S : r \in DOMAIN passes' /\ passes'[r].version = passes[r].version
    PROVE  \A r \in S : CleanCorpus(r)' = CleanCorpus(r)
  BY DEF CleanCorpus

\* Steps that write no row of the corpus.
LEMMA QuietStep ==
    ASSUME CorpusInv, CorpusTypes', OnePass',
           UNCHANGED <<sentences, links, corpus, clean>>,
           \A r \in DOMAIN passes : passes'[r].version = passes[r].version,
           DOMAIN passes \subseteq DOMAIN passes',
           \A r \in Corpus!Unfinished' :
               \/ r \in Corpus!Unfinished /\ PairsSoFar(passes'[r]) = PairsSoFar(passes[r])
                  /\ RussianSoFar(passes'[r]) = RussianSoFar(passes[r])
               \/ r \notin DOMAIN passes /\ PairsSoFar(passes'[r]) = {}
                  /\ RussianSoFar(passes'[r]) = {}
    PROVE  CorpusInv'
  <1>1. \A r \in Corpus!Unfinished' : Progress(r)'
    <2> SUFFICES ASSUME NEW r \in Corpus!Unfinished' PROVE Progress(r)'
        OBVIOUS
    <2>1. LinksOf(r)' = LinksOf(r) /\ Corpus!Rows(r)' = Corpus!Rows(r)
      BY DEF LinksOf, Corpus!Rows
    <2>2. CASE r \in Corpus!Unfinished
                 /\ PairsSoFar(passes'[r]) = PairsSoFar(passes[r])
                 /\ RussianSoFar(passes'[r]) = RussianSoFar(passes[r])
      BY <2>1, <2>2 DEF CorpusInv, Progress
    <2>3. CASE r \notin DOMAIN passes /\ PairsSoFar(passes'[r]) = {}
                 /\ RussianSoFar(passes'[r]) = {}
      <3>1. LinksOf(r) = {} /\ Corpus!Rows(r) = {}
        BY <2>3 DEF CorpusInv, CorpusTypes, LinksOf, Corpus!Rows
      <3>2. QED
        BY <2>1, <2>3, <3>1 DEF Progress
    <2>4. QED
      BY <2>2, <2>3
  <1>2. Whole'
    BY DEF CorpusInv, Whole
  <1>3. Preserved'
    <2>1. corpus # 0 => CleanCorpus(corpus)' = CleanCorpus(corpus)
      <3>1. corpus # 0 => corpus \in DOMAIN passes
        BY PassesDomain DEF CorpusInv, CorpusTypes
      <3>2. QED
        BY <3>1 DEF CleanCorpus
    <2>2. QED
      BY <2>1 DEF CorpusInv, Preserved
  <1>4. QED
    BY <1>1, <1>2, <1>3 DEF CorpusInv

LEMMA LoaderStep ==
    ASSUME CorpusInv, Corpus!Resume \/ Corpus!Empty \/ Corpus!Abort \/ Corpus!Publish
    PROVE  CorpusInv'
  <1>1. UNCHANGED <<passes, sentences, links, corpus, clean>>
    BY DEF Corpus!Resume, Corpus!Empty, Corpus!Abort, Corpus!Publish
  <1>2. CorpusTypes'
    <2>1. export' \in DOMAIN Exports
      BY CorpusConstants DEF Corpus!Resume, Corpus!Empty, Corpus!Abort, Corpus!Publish,
                             CorpusInv, CorpusTypes
    <2>2. QED
      BY <1>1, <2>1 DEF CorpusInv, CorpusTypes
  <1>3. Corpus!Unfinished' = Corpus!Unfinished /\ Loader' = Loader
    BY <1>1 DEF Corpus!Unfinished, Loader
  <1>4. OnePass'
    <2>1. CASE loader' = NoJob \/ loader' = loader
      BY <1>1, <1>3, <2>1 DEF CorpusInv, OnePass
    <2>2. CASE Corpus!Resume
      <3>1. PICK run \in Corpus!Unfinished : loader' = [run |-> run, step |-> passes[run].phase]
        BY <2>2 DEF Corpus!Resume
      <3>2. run \in DOMAIN passes /\ passes[run] \in Pass /\ passes[run].phase \in {"ru", "en"}
        BY PassesDomain DEF CorpusInv, Corpus!Unfinished, Pass
      <3>3. loader' \in Loader /\ loader'.run = run /\ loader'.step = passes[run].phase
        BY <3>1, <3>2 DEF Loader
      <3>4. QED
        BY <1>1, <1>3, <3>2, <3>3 DEF CorpusInv, OnePass
    <2>3. QED
      BY <2>1, <2>2 DEF Corpus!Empty, Corpus!Abort, Corpus!Publish
  <1>5. QED
    BY <1>1, <1>2, <1>3, <1>4, QuietStep

LEMMA AbandonStep ==
    ASSUME CorpusInv, Corpus!Abandon PROVE CorpusInv'
  <1>1. PICK run \in Corpus!Unfinished :
            /\ passes' = [passes EXCEPT ![run].state = "abandoned"]
            /\ loader' = [run |-> run, step |-> "new"]
            /\ UNCHANGED <<export, sentences, links, corpus, clean>>
    BY DEF Corpus!Abandon
  <1> DEFINE x == [passes[run] EXCEPT !.state = "abandoned"]
  <1>2. run \in DOMAIN passes /\ passes[run] \in Pass /\ passes \in Seq(Pass)
    BY PassesDomain DEF CorpusInv, CorpusTypes, Corpus!Unfinished
  <1>3. /\ x \in Pass /\ x.state = "abandoned" /\ x.version = passes[run].version
        /\ x.lines = passes[run].lines /\ FileOf(x) = FileOf(passes[run])
    BY <1>2 DEF Pass, FileOf
  <1>4. passes' = [passes EXCEPT ![run] = x]
    BY <1>1
  <1> HIDE DEF x
  <1>5. /\ passes' \in Seq(Pass) /\ Len(passes') = Len(passes) /\ DOMAIN passes' = DOMAIN passes
        /\ passes'[run] = x /\ \A s \in DOMAIN passes : s # run => passes'[s] = passes[s]
    BY <1>2, <1>3, <1>4, RunsChanged
  <1>6. CorpusTypes'
    BY <1>1, <1>3, <1>5 DEF CorpusInv, CorpusTypes
  <1>7. Corpus!Unfinished' = {}
    BY <1>1, <1>3, <1>5 DEF CorpusInv, OnePass, Corpus!Unfinished
  <1>8. OnePass'
    <2>1. loader' \in Loader' /\ loader'.step = "new"
      BY <1>1, <1>2, <1>5 DEF Loader
    <2>2. QED
      BY <1>7, <2>1 DEF OnePass
  <1>9. QED
    BY <1>1, <1>3, <1>5, <1>6, <1>7, <1>8, QuietStep

LEMMA NewRunStep ==
    ASSUME CorpusInv, Corpus!NewRun PROVE CorpusInv'
  <1> DEFINE x == [version |-> export, phase |-> "ru", lines |-> 0, state |-> "running"]
  <1>1. /\ Corpus!Unfinished = {}
        /\ passes' = Append(passes, x)
        /\ loader' = [run |-> Len(passes'), step |-> "ru"]
        /\ UNCHANGED <<export, sentences, links, corpus, clean>>
    BY DEF Corpus!NewRun, CorpusInv, OnePass
  <1>2. /\ x \in Pass /\ x.phase = "ru" /\ x.lines = 0 /\ x.state = "running"
        /\ passes \in Seq(Pass)
    BY DEF Pass, CorpusInv, CorpusTypes
  <1> HIDE DEF x
  <1>3. /\ passes' \in Seq(Pass) /\ Len(passes) \in Nat /\ Len(passes') = Len(passes) + 1
        /\ DOMAIN passes = 1..Len(passes) /\ DOMAIN passes' = 1..Len(passes) + 1
        /\ passes'[Len(passes')] = x /\ \A s \in DOMAIN passes : passes'[s] = passes[s]
    BY <1>1, <1>2, RunAdded
  <1>4. DOMAIN passes \subseteq DOMAIN passes' /\ Len(passes') \in DOMAIN passes'
        /\ Len(passes') \notin DOMAIN passes
        /\ \A s \in DOMAIN passes' : s = Len(passes') \/ s \in DOMAIN passes
    BY <1>3
  <1>5. CorpusTypes'
    <2>1. \A s \in DOMAIN passes' : passes'[s].lines <= Len(FileOf(passes'[s]))
      <3>1. Len(FileOf(x)) \in Nat
        BY <1>2, FileLines
      <3>2. QED
        BY <1>2, <1>3, <1>4, <3>1 DEF CorpusInv, CorpusTypes
    <2>2. corpus' \in 0..Len(passes')
      BY <1>1, <1>3 DEF CorpusInv, CorpusTypes
    <2>3. QED
      BY <1>1, <1>3, <1>4, <2>1, <2>2 DEF CorpusInv, CorpusTypes
  <1>6. Corpus!Unfinished' = {Len(passes')}
    BY <1>1, <1>2, <1>3, <1>4 DEF Corpus!Unfinished
  <1>7. OnePass'
    <2>1. loader' \in Loader' /\ loader'.step = "ru" /\ loader'.run = Len(passes')
      BY <1>1, <1>4 DEF Loader
    <2>2. QED
      BY <1>2, <1>3, <1>6, <2>1 DEF OnePass
  <1>8. PairsSoFar(x) = {} /\ RussianSoFar(x) = {}
    BY <1>2 DEF PairsSoFar, RussianSoFar, Read
  <1>9. QED
    BY <1>1, <1>3, <1>4, <1>5, <1>6, <1>7, <1>8, QuietStep


\* The run that the lock's holder works on, in a given step.
LEMMA LoadersRun ==
    ASSUME CorpusInv, loader # NoJob, loader.step # "new"
    PROVE  /\ loader.run \in Corpus!Unfinished /\ loader.run \in DOMAIN passes
           /\ passes[loader.run] \in Pass /\ passes[loader.run].state = "running"
           /\ passes[loader.run].lines <= Len(FileOf(passes[loader.run]))
           /\ \A r \in Corpus!Unfinished : r = loader.run
           /\ loader \in Loader /\ passes \in Seq(Pass)
           /\ Progress(loader.run)
  BY PassesDomain DEF CorpusInv, CorpusTypes, OnePass, Corpus!Unfinished

LEMMA TurnStep ==
    ASSUME CorpusInv, Corpus!TurnToEnglish PROVE CorpusInv'
  <1>1. PICK run : run = loader.run
    OBVIOUS
  <1> DEFINE x == [passes[run] EXCEPT !.phase = "en", !.lines = 0]
  <1>2. /\ loader # NoJob /\ loader.step = "turn"
        /\ passes' = [passes EXCEPT ![run].phase = "en", ![run].lines = 0]
        /\ loader' = [loader EXCEPT !.step = "en"]
        /\ UNCHANGED <<export, sentences, links, corpus, clean>>
    BY <1>1 DEF Corpus!TurnToEnglish
  <1>3. /\ run \in Corpus!Unfinished /\ run \in DOMAIN passes /\ passes[run] \in Pass
        /\ passes[run].state = "running" /\ \A r \in Corpus!Unfinished : r = run
        /\ loader \in Loader /\ passes \in Seq(Pass)
    BY <1>1, <1>2, LoadersRun
  <1>4. passes[run].phase = "ru" /\ passes[run].lines = Len(FileOf(passes[run]))
    BY <1>1, <1>2 DEF CorpusInv, OnePass
  <1>5. /\ x \in Pass /\ x.state = "running" /\ x.version = passes[run].version
        /\ x.lines = 0 /\ x.phase = "en"
    BY <1>3 DEF Pass
  <1>6. passes' = [passes EXCEPT ![run] = x]
    BY <1>2, <1>3 DEF Pass
  <1> HIDE DEF x
  <1>7. /\ passes' \in Seq(Pass) /\ Len(passes') = Len(passes) /\ DOMAIN passes' = DOMAIN passes
        /\ passes'[run] = x /\ \A s \in DOMAIN passes : s # run => passes'[s] = passes[s]
    BY <1>3, <1>5, <1>6, RunsChanged
  <1>8. Len(FileOf(x)) \in Nat
    BY <1>5, FileLines
  <1>9. CorpusTypes'
    BY <1>2, <1>5, <1>7, <1>8 DEF CorpusInv, CorpusTypes
  <1>10. Corpus!Unfinished' = Corpus!Unfinished
    BY <1>3, <1>5, <1>7 DEF Corpus!Unfinished
  <1>11. OnePass'
    <2>1. loader' \in Loader' /\ loader'.step = "en" /\ loader'.run = run
      BY <1>1, <1>2, <1>3, <1>7 DEF Loader
    <2>2. QED
      BY <1>3, <1>5, <1>7, <1>10, <2>1 DEF OnePass
  <1>12. PairsSoFar(x) = PairsSoFar(passes[run])
    BY <1>4, <1>5 DEF PairsSoFar, CleanOfAll, Read
  <1>13. RussianSoFar(x) = RussianSoFar(passes[run])
    <2>1. FileOf(passes[run]) = Exports[passes[run].version].ru
      BY <1>4 DEF FileOf
    <2>2. FileOf(passes[run]) \in Seq(Nat)
      BY <1>3, FileLines
    <2>3. Read(FileOf(passes[run]), passes[run].lines) = Corpus!Range(FileOf(passes[run]))
      BY <1>4, <2>2, WholeFile
    <2>4. QED
      BY <1>4, <1>5, <2>1, <2>3 DEF RussianSoFar
  <1>14. QED
    BY <1>2, <1>3, <1>5, <1>7, <1>9, <1>10, <1>11, <1>12, <1>13, QuietStep

\* A batch and its checkpoint, whichever rows it writes: the same run is
\* unfinished, and it has read as far as the checkpoint says.
LEMMA CheckpointStep ==
    ASSUME CorpusInv, loader # NoJob, NEW then \in {"turn", "finish"},
           loader.step = IF then = "turn" THEN "ru" ELSE "en",
           Corpus!Checkpoint(loader.run, then),
           \A i \in DOMAIN sentences' : sentences'[i] \in DOMAIN passes,
           \A p \in DOMAIN links' : links'[p] \in DOMAIN passes
    PROVE  /\ CorpusTypes' /\ OnePass' /\ Corpus!Unfinished' = {loader.run}
           /\ DOMAIN passes' = DOMAIN passes /\ corpus' = corpus /\ clean' = FALSE
           /\ \A r \in DOMAIN passes : passes'[r].version = passes[r].version
           /\ passes'[loader.run].phase = passes[loader.run].phase
           /\ passes'[loader.run].lines = Corpus!BatchEnd(loader.run)
  <1>1. PICK run : run = loader.run
    OBVIOUS
  <1> DEFINE end == Corpus!BatchEnd(run)
             x == [passes[run] EXCEPT !.lines = end]
  <1>2. /\ run \in Corpus!Unfinished /\ run \in DOMAIN passes /\ passes[run] \in Pass
        /\ passes[run].state = "running" /\ \A r \in Corpus!Unfinished : r = run
        /\ loader \in Loader /\ passes \in Seq(Pass)
    BY <1>1, LoadersRun
  <1>3. /\ end \in Nat /\ end <= Len(FileOf(passes[run]))
        /\ Corpus!File(run) = FileOf(passes[run])
    BY <1>2, BatchBounds DEF CorpusInv
  <1>4. /\ passes' = [passes EXCEPT ![run].lines = end]
        /\ loader' = IF end = Len(FileOf(passes[run])) THEN [loader EXCEPT !.step = then]
                     ELSE loader
        /\ clean' = FALSE /\ UNCHANGED <<export, corpus>>
    BY <1>1, <1>3 DEF Corpus!Checkpoint
  <1>5. passes[run].phase = IF then = "turn" THEN "ru" ELSE "en"
    BY <1>1 DEF CorpusInv, OnePass
  <1> HIDE DEF end
  <1>6. /\ x \in Pass /\ x.state = "running" /\ x.version = passes[run].version
        /\ x.lines = end /\ x.phase = passes[run].phase /\ FileOf(x) = FileOf(passes[run])
    BY <1>2, <1>3 DEF Pass, FileOf
  <1>7. passes' = [passes EXCEPT ![run] = x]
    BY <1>4
  <1> HIDE DEF x
  <1>8. /\ passes' \in Seq(Pass) /\ Len(passes') = Len(passes) /\ DOMAIN passes' = DOMAIN passes
        /\ passes'[run] = x /\ \A s \in DOMAIN passes : s # run => passes'[s] = passes[s]
    BY <1>2, <1>6, <1>7, RunsChanged
  <1>9. CorpusTypes'
    <2>1. clean' \in BOOLEAN
      BY <1>4
    <2>2. \A s \in DOMAIN passes' : passes'[s].lines <= Len(FileOf(passes'[s]))
      BY <1>3, <1>6, <1>8 DEF CorpusInv, CorpusTypes
    <2>3. QED
      BY <1>4, <1>8, <2>1, <2>2 DEF CorpusInv, CorpusTypes
  <1>10. Corpus!Unfinished' = {run}
    BY <1>2, <1>6, <1>8 DEF Corpus!Unfinished
  <1>11. OnePass'
    <2>1. /\ loader' \in Loader' /\ loader'.run = run
          /\ \/ loader'.step = loader.step
             \/ loader'.step = then /\ end = Len(FileOf(passes[run]))
      BY <1>1, <1>2, <1>4, <1>8 DEF Loader
    <2>2. QED
      BY <1>5, <1>6, <1>8, <1>10, <2>1 DEF OnePass
  <1>12. \A r \in DOMAIN passes : passes'[r].version = passes[r].version
    BY <1>6, <1>8
  <1>13. QED
    BY <1>1, <1>4, <1>6, <1>8, <1>9, <1>10, <1>11, <1>12 DEF end

\* A step that only adds pairs keeps the corpus of the run that finished last.
LEMMA PreservedByBatch ==
    ASSUME CorpusInv, corpus' = corpus, clean' = FALSE,
           \A r \in DOMAIN passes : passes'[r].version = passes[r].version,
           DOMAIN links \subseteq DOMAIN links'
    PROVE  Preserved'
  <1>1. corpus # 0 => corpus \in DOMAIN passes
    BY PassesDomain DEF CorpusInv, CorpusTypes
  <1>2. corpus # 0 => CleanCorpus(corpus)' = CleanCorpus(corpus)
    BY <1>1 DEF CleanCorpus
  <1>3. QED
    BY <1>2 DEF CorpusInv, Preserved

LEMMA WriteRussianStep ==
    ASSUME CorpusInv, Corpus!WriteRussian PROVE CorpusInv'
  <1>1. PICK run : run = loader.run
    OBVIOUS
  <1> DEFINE keys == Corpus!Batch(run) \cap Corpus!Linked(run)
             e == Exports[passes[run].version]
             end == Corpus!BatchEnd(run)
  <1>2. /\ loader # NoJob /\ loader.step = "ru" /\ links' = links
        /\ sentences' = [i \in DOMAIN sentences \cup keys |->
                            IF i \in keys THEN run ELSE sentences[i]]
        /\ Corpus!Checkpoint(run, "turn")
    BY <1>1 DEF Corpus!WriteRussian, Corpus!Put
  <1>3. /\ run \in DOMAIN passes /\ passes[run] \in Pass /\ Progress(run)
    BY <1>1, <1>2, LoadersRun
  <1>4. passes[run].phase = "ru"
    BY <1>1, <1>2 DEF CorpusInv, OnePass
  <1>5. /\ FileOf(passes[run]) = e.ru
        /\ Read(e.ru, end) = Read(e.ru, passes[run].lines) \cup Corpus!Batch(run)
    BY <1>3, <1>4, BatchBounds DEF FileOf, CorpusInv
  <1>6. Corpus!Linked(run) = {p[2] : p \in e.pairs}
    BY DEF Corpus!Linked, Corpus!Export
  <1> HIDE DEF keys, end
  <1>7. /\ DOMAIN sentences' = DOMAIN sentences \cup keys
        /\ \A i \in keys : sentences'[i] = run
        /\ \A i \in DOMAIN sentences \ keys : sentences'[i] = sentences[i]
    BY <1>2
  <1>8. /\ \A i \in DOMAIN sentences' : sentences'[i] \in DOMAIN passes
        /\ \A p \in DOMAIN links' : links'[p] \in DOMAIN passes
    BY <1>2, <1>3, <1>7 DEF CorpusInv, CorpusTypes
  <1>9. /\ CorpusTypes' /\ OnePass' /\ Corpus!Unfinished' = {run}
        /\ DOMAIN passes' = DOMAIN passes /\ corpus' = corpus /\ clean' = FALSE
        /\ \A r \in DOMAIN passes : passes'[r].version = passes[r].version
        /\ passes'[run].phase = "ru" /\ passes'[run].lines = end
    BY <1>1, <1>2, <1>4, <1>8, CheckpointStep DEF end
  <1>10. Progress(run)'
    <2>1. /\ PairsSoFar(passes[run]) = {} /\ PairsSoFar(passes'[run]) = {}
          /\ LinksOf(run)' = LinksOf(run)
      BY <1>2, <1>4, <1>9 DEF PairsSoFar, LinksOf
    <2>2. RussianSoFar(passes'[run]) = RussianSoFar(passes[run]) \cup keys
      BY <1>3, <1>4, <1>5, <1>6, <1>9 DEF RussianSoFar, keys
    <2>3. Corpus!Rows(run)' = Corpus!Rows(run) \cup keys
      BY <1>7 DEF Corpus!Rows
    <2>4. QED
      BY <1>3, <2>1, <2>2, <2>3 DEF Progress
  <1>11. Whole'
    BY <1>2, <1>7 DEF CorpusInv, Whole
  <1>12. Preserved'
    BY <1>2, <1>9, PreservedByBatch
  <1>13. QED
    BY <1>9, <1>10, <1>11, <1>12 DEF CorpusInv


\* A pair of a clean import: of that export, from the two files.
LEMMA CleanPairs ==
    ASSUME NEW v \in DOMAIN Exports, NEW ens, NEW p \in CleanOfAll(Exports[v], ens)
    PROVE  /\ p = <<p[1], p[2]>> /\ p[1] \in ens
           /\ p[2] \in Corpus!Range(Exports[v].ru)
           /\ p[2] \in {q[2] : q \in Exports[v].pairs}
  <1>1. PICK en \in ens : p \in CleanOf(Exports[v], en)
    BY DEF CleanOfAll
  <1>2. PICK ru \in Corpus!Lowest({q[2] : q \in {s \in Exports[v].pairs :
                              s[1] = en /\ s[2] \in Corpus!Range(Exports[v].ru)}}) :
            p = <<en, ru>>
    BY <1>1 DEF CleanOf
  <1>3. ru \in {q[2] : q \in {s \in Exports[v].pairs :
                                s[1] = en /\ s[2] \in Corpus!Range(Exports[v].ru)}}
    BY <1>2 DEF Corpus!Lowest
  <1>4. QED
    BY <1>1, <1>2, <1>3

\* Of an English sentence the run writes what a clean import would: its Russian
\* sentences are all there, and no English one is taken for one.
LEMMA TranslationsClean ==
    ASSUME NEW r \in DOMAIN passes, passes[r] \in Pass, passes[r].phase = "en", Progress(r),
           passes[r].lines <= Len(FileOf(passes[r])),
           NEW en
    PROVE  Corpus!Translations(r, en) = CleanOf(Exports[passes[r].version], en)
  <1> DEFINE e == Exports[passes[r].version]
             seconds == {p[2] : p \in {q \in e.pairs : q[1] = en}}
             wanted == {p[2] : p \in {q \in e.pairs : q[1] = en /\ q[2] \in Corpus!Range(e.ru)}}
  <1>1. passes[r].version \in DOMAIN Exports
    BY DEF Pass
  <1>2. {p[2] : p \in e.pairs} \cap Corpus!Range(e.en) = {}
    BY <1>1, CorpusConstants
  <1>3. Corpus!Rows(r) = ({p[2] : p \in e.pairs} \cap Corpus!Range(e.ru))
                            \cup {p[1] : p \in PairsSoFar(passes[r])}
    BY DEF Progress, RussianSoFar
  <1>4. {p[1] : p \in PairsSoFar(passes[r])} \subseteq Corpus!Range(e.en)
    <2>1. /\ DOMAIN e.en = 1..Len(e.en) /\ Len(e.en) \in Nat
          /\ passes[r].lines \in Nat /\ passes[r].lines <= Len(e.en)
      <3>1. FileOf(passes[r]) = e.en
        BY DEF FileOf
      <3>2. QED
        BY <3>1, FileLines DEF Pass
    <2>2. Read(e.en, passes[r].lines) \subseteq Corpus!Range(e.en)
      BY <2>1 DEF Read, Corpus!Range
    <2>3. \A p \in PairsSoFar(passes[r]) : p[1] \in Read(e.en, passes[r].lines)
      BY <1>1, CleanPairs DEF PairsSoFar
    <2>4. QED
      BY <2>2, <2>3
  <1>5. seconds \cap Corpus!Rows(r) = wanted
    <2>1. seconds \subseteq {p[2] : p \in e.pairs}
      OBVIOUS
    <2>2. seconds \cap Corpus!Rows(r) = seconds \cap Corpus!Range(e.ru)
      BY <1>2, <1>3, <1>4, <2>1
    <2>3. seconds \cap Corpus!Range(e.ru) = wanted
      OBVIOUS
    <2>4. QED
      BY <2>2, <2>3
  <1>6. Corpus!Translations(r, en) = {<<en, ru>> : ru \in Corpus!Lowest(seconds \cap Corpus!Rows(r))}
    BY DEF Corpus!Translations, Corpus!Export, Corpus!Russian
  <1>7. QED
    BY <1>5, <1>6 DEF CleanOf

LEMMA WriteEnglishStep ==
    ASSUME CorpusInv, Corpus!WriteEnglish PROVE CorpusInv'
  <1>1. PICK run : run = loader.run
    OBVIOUS
  <1> DEFINE e == Exports[passes[run].version]
             pairs == CleanOfAll(e, Corpus!Batch(run))
             keys == {p[1] : p \in pairs}
             end == Corpus!BatchEnd(run)
  <1>2. loader # NoJob /\ loader.step = "en" /\ Corpus!Checkpoint(run, "finish")
    BY <1>1 DEF Corpus!WriteEnglish
  <1>3. /\ run \in DOMAIN passes /\ passes[run] \in Pass /\ Progress(run)
        /\ passes[run].lines <= Len(FileOf(passes[run]))
    BY <1>1, <1>2, LoadersRun
  <1>4. passes[run].phase = "en" /\ passes[run].version \in DOMAIN Exports
    BY <1>1, <1>2, <1>3 DEF CorpusInv, OnePass, Pass
  <1>5. /\ FileOf(passes[run]) = e.en
        /\ Read(e.en, end) = Read(e.en, passes[run].lines) \cup Corpus!Batch(run)
    BY <1>3, <1>4, BatchBounds DEF FileOf, CorpusInv
  <1>6. UNION {Corpus!Translations(run, en) : en \in Corpus!Batch(run)} = pairs
    <2>1. \A en : Corpus!Translations(run, en) = CleanOf(e, en)
      BY <1>3, <1>4, TranslationsClean
    <2>2. QED
      BY <2>1 DEF CleanOfAll
  <1>7. /\ sentences' = [i \in DOMAIN sentences \cup keys |->
                            IF i \in keys THEN run ELSE sentences[i]]
        /\ links' = [p \in DOMAIN links \cup pairs |-> IF p \in pairs THEN run ELSE links[p]]
    BY <1>1, <1>6 DEF Corpus!WriteEnglish, Corpus!Put
  <1>8. \A p \in pairs : p = <<p[1], p[2]>> /\ p[2] \in Corpus!Rows(run)
    <2>1. Corpus!Rows(run) = ({p[2] : p \in e.pairs} \cap Corpus!Range(e.ru))
                                \cup {p[1] : p \in PairsSoFar(passes[run])}
      BY <1>3, <1>4 DEF Progress, RussianSoFar
    <2>2. QED
      BY <1>4, <2>1, CleanPairs
  <1> HIDE DEF pairs, end
  <1>9. /\ DOMAIN sentences' = DOMAIN sentences \cup keys
        /\ \A i \in keys : sentences'[i] = run
        /\ \A i \in DOMAIN sentences \ keys : sentences'[i] = sentences[i]
        /\ DOMAIN links' = DOMAIN links \cup pairs
        /\ \A p \in pairs : links'[p] = run
        /\ \A p \in DOMAIN links \ pairs : links'[p] = links[p]
    BY <1>7
  <1>10. /\ \A i \in DOMAIN sentences' : sentences'[i] \in DOMAIN passes
         /\ \A p \in DOMAIN links' : links'[p] \in DOMAIN passes
    BY <1>3, <1>9 DEF CorpusInv, CorpusTypes
  <1>11. /\ CorpusTypes' /\ OnePass' /\ Corpus!Unfinished' = {run}
         /\ DOMAIN passes' = DOMAIN passes /\ corpus' = corpus /\ clean' = FALSE
         /\ \A r \in DOMAIN passes : passes'[r].version = passes[r].version
         /\ passes'[run].phase = "en" /\ passes'[run].lines = end
    BY <1>1, <1>2, <1>4, <1>10, CheckpointStep DEF end
  <1>12. Progress(run)'
    <2>1. PairsSoFar(passes'[run]) = PairsSoFar(passes[run]) \cup pairs
      BY <1>3, <1>4, <1>5, <1>11 DEF PairsSoFar, CleanOfAll, pairs
    <2>2. RussianSoFar(passes'[run]) = RussianSoFar(passes[run])
      BY <1>3, <1>4, <1>11 DEF RussianSoFar
    <2>3. Corpus!Rows(run)' = Corpus!Rows(run) \cup keys
      BY <1>9 DEF Corpus!Rows
    <2>4. LinksOf(run)' = LinksOf(run) \cup pairs
      BY <1>9 DEF LinksOf
    <2>5. {p[1] : p \in PairsSoFar(passes'[run])} = {p[1] : p \in PairsSoFar(passes[run])} \cup keys
      BY <2>1
    <2>6. QED
      BY <1>3, <2>1, <2>2, <2>3, <2>4, <2>5 DEF Progress
  <1>13. Whole'
    <2>1. \A p \in pairs : p[1] \in DOMAIN sentences' /\ p[2] \in DOMAIN sentences'
      BY <1>8, <1>9 DEF Corpus!Rows
    <2>2. QED
      BY <1>9, <2>1 DEF CorpusInv, Whole
  <1>14. Preserved'
    BY <1>9, <1>11, PreservedByBatch
  <1>15. QED
    BY <1>11, <1>12, <1>13, <1>14 DEF CorpusInv

\* The end deletes the rows of other runs, and leaves the corpus of a clean
\* import: its pairs and their sentences.
LEMMA FinishCorpusStep ==
    ASSUME CorpusInv, Corpus!Finish PROVE CorpusInv'
  <1>1. PICK run : run = loader.run
    OBVIOUS
  <1> DEFINE e == Exports[passes[run].version]
             pairs == CleanOfAll(e, Corpus!Range(e.en))
             x == [passes[run] EXCEPT !.state = "finished"]
             kept == LinksOf(run)
             owned == Corpus!EnglishOf(run) \cup (Corpus!Rows(run) \cap {p[2] : p \in kept})
  <1>2. /\ loader # NoJob /\ loader.step = "finish"
        /\ links' = [p \in DOMAIN links \cap kept |-> links[p]]
        /\ sentences' = [i \in DOMAIN sentences \cap owned |-> sentences[i]]
        /\ passes' = [passes EXCEPT ![run].state = "finished"]
        /\ corpus' = run /\ clean' = TRUE /\ loader' = NoJob /\ export' = export
    BY <1>1 DEF Corpus!Finish, Corpus!Keep, LinksOf
  <1>3. /\ run \in Corpus!Unfinished /\ run \in DOMAIN passes /\ passes[run] \in Pass
        /\ \A r \in Corpus!Unfinished : r = run
        /\ passes \in Seq(Pass) /\ Progress(run)
        /\ passes[run].lines <= Len(FileOf(passes[run]))
    BY <1>1, <1>2, LoadersRun
  <1>4. /\ passes[run].phase = "en" /\ passes[run].lines = Len(FileOf(passes[run]))
        /\ passes[run].version \in DOMAIN Exports
    BY <1>1, <1>2, <1>3 DEF CorpusInv, OnePass, Pass
  <1>5. PairsSoFar(passes[run]) = pairs
    <2>1. FileOf(passes[run]) = e.en /\ FileOf(passes[run]) \in Seq(Nat)
      BY <1>3, <1>4, FileLines DEF FileOf
    <2>2. Read(e.en, passes[run].lines) = Corpus!Range(e.en)
      BY <1>4, <2>1, WholeFile
    <2>3. QED
      BY <1>4, <2>2 DEF PairsSoFar
  <1>6. /\ kept = pairs
        /\ Corpus!Rows(run) = ({p[2] : p \in e.pairs} \cap Corpus!Range(e.ru))
                                \cup {p[1] : p \in pairs}
    BY <1>3, <1>4, <1>5 DEF Progress, RussianSoFar
  <1>7. \A p \in pairs : /\ p[1] \in Corpus!Range(e.en) /\ p[2] \in Corpus!Range(e.ru)
                         /\ p[2] \in {q[2] : q \in e.pairs}
    BY <1>4, CleanPairs
  <1>8. Corpus!Range(e.ru) \cap Corpus!Range(e.en) = {}
    BY <1>4, CorpusConstants
  <1>9. Corpus!EnglishOf(run) = {p[1] : p \in pairs}
    <2>1. Corpus!EnglishOf(run) = Corpus!Rows(run) \cap Corpus!Range(e.en)
      BY DEF Corpus!EnglishOf, Corpus!Export
    <2>2. QED
      BY <1>6, <1>7, <1>8, <2>1
  <1>10. owned = UNION {{p[1], p[2]} : p \in pairs}
    <2>1. Corpus!Rows(run) \cap {p[2] : p \in pairs} = {p[2] : p \in pairs}
      BY <1>6, <1>7
    <2>2. owned = {p[1] : p \in pairs} \cup {p[2] : p \in pairs}
      BY <1>6, <1>9, <2>1
    <2>3. QED
      BY <2>2
  <1>11. pairs \subseteq DOMAIN links /\ owned \subseteq DOMAIN sentences
    BY <1>6 DEF LinksOf, Corpus!EnglishOf, Corpus!Rows
  <1>12. /\ x \in Pass /\ x.state = "finished" /\ x.version = passes[run].version
         /\ x.lines = passes[run].lines /\ FileOf(x) = FileOf(passes[run])
    BY <1>3 DEF Pass, FileOf
  <1>13. passes' = [passes EXCEPT ![run] = x]
    BY <1>2
  <1> HIDE DEF x, owned, pairs, kept
  <1>14. /\ DOMAIN links' = pairs /\ DOMAIN sentences' = owned
         /\ \A p \in pairs : links'[p] = links[p]
         /\ \A i \in owned : sentences'[i] = sentences[i]
    BY <1>2, <1>6, <1>11
  <1>15. /\ passes' \in Seq(Pass) /\ Len(passes') = Len(passes) /\ DOMAIN passes' = DOMAIN passes
         /\ passes'[run] = x /\ \A s \in DOMAIN passes : s # run => passes'[s] = passes[s]
    BY <1>3, <1>12, <1>13, RunsChanged
  <1>16. CorpusTypes'
    <2>1. corpus' \in 0..Len(passes') /\ clean' \in BOOLEAN
      BY <1>2, <1>3, <1>15, PassesDomain DEF CorpusInv
    <2>2. \A s \in DOMAIN passes' : passes'[s].lines <= Len(FileOf(passes'[s]))
      BY <1>12, <1>15 DEF CorpusInv, CorpusTypes
    <2>3. /\ \A i \in DOMAIN sentences : sentences[i] \in DOMAIN passes
          /\ \A p \in DOMAIN links : links[p] \in DOMAIN passes
      BY DEF CorpusInv, CorpusTypes
    <2>4. /\ \A i \in DOMAIN sentences' : sentences'[i] \in DOMAIN passes'
          /\ \A p \in DOMAIN links' : links'[p] \in DOMAIN passes'
      BY <1>11, <1>14, <1>15, <2>3
    <2>5. QED
      BY <1>2, <1>15, <2>1, <2>2, <2>4 DEF CorpusInv, CorpusTypes
  <1>17. Corpus!Unfinished' = {}
    BY <1>3, <1>12, <1>15 DEF Corpus!Unfinished
  <1>18. OnePass'
    BY <1>2, <1>17 DEF OnePass
  <1>19. Whole'
    BY <1>10, <1>14 DEF Whole
  <1>20. CleanCorpus(corpus)' = pairs
    BY <1>2, <1>12, <1>15 DEF CleanCorpus, pairs
  <1>21. Preserved'
    BY <1>10, <1>14, <1>20 DEF Preserved
  <1>22. QED
    BY <1>16, <1>17, <1>18, <1>19, <1>21 DEF CorpusInv

LEMMA CorpusStep == CorpusInv /\ [Next]_vars => CorpusInv'
  <1> SUFFICES ASSUME CorpusInv, [Next]_vars PROVE CorpusInv'
      OBVIOUS
  <1>1. CASE UNCHANGED tatoeba
    <2>1. UNCHANGED <<export, passes, sentences, links, loader, corpus, clean>>
      BY <1>1 DEF tatoeba
    <2>2. CorpusTypes' /\ OnePass' /\ Corpus!Unfinished' = Corpus!Unfinished
      BY <2>1 DEF CorpusInv, CorpusTypes, OnePass, Loader, Corpus!Unfinished
    <2>3. QED
      BY <2>1, <2>2, QuietStep
  <1>2. QED
    BY <1>1, CorpusSteps, LoaderStep, AbandonStep, NewRunStep, TurnStep, WriteRussianStep,
       WriteEnglishStep, FinishCorpusStep

LEMMA CorpusInit == Init => CorpusInv
  <1> SUFFICES ASSUME Init PROVE CorpusInv
      OBVIOUS
  <1>1. /\ export = 1 /\ passes = <<>> /\ loader = NoJob
        /\ sentences = [i \in {} |-> 0] /\ links = [p \in {} |-> 0]
        /\ corpus = 0 /\ clean = FALSE
    BY DEF Init, Corpus!Init
  <1>2. /\ passes \in Seq(Pass) /\ Len(passes) = 0 /\ DOMAIN passes = {}
        /\ DOMAIN sentences = {} /\ DOMAIN links = {}
    BY <1>1, EmptySeq
  <1>3. CorpusTypes
    <2>1. export \in DOMAIN Exports /\ corpus \in 0..Len(passes)
      BY <1>1, <1>2, CorpusConstants
    <2>2. clean \in BOOLEAN
      BY <1>1
    <2>3. QED
      BY <1>2, <2>1, <2>2 DEF CorpusTypes
  <1>4. Corpus!Unfinished = {}
    BY <1>2 DEF Corpus!Unfinished
  <1>5. QED
    BY <1>1, <1>2, <1>3, <1>4 DEF CorpusInv, OnePass, Whole, Preserved

\* A run that finishes leaves the corpus of a clean import of its export,
\* wherever it was interrupted, resumed or restarted, nothing of it is missing
\* until the next run finishes, and no pair ever lacks a sentence.
THEOREM CorpusCorrect == Spec => []ImportedCorpus
  <1>1. CorpusInv => ImportedCorpus
    <2> SUFFICES ASSUME CorpusInv PROVE ImportedCorpus
        OBVIOUS
    <2>1. corpus # 0 => Corpus!CleanPairs(corpus) = CleanCorpus(corpus)
      BY DEF Corpus!CleanPairs, Corpus!Export, CleanCorpus, CleanOfAll, CleanOf
    <2>2. Whole /\ Preserved
      BY DEF CorpusInv
    <2>3. QED
      BY <2>1, <2>2 DEF Whole, Preserved, ImportedCorpus, Corpus!ImportedCorpus
  <1>2. QED
    BY <1>1, CorpusInit, CorpusStep, PTL DEF Spec

-----------------------------------------------------------------------------
\* The dictionary

LEMMA DictionarySteps ==
    ASSUME [Next]_vars
    PROVE  \/ UNCHANGED dictionary
           \/ \E s \in Sources : \/ Dictionary!BeginNew(s) \/ Dictionary!Resume(s)
                                 \/ Dictionary!Restart(s) \/ Dictionary!Publish(s)
           \/ Dictionary!WriteBatch \/ Dictionary!Finish \/ Dictionary!Empty
           \/ Dictionary!Abort
  <1>1. CASE UNCHANGED vars
    BY <1>1 DEF vars
  <1>2. CASE DictionaryNext
    BY <1>2 DEF DictionaryNext
  <1>3. CASE CalendarNext \/ ScheduleNext \/ HarvestNext \/ CorpusNext
    <2>1. \E p \in {"calendar", "schedule", "harvest", "tatoeba"} : Others(p)
      BY <1>3 DEF CalendarNext, ScheduleNext, HarvestNext, CorpusNext
    <2>2. QED
      BY <2>1 DEF Others
  <1>4. QED
    BY <1>1, <1>2, <1>3 DEF Next

LinesOf(row) == Dumps[row.source][row.version]

Run == {row \in [source : Sources, version : Nat, lines : Nat, wrote : BOOLEAN,
                 state : {"running", "finished", "abandoned"}] :
           /\ row.version \in DOMAIN Dumps[row.source]
           /\ row.lines <= Len(LinesOf(row))}
Reader == [run : DOMAIN runs, step : {"read", "finish"}]

Running(r) == r \in DOMAIN runs /\ runs[r].state = "running"

DictionaryTypes ==
    /\ version \in [Sources -> Nat]
    /\ \A s \in Sources : version[s] \in DOMAIN Dumps[s]
    /\ runs \in Seq(Run)
    /\ \A w \in DOMAIN definitions :
          definitions[w].run \in DOMAIN runs /\ definitions[w].line \in Nat
    /\ last \in 0..Len(runs) /\ settled \in BOOLEAN /\ crossed \subseteq DOMAIN runs

\* A source has one unfinished run, and who holds the lock works on one.
OneRun ==
    /\ \A r, s \in DOMAIN runs : Running(r) /\ Running(s) /\ runs[r].source = runs[s].source
                                     => r = s
    /\ job # NoJob =>
          /\ job \in Reader /\ Running(job.run)
          /\ job.step = "finish" => runs[job.run].lines = Len(LinesOf(runs[job.run]))

Words(lines, end) == {lines[n] : n \in 1..end} \ {NoEntry}
First(lines, w) == Dictionary!Min({n \in DOMAIN lines : lines[n] = w})

\* The articles of an unfinished run that no other crossed: those of the lines
\* before its checkpoint, each from the first line that has it.
Articles(r) ==
    LET words == Words(LinesOf(runs[r]), runs[r].lines)
    IN  /\ {w \in DOMAIN definitions : definitions[w].run = r} = words
        /\ \A w \in words : definitions[w] = [run |-> r, line |-> First(LinesOf(runs[r]), w)]

CleanWords(r) == Words(LinesOf(runs[r]), Len(LinesOf(runs[r])))
CleanArticles(r) ==
    [w \in CleanWords(r) |-> [run |-> r, line |-> First(LinesOf(runs[r]), w)]]

\* The dictionary of the run that finished last.
LastKept ==
    /\ last # 0 => runs[last].state = "finished"
    /\ last \notin crossed \cup {0} =>
          /\ settled => definitions = CleanArticles(last)
          /\ \A w \in CleanWords(last) :
                /\ w \in DOMAIN definitions
                /\ definitions[w].run = last => definitions[w] = CleanArticles(last)[w]

DictionaryInv ==
    /\ DictionaryTypes /\ OneRun
    /\ \A r \in DOMAIN runs \ crossed : Running(r) => Articles(r)
    /\ LastKept

\* Among natural numbers one is the least: the one with the least set of
\* smaller ones.
LEMMA Minimum ==
    ASSUME NEW S, S \subseteq Nat, S # {}
    PROVE  Dictionary!Min(S) \in S /\ \A n \in S : Dictionary!Min(S) <= n
  <1> DEFINE Below(n) == {k \in S : k < n}
             Belows == {Below(n) : n \in S}
  <1>0. \A k \in S : k \in Nat
    OBVIOUS
  <1>1. Belows \subseteq FiniteSubsetsOf(S)
    <2>1. \A n \in S : Below(n) \in SUBSET S
      OBVIOUS
    <2>2. ASSUME NEW n \in S PROVE Below(n) \subseteq 0..n /\ IsFiniteSet(0..n)
      <3>1. n \in Nat
        BY <1>0
      <3>2. ASSUME NEW k \in Below(n) PROVE k \in 0..n
        <4>1. k \in Nat /\ k < n
          BY <1>0
        <4>2. QED
          BY <3>1, <4>1
      <3>3. IsFiniteSet(0..n)
        BY <3>1, FS_Interval
      <3>4. QED
        BY <3>2, <3>3
    <2>3. \A n \in S : IsFiniteSet(Below(n))
      BY <2>2, FS_Subset
    <2>4. QED
      BY <2>1, <2>3 DEF FiniteSubsetsOf
  <1>2. Belows # {}
    OBVIOUS
  <1>3. PICK least \in Belows :
            \A other \in Belows : ~(<<other, least>> \in StrictSubsetOrdering(S))
    BY <1>1, <1>2, WFMin, FS_StrictSubsetOrderingWellFounded
  <1>4. PICK m \in S : least = Below(m)
    OBVIOUS
  <1>5. \A n \in S : m <= n
    <2>1. SUFFICES ASSUME NEW n \in S, n < m PROVE FALSE
      BY <1>0
    <2>2. n \in Below(m) /\ n \notin Below(n) /\ Below(n) \subseteq Below(m)
      <3>1. n \in Nat /\ m \in Nat /\ ~(n < n)
        BY <1>0
      <3>2. ASSUME NEW k \in S, k < n PROVE k < m
        BY <1>0, <2>1, <3>1, <3>2
      <3>3. QED
        BY <2>1, <3>1, <3>2
    <2>3. <<Below(n), Below(m)>> \in StrictSubsetOrdering(S)
      BY <2>2 DEF StrictSubsetOrdering
    <2>4. QED
      BY <1>3, <1>4, <2>3
  <1>6. QED
    BY <1>5 DEF Dictionary!Min

LEMMA DictionaryConstants ==
    /\ DictionaryBatch \in Nat \ {0}
    /\ \A s \in Sources :
          /\ Len(Dumps[s]) \in Nat /\ Len(Dumps[s]) >= 1
          /\ DOMAIN Dumps[s] = 1..Len(Dumps[s])
          /\ \A v \in DOMAIN Dumps[s] :
                Len(Dumps[s][v]) \in Nat /\ DOMAIN Dumps[s][v] = 1..Len(Dumps[s][v])
  <1>1. Dictionary!DictionaryAssumption
    BY BackgroundAssumption
  <1>2. ASSUME NEW s \in Sources
        PROVE  /\ Len(Dumps[s]) \in Nat /\ Len(Dumps[s]) >= 1
               /\ DOMAIN Dumps[s] = 1..Len(Dumps[s])
    <2>1. Dumps[s] \in Seq(Dictionary!Range(Dumps[s])) /\ Dumps[s] # <<>>
      BY <1>1 DEF Dictionary!DictionaryAssumption, Dictionary!IsSequence
    <2>2. Len(Dumps[s]) \in Nat /\ DOMAIN Dumps[s] = 1..Len(Dumps[s])
      BY <2>1, LenProperties
    <2>3. Len(Dumps[s]) # 0
      BY <2>1, EmptySeq
    <2>4. QED
      BY <2>2, <2>3
  <1>3. ASSUME NEW s \in Sources, NEW v \in DOMAIN Dumps[s]
        PROVE  Len(Dumps[s][v]) \in Nat /\ DOMAIN Dumps[s][v] = 1..Len(Dumps[s][v])
    <2>1. Dumps[s][v] \in Seq(Dictionary!Range(Dumps[s][v]))
      BY <1>1 DEF Dictionary!DictionaryAssumption, Dictionary!IsSequence
    <2>2. QED
      BY <2>1, LenProperties
  <1>4. QED
    BY <1>1, <1>2, <1>3 DEF Dictionary!DictionaryAssumption

LEMMA RunFacts ==
    ASSUME DictionaryTypes, NEW r \in DOMAIN runs
    PROVE  /\ r \in Nat /\ Len(runs) \in Nat /\ DOMAIN runs = 1..Len(runs)
           /\ runs[r] \in Run /\ runs[r].lines \in Nat
           /\ runs[r].source \in Sources
           /\ runs[r].version \in DOMAIN Dumps[runs[r].source]
           /\ Dictionary!Lines(r) = LinesOf(runs[r])
           /\ Len(LinesOf(runs[r])) \in Nat /\ runs[r].lines <= Len(LinesOf(runs[r]))
           /\ DOMAIN LinesOf(runs[r]) = 1..Len(LinesOf(runs[r]))
  <1>1. runs \in Seq(Run) /\ DOMAIN runs = 1..Len(runs) /\ Len(runs) \in Nat
    BY LenProperties DEF DictionaryTypes
  <1>2. runs[r] \in Run
    BY <1>1, ElementOfSeq
  <1>3. /\ runs[r].source \in Sources /\ runs[r].lines \in Nat
        /\ runs[r].version \in DOMAIN Dumps[runs[r].source]
        /\ runs[r].lines <= Len(LinesOf(runs[r]))
    BY <1>2 DEF Run
  <1>4. QED
    BY <1>1, <1>2, <1>3, DictionaryConstants DEF LinesOf, Dictionary!Lines

\* A batch ends behind its checkpoint and not behind the file's end.
LEMMA BatchFacts ==
    ASSUME DictionaryTypes, NEW r \in DOMAIN runs
    PROVE  /\ Dictionary!BatchEnd(r) \in Nat /\ runs[r].lines <= Dictionary!BatchEnd(r)
           /\ Dictionary!BatchEnd(r) <= Len(LinesOf(runs[r]))
  <1> DEFINE end == Len(LinesOf(runs[r]))
             mark == (runs[r].lines \div DictionaryBatch + 1) * DictionaryBatch
  <1>1. end \in Nat /\ runs[r].lines \in Nat /\ runs[r].lines <= end
        /\ Dictionary!Lines(r) = LinesOf(runs[r])
    BY RunFacts
  <1>2. mark \in Nat /\ mark > runs[r].lines
    BY <1>1, DictionaryConstants, NextCheckpoint
  <1> HIDE DEF mark
  <1>3. Dictionary!Min({end, mark}) \in {end, mark} /\ Dictionary!Min({end, mark}) <= end
    BY <1>1, <1>2, Minimum
  <1>4. Dictionary!BatchEnd(r) = Dictionary!Min({end, mark})
    BY <1>1 DEF Dictionary!BatchEnd, mark
  <1>5. QED
    BY <1>1, <1>2, <1>3, <1>4

\* The first line of an article that the lines up to end have.
LEMMA FirstFacts ==
    ASSUME NEW lines, NEW end \in Nat, Len(lines) \in Nat, DOMAIN lines = 1..Len(lines),
           end <= Len(lines), NEW w \in Words(lines, end)
    PROVE  First(lines, w) \in 1..end
  <1> DEFINE S == {n \in DOMAIN lines : lines[n] = w}
  <1>1. PICK n \in 1..end : lines[n] = w
    BY DEF Words
  <1>2. n \in S /\ S \subseteq Nat /\ \A m \in S : m >= 1
    BY <1>1
  <1>3. Dictionary!Min(S) \in S /\ Dictionary!Min(S) <= n
    BY <1>2, Minimum
  <1>4. QED
    BY <1>1, <1>2, <1>3 DEF First

\* An article that no line up to from has, and one between from and end has,
\* has its first line there.
LEMMA FirstInBatch ==
    ASSUME NEW lines, NEW from \in Nat, NEW end \in Nat, Len(lines) \in Nat,
           DOMAIN lines = 1..Len(lines), from <= end, end <= Len(lines),
           NEW w, w \notin Words(lines, from), w # NoEntry,
           \E n \in from + 1 .. end : lines[n] = w
    PROVE  Dictionary!Min({n \in from + 1 .. end : lines[n] = w}) = First(lines, w)
  <1> DEFINE S == {n \in DOMAIN lines : lines[n] = w}
             T == {n \in from + 1 .. end : lines[n] = w}
  <1>1. T \subseteq S /\ S \subseteq Nat /\ T # {} /\ S # {} /\ T \subseteq Nat
    OBVIOUS
  <1>2. /\ Dictionary!Min(S) \in S /\ \A n \in S : Dictionary!Min(S) <= n
        /\ Dictionary!Min(T) \in T /\ \A n \in T : Dictionary!Min(T) <= n
    BY <1>1, Minimum
  <1>3. \A n \in S : n > from
    BY DEF Words
  <1>4. Dictionary!Min(S) <= Dictionary!Min(T) /\ Dictionary!Min(T) \in from + 1 .. end
    BY <1>1, <1>2
  <1>5. Dictionary!Min(S) \in T
    BY <1>2, <1>3, <1>4
  <1>6. QED
    BY <1>1, <1>2, <1>4, <1>5 DEF First

\* What other steps leave alone.
LEMMA ArticlesKept ==
    ASSUME NEW r, Articles(r), runs'[r] = runs[r],
           {w \in DOMAIN definitions' : definitions'[w].run = r}
               = {w \in DOMAIN definitions : definitions[w].run = r},
           \A w \in DOMAIN definitions : definitions[w].run = r => definitions'[w] = definitions[w]
    PROVE  Articles(r)'
  <1> DEFINE lines == LinesOf(runs[r])
             words == Words(lines, runs[r].lines)
  <1>1. /\ {w \in DOMAIN definitions : definitions[w].run = r} = words
        /\ \A w \in words : definitions[w] = [run |-> r, line |-> First(lines, w)]
    BY DEF Articles
  <1>2. LinesOf(runs[r])' = lines /\ runs[r].lines' = runs[r].lines
    BY DEF LinesOf
  <1>3. Words(LinesOf(runs[r]), runs[r].lines)' = words
    BY <1>2 DEF Words
  <1>4. \A w \in words : First(LinesOf(runs[r]), w)' = First(lines, w)
    BY <1>2 DEF First
  <1>5. \A w \in words : w \in DOMAIN definitions /\ definitions[w].run = r
    BY <1>1
  <1>6. \A w \in words : definitions'[w] = definitions[w]
    BY <1>5
  <1> HIDE DEF lines, words
  <1>7. {w \in DOMAIN definitions' : definitions'[w].run = r} = words
    BY <1>1
  <1>8. \A w \in words : definitions'[w] = [run |-> r, line |-> First(LinesOf(runs[r]), w)']
    BY <1>1, <1>4, <1>6
  <1>9. QED
    BY <1>3, <1>7, <1>8 DEF Articles

LEMMA LastKeptSame ==
    ASSUME LastKept, last' = last, settled' = settled, crossed' = crossed,
           definitions' = definitions, last # 0 => runs'[last] = runs[last]
    PROVE  LastKept'
  <1>1. CASE last = 0
    BY <1>1 DEF LastKept
  <1>2. CASE last # 0
    <2>1. runs'[last] = runs[last]
      BY <1>2
    <2>2. CleanWords(last)' = CleanWords(last) /\ CleanArticles(last)' = CleanArticles(last)
      BY <2>1 DEF CleanWords, CleanArticles, LinesOf, Words, First
    <2>3. QED
      BY <2>1, <2>2 DEF LastKept
  <1>3. QED
    BY <1>1, <1>2

\* The steps that touch no table: those that only take or leave the lock.
LEMMA LockStep ==
    ASSUME DictionaryInv,
           UNCHANGED <<runs, definitions, last, settled, crossed>>,
           version' \in [Sources -> Nat], \A s \in Sources : version'[s] \in DOMAIN Dumps[s],
           \/ job' = job
           \/ job' = NoJob
           \/ \E r \in DOMAIN runs : Running(r) /\ job' = [run |-> r, step |-> "read"]
    PROVE  DictionaryInv'
  <1>1. DictionaryTypes'
    BY DEF DictionaryInv, DictionaryTypes
  <1>2. OneRun'
    <2>1. \A r : Running(r)' <=> Running(r)
      BY DEF Running
    <2>2. CASE job' = job
      BY <2>1, <2>2 DEF DictionaryInv, OneRun, Reader, LinesOf
    <2>3. CASE job' = NoJob
      BY <2>1, <2>3 DEF DictionaryInv, OneRun
    <2>4. CASE \E r \in DOMAIN runs : Running(r) /\ job' = [run |-> r, step |-> "read"]
      <3>1. PICK r \in DOMAIN runs : Running(r) /\ job' = [run |-> r, step |-> "read"]
        BY <2>4
      <3>2. job' \in Reader' /\ job'.run = r /\ job'.step = "read"
        BY <3>1 DEF Reader
      <3>3. Running(job.run)'
        BY <2>1, <3>1, <3>2 DEF Running
      <3>4. \A p, q \in DOMAIN runs' :
                Running(p)' /\ Running(q)' /\ runs'[p].source = runs'[q].source => p = q
        BY <2>1 DEF DictionaryInv, OneRun
      <3>5. QED
        BY <3>2, <3>3, <3>4 DEF OneRun
    <2>5. QED
      BY <2>2, <2>3, <2>4
  <1>3. \A r \in DOMAIN runs' \ crossed' : Running(r)' => Articles(r)'
    BY ArticlesKept DEF DictionaryInv, Running
  <1>4. LastKept'
    BY LastKeptSame DEF DictionaryInv
  <1>5. QED
    BY <1>1, <1>2, <1>3, <1>4 DEF DictionaryInv

\* A new run of a source whose unfinished run, if any, was given up.
LEMMA AddRunStep ==
    ASSUME DictionaryInv, NEW source \in Sources, NEW mid \in Seq(Run),
           Len(mid) = Len(runs), DOMAIN mid = DOMAIN runs,
           \A r \in DOMAIN runs :
               \/ mid[r] = runs[r]
               \/ Running(r) /\ mid[r] = [runs[r] EXCEPT !.state = "abandoned"],
           \A r \in DOMAIN runs : mid[r].source = source => mid[r].state # "running",
           runs' = Append(mid, Dictionary!NewRun(source)),
           job' = Dictionary!Work(Len(runs')),
           UNCHANGED <<version, definitions, last, settled, crossed>>
    PROVE  DictionaryInv'
  <1> DEFINE new == Len(runs) + 1
  <1>1. DictionaryTypes /\ OneRun /\ LastKept
    BY DEF DictionaryInv
  <1>2. /\ Dictionary!NewRun(source) = [source |-> source, version |-> version[source],
                            lines |-> 0, wrote |-> FALSE, state |-> "running"]
        /\ Dictionary!NewRun(source) \in Run
    <2>1. version[source] \in DOMAIN Dumps[source] /\ version[source] \in Nat
      BY <1>1 DEF DictionaryTypes
    <2>2. Len(Dumps[source][version[source]]) \in Nat
      BY <2>1, DictionaryConstants
    <2>3. QED
      BY <2>1, <2>2 DEF Dictionary!NewRun, Run, LinesOf
  <1>3. /\ runs' \in Seq(Run) /\ Len(runs) \in Nat /\ Len(runs') = new
        /\ DOMAIN runs = 1..Len(runs) /\ DOMAIN runs' = 1..new
        /\ runs'[new] = Dictionary!NewRun(source)
        /\ \A r \in DOMAIN runs : runs'[r] = mid[r]
    BY <1>2, RunAdded
  <1>4. DOMAIN runs' = DOMAIN runs \cup {new} /\ new \notin DOMAIN runs
    BY <1>3
  <1>5. job' = [run |-> new, step |-> "read"]
    BY <1>3 DEF Dictionary!Work
  <1> HIDE DEF new
  <1>6. DictionaryTypes'
    <2>1. \A w \in DOMAIN definitions' :
              definitions'[w].run \in DOMAIN runs' /\ definitions'[w].line \in Nat
      BY <1>1, <1>4 DEF DictionaryTypes
    <2>2. last' \in 0..Len(runs')
      BY <1>1, <1>3 DEF DictionaryTypes, new
    <2>3. crossed' \subseteq DOMAIN runs'
      BY <1>1, <1>4 DEF DictionaryTypes
    <2>4. QED
      BY <1>1, <1>3, <2>1, <2>2, <2>3 DEF DictionaryTypes
  <1>7. \A r \in DOMAIN runs : Running(r)' =>
            Running(r) /\ runs'[r] = runs[r] /\ runs[r].source # source
    <2>1. SUFFICES ASSUME NEW r \in DOMAIN runs, runs'[r].state = "running"
                   PROVE  /\ runs[r].state = "running" /\ runs'[r] = runs[r]
                          /\ runs[r].source # source
      BY DEF Running
    <2>2. runs[r] \in Run /\ runs'[r] = mid[r] /\ mid[r].state = "running"
      BY <1>1, <1>3, <2>1, RunFacts
    <2>3. mid[r] = runs[r]
      <3>1. [runs[r] EXCEPT !.state = "abandoned"].state = "abandoned"
        BY <2>2 DEF Run
      <3>2. QED
        BY <2>2, <3>1
    <2>4. QED
      BY <2>2, <2>3
  <1>8. OneRun'
    <2>1. ASSUME NEW r \in DOMAIN runs', NEW s \in DOMAIN runs', Running(r)', Running(s)',
                 runs'[r].source = runs'[s].source
          PROVE  r = s
      <3>1. CASE r \in DOMAIN runs /\ s \in DOMAIN runs
        BY <1>1, <1>7, <2>1, <3>1 DEF OneRun
      <3>2. CASE r = new /\ s = new
        BY <3>2
      <3>3. CASE r = new /\ s \in DOMAIN runs
        BY <1>2, <1>3, <1>7, <2>1, <3>3
      <3>4. CASE r \in DOMAIN runs /\ s = new
        BY <1>2, <1>3, <1>7, <2>1, <3>4
      <3>5. QED
        BY <1>4, <3>1, <3>2, <3>3, <3>4
    <2>2. job' \in Reader' /\ Running(job.run)' /\ job'.step = "read"
      BY <1>2, <1>3, <1>4, <1>5 DEF Reader, Running
    <2>3. QED
      BY <2>1, <2>2 DEF OneRun
  <1>9. ASSUME NEW r \in DOMAIN runs' \ crossed', Running(r)' PROVE Articles(r)'
    <2>1. CASE r \in DOMAIN runs
      BY <1>7, <1>9, <2>1, ArticlesKept DEF DictionaryInv
    <2>2. CASE r = new
      <3>1. \A w \in DOMAIN definitions' : definitions'[w].run # new
        BY <1>1, <1>4 DEF DictionaryTypes
      <3>2. Words(LinesOf(runs[r]), runs[r].lines)' = {}
        <4>1. runs'[r].lines = 0
          BY <1>2, <1>3, <2>2
        <4>2. QED
          BY <4>1 DEF Words
      <3>3. QED
        BY <2>2, <3>1, <3>2 DEF Articles
    <2>3. QED
      BY <1>4, <2>1, <2>2
  <1>10. LastKept'
    <2>1. last # 0 => last \in DOMAIN runs
      BY <1>1, <1>3 DEF DictionaryTypes
    <2>2. last # 0 => runs'[last] = runs[last]
      BY <1>1, <1>3, <2>1 DEF LastKept, Running
    <2>3. QED
      BY <1>1, <2>2, LastKeptSame
  <1>11. QED
    BY <1>6, <1>8, <1>9, <1>10 DEF DictionaryInv

LEMMA BeginStep ==
    ASSUME DictionaryInv, NEW source \in Sources,
           Dictionary!BeginNew(source) \/ Dictionary!Restart(source)
    PROVE  DictionaryInv'
  <1>1. DictionaryTypes /\ OneRun /\ runs \in Seq(Run)
    BY DEF DictionaryInv, DictionaryTypes
  <1>2. CASE Dictionary!BeginNew(source)
    <2>1. \A r \in DOMAIN runs : runs[r].source = source => runs[r].state # "running"
      BY <1>2 DEF Dictionary!BeginNew, Dictionary!Unfinished
    <2>2. PICK rows : rows = runs
      OBVIOUS
    <2>3. QED
      BY <1>1, <1>2, <2>1, <2>2, AddRunStep DEF Dictionary!BeginNew
  <1>3. CASE Dictionary!Restart(source)
    <2>1. PICK run \in Dictionary!Unfinished(source) :
              /\ runs' = Dictionary!Restarted(run)
              /\ job' = Dictionary!Work(Len(runs'))
              /\ UNCHANGED <<version, definitions, last, settled, crossed>>
      BY <1>3 DEF Dictionary!Restart
    <2>2. run \in DOMAIN runs /\ Running(run) /\ runs[run].source = source
      BY <2>1 DEF Dictionary!Unfinished, Running
    <2> DEFINE row == [runs[run] EXCEPT !.state = "abandoned"]
               mid == [runs EXCEPT ![run] = row]
    <2>3. row \in Run /\ row.source = source /\ row.state = "abandoned"
      <3>1. runs[run] \in Run
        BY <1>1, <2>2, RunFacts
      <3>2. QED
        BY <2>2, <3>1 DEF Run, LinesOf
    <2>4. [runs EXCEPT ![run].state = "abandoned"] = mid
      OBVIOUS
    <2>5. runs' = Append(mid, Dictionary!NewRun(source))
      BY <2>1, <2>2, <2>4 DEF Dictionary!Restarted
    <2>6. /\ mid \in Seq(Run) /\ Len(mid) = Len(runs) /\ DOMAIN mid = DOMAIN runs
          /\ mid[run] = row /\ \A r \in DOMAIN runs : r # run => mid[r] = runs[r]
      <3> HIDE DEF row
      <3>1. QED
        BY <1>1, <2>2, <2>3, RunsChanged
    <2>7. \A r \in DOMAIN runs :
              \/ mid[r] = runs[r]
              \/ Running(r) /\ mid[r] = [runs[r] EXCEPT !.state = "abandoned"]
      <3> HIDE DEF mid
      <3>1. QED
        BY <2>2, <2>6
    <2>8. \A r \in DOMAIN runs : mid[r].source = source => mid[r].state # "running"
      <3> HIDE DEF mid, row
      <3>1. QED
        BY <1>1, <2>2, <2>3, <2>6 DEF OneRun, Running
    <2> HIDE DEF mid
    <2>9. PICK rows : rows = mid
      OBVIOUS
    <2>10. QED
      BY <2>1, <2>5, <2>6, <2>7, <2>8, <2>9, AddRunStep
  <1>4. QED
    BY <1>2, <1>3

\* The lines a batch reads are written once: a run's article is from its first
\* line, and no article of another run that is in progress is overwritten
\* without counting as crossed.
LEMMA WriteBatchStep == ASSUME DictionaryInv, Dictionary!WriteBatch PROVE DictionaryInv'
  <1>1. DictionaryTypes /\ OneRun /\ LastKept
    BY DEF DictionaryInv
  <1>2. PICK run : run = job.run
    OBVIOUS
  <1> DEFINE lines == LinesOf(runs[run])
             from == runs[run].lines
  <1>3. PICK end : end = Dictionary!BatchEnd(run)
    OBVIOUS
  <1>4. /\ job # NoJob /\ job \in Reader /\ Running(run) /\ run \in DOMAIN runs
        /\ job.step = "read"
    BY <1>1, <1>2 DEF Dictionary!WriteBatch, OneRun, Running
  <1>5. /\ Dictionary!Lines(run) = lines /\ Len(lines) \in Nat /\ DOMAIN lines = 1..Len(lines)
        /\ from \in Nat /\ end \in Nat /\ from <= end /\ end <= Len(lines)
        /\ runs[run] \in Run
    BY <1>1, <1>3, <1>4, RunFacts, BatchFacts
  <1>6. PICK row : row = [runs[run] EXCEPT !.lines = end,
                             !.wrote = runs[run].wrote \/ Dictionary!BatchLinesOf(run) # {}]
    OBVIOUS
  <1>7. /\ row \in Run /\ row.lines = end /\ row.source = runs[run].source
        /\ row.state = runs[run].state /\ LinesOf(row) = lines
    <2>2. row.lines = end /\ row.source = runs[run].source /\ row.state = runs[run].state
          /\ row.version = runs[run].version
      BY <1>5, <1>6 DEF Run
    <2>3. LinesOf(row) = lines
      BY <2>2 DEF LinesOf
    <2>4. (runs[run].wrote \/ Dictionary!BatchLinesOf(run) # {}) \in BOOLEAN
      <3>1. runs[run].wrote \in BOOLEAN
        BY <1>5 DEF Run
      <3>2. QED
        BY <3>1
    <2>5. row \in [source : Sources, version : Nat, lines : Nat, wrote : BOOLEAN,
                   state : {"running", "finished", "abandoned"}]
      BY <1>5, <1>6, <2>4 DEF Run
    <2>6. row.version \in DOMAIN Dumps[row.source]
      BY <1>5, <2>2 DEF Run
    <2>7. QED
      BY <1>5, <2>2, <2>3, <2>5, <2>6 DEF Run
  <1>8. runs' = [runs EXCEPT ![run] = row]
    BY <1>2, <1>3, <1>4, <1>6 DEF Dictionary!WriteBatch
  <1>9. /\ runs' \in Seq(Run) /\ Len(runs') = Len(runs) /\ DOMAIN runs' = DOMAIN runs
        /\ runs'[run] = row /\ \A r \in DOMAIN runs : r # run => runs'[r] = runs[r]
    BY <1>1, <1>4, <1>7, <1>8, RunsChanged DEF DictionaryTypes
  <1>10. /\ definitions' = Dictionary!Written(run)
         /\ crossed' = crossed \cup Dictionary!CrossedBy(run)
         /\ job' = IF end = Len(Dictionary!Lines(run)) THEN [job EXCEPT !.step = "finish"] ELSE job
         /\ settled' = FALSE /\ version' = version /\ last' = last
    BY <1>2, <1>3 DEF Dictionary!WriteBatch
  <1>11. Dictionary!BatchLinesOf(run) = {n \in from + 1 .. end : lines[n] # NoEntry}
    BY <1>3, <1>5 DEF Dictionary!BatchLinesOf
  <1> HIDE DEF lines, from
  \* What the batch does to the table.
  <1>12. PICK words : words = {lines[n] : n \in Dictionary!BatchLinesOf(run)}
    OBVIOUS
  <1>13. /\ DOMAIN definitions' = DOMAIN definitions \cup words
         /\ \A w \in DOMAIN definitions' :
               IF w \in words /\ (w \in DOMAIN definitions =>
                       Dictionary!Yields(definitions[w], run, Dictionary!FirstLine(run, w)))
               THEN definitions'[w] = [run |-> run, line |-> Dictionary!FirstLine(run, w)]
               ELSE definitions'[w] = definitions[w]
    BY <1>5, <1>10, <1>12 DEF Dictionary!Written
  <1>14. ASSUME NEW w \in words
         PROVE  /\ w # NoEntry
                /\ Dictionary!FirstLine(run, w) \in from + 1 .. end
                /\ w \notin Words(lines, from) => Dictionary!FirstLine(run, w) = First(lines, w)
    <2> DEFINE T == {n \in from + 1 .. end : lines[n] = w}
    <2>1. PICK n \in from + 1 .. end : lines[n] = w /\ w # NoEntry
      BY <1>11, <1>12
    <2>2. Dictionary!LinesWith(run, w) = T
      BY <1>5, <1>11, <2>1 DEF Dictionary!LinesWith
    <2>3. T \subseteq Nat /\ T # {} /\ T \subseteq from + 1 .. end
      BY <1>5, <2>1
    <2>4. Dictionary!Min(T) \in T
      BY <2>3, Minimum
    <2>5. w \notin Words(lines, from) => Dictionary!Min(T) = First(lines, w)
      BY <1>5, <2>1, FirstInBatch
    <2>6. QED
      BY <2>1, <2>2, <2>3, <2>4, <2>5 DEF Dictionary!FirstLine
  <1>15. Words(lines, end) = Words(lines, from) \cup words
    <2>1. 1..end = 1..from \cup from + 1 .. end
      BY <1>5
    <2>2. QED
      BY <1>11, <1>12, <2>1 DEF Words
  <1>16. ASSUME NEW w \in DOMAIN definitions'
         PROVE  \/ definitions'[w] = [run |-> run, line |-> Dictionary!FirstLine(run, w)] /\ w \in words
                \/ definitions'[w] = definitions[w] /\ w \in DOMAIN definitions
    BY <1>13
  <1>17. DictionaryTypes'
    <2>1. ASSUME NEW w \in DOMAIN definitions'
          PROVE  definitions'[w].run \in DOMAIN runs' /\ definitions'[w].line \in Nat
      <3>1. CASE /\ definitions'[w] = [run |-> run, line |-> Dictionary!FirstLine(run, w)]
                 /\ w \in words
        <4>1. Dictionary!FirstLine(run, w) \in Nat
          BY <1>5, <1>14, <3>1
        <4>2. QED
          BY <1>4, <1>9, <3>1, <4>1
      <3>2. CASE definitions'[w] = definitions[w] /\ w \in DOMAIN definitions
        BY <1>1, <1>9, <3>2 DEF DictionaryTypes
      <3>3. QED
        BY <1>16, <3>1, <3>2
    <2>2. crossed' \subseteq DOMAIN runs'
      BY <1>1, <1>9, <1>10 DEF DictionaryTypes, Dictionary!CrossedBy
    <2>3. last' \in 0..Len(runs') /\ settled' \in BOOLEAN
      BY <1>1, <1>9, <1>10 DEF DictionaryTypes
    <2>4. QED
      BY <1>1, <1>9, <1>10, <2>1, <2>2, <2>3 DEF DictionaryTypes
  <1>18. \A r \in DOMAIN runs : (Running(r)' <=> Running(r)) /\ runs'[r].source = runs[r].source
    BY <1>4, <1>7, <1>9 DEF Running
  <1>19. OneRun'
    <2>1. \A r, s \in DOMAIN runs' :
              Running(r)' /\ Running(s)' /\ runs'[r].source = runs'[s].source => r = s
      BY <1>1, <1>9, <1>18 DEF OneRun
    <2>2. job' \in Reader' /\ job'.run = run
      <3>1. job \in [run : DOMAIN runs', step : {"read", "finish"}]
        BY <1>4, <1>9 DEF Reader
      <3>2. [job EXCEPT !.step = "finish"] \in [run : DOMAIN runs', step : {"read", "finish"}]
        BY <3>1
      <3>3. [job EXCEPT !.step = "finish"].run = run
        BY <1>2, <3>1
      <3>4. QED
        BY <1>2, <1>10, <3>1, <3>2, <3>3 DEF Reader
    <2>3. Running(job.run)'
      BY <1>4, <1>18, <2>2 DEF Running
    <2>4. job'.step = "finish" => runs'[run].lines = Len(LinesOf(runs'[run]))
      <3>1. runs'[run].lines = end /\ LinesOf(runs'[run]) = lines
        BY <1>7, <1>9 DEF lines
      <3>2. job'.step = "finish" => end = Len(lines)
        BY <1>4, <1>5, <1>10
      <3>3. QED
        BY <3>1, <3>2
    <2>5. LinesOf(runs[job.run])' = LinesOf(runs'[run])
      BY <2>2 DEF LinesOf
    <2>6. QED
      BY <2>1, <2>2, <2>3, <2>4, <2>5 DEF OneRun
  <1>20. ASSUME NEW r \in DOMAIN runs' \ crossed', Running(r)' PROVE Articles(r)'
    <2>1. r \in DOMAIN runs /\ Running(r) /\ r \notin crossed /\ Articles(r)
      BY <1>9, <1>10, <1>18, <1>20 DEF DictionaryInv
    <2>2. CASE r # run
      <3>1. runs[r].lines = 0
        <4>1. ~(runs[r].lines > 0) /\ runs[r].lines \in Nat
          BY <1>1, <1>10, <2>1, <2>2, RunFacts DEF Dictionary!CrossedBy, Running
        <4>2. QED
          BY <4>1
      <3>2. {w \in DOMAIN definitions : definitions[w].run = r} = {}
        BY <2>1, <3>1 DEF Articles, Words
      <3>3. {w \in DOMAIN definitions' : definitions'[w].run = r} = {}
        BY <1>16, <2>2, <3>2
      <3>4. \A w \in DOMAIN definitions :
                definitions[w].run = r => definitions'[w] = definitions[w]
        BY <3>2
      <3>5. QED
        BY <1>9, <2>1, <2>2, <3>2, <3>3, <3>4, ArticlesKept
    <2>3. CASE r = run
      <3>1. /\ {w \in DOMAIN definitions : definitions[w].run = run} = Words(lines, from)
            /\ \A w \in Words(lines, from) :
                   definitions[w] = [run |-> run, line |-> First(lines, w)]
        BY <2>1, <2>3 DEF Articles, lines, from
      <3>2. ASSUME NEW w \in Words(lines, from)
            PROVE  /\ w \in DOMAIN definitions'
                   /\ definitions'[w] = [run |-> run, line |-> First(lines, w)]
        <4>1. /\ w \in DOMAIN definitions
              /\ definitions[w] = [run |-> run, line |-> First(lines, w)]
          BY <3>1
        <4>2. First(lines, w) \in 1..from
          BY <1>5, FirstFacts
        <4>3. w \in words => ~Dictionary!Yields(definitions[w], run, Dictionary!FirstLine(run, w))
          <5>1. SUFFICES ASSUME w \in words
                         PROVE  ~(First(lines, w) >= Dictionary!FirstLine(run, w))
            BY <4>1 DEF Dictionary!Yields
          <5>2. Dictionary!FirstLine(run, w) \in from + 1 .. end
            BY <1>14, <5>1
          <5>3. QED
            BY <1>5, <4>2, <5>2
        <4>4. QED
          BY <1>13, <4>1, <4>3
      <3>3. ASSUME NEW w \in words, w \notin Words(lines, from)
            PROVE  /\ w \in DOMAIN definitions'
                   /\ definitions'[w] = [run |-> run, line |-> First(lines, w)]
        <4>1. w \in DOMAIN definitions => definitions[w].run # run
          BY <3>1, <3>3
        <4>2. w \in DOMAIN definitions =>
                  Dictionary!Yields(definitions[w], run, Dictionary!FirstLine(run, w))
          BY <4>1 DEF Dictionary!Yields
        <4>3. Dictionary!FirstLine(run, w) = First(lines, w)
          BY <1>14, <3>3
        <4>4. QED
          BY <1>13, <4>2, <4>3
      <3>4. \A w \in Words(lines, end) :
                /\ w \in DOMAIN definitions'
                /\ definitions'[w] = [run |-> run, line |-> First(lines, w)]
        BY <1>15, <3>2, <3>3
      <3>5. {w \in DOMAIN definitions' : definitions'[w].run = run} = Words(lines, end)
        <4>1. ASSUME NEW w \in DOMAIN definitions', definitions'[w].run = run
              PROVE  w \in Words(lines, end)
          <5>1. \A v \in DOMAIN definitions : definitions[v].run = run => v \in Words(lines, from)
            BY <3>1
          <5>2. w \in words \/ w \in Words(lines, from)
            BY <1>16, <4>1, <5>1
          <5>3. QED
            BY <1>15, <5>2
        <4>2. ASSUME NEW w \in Words(lines, end)
              PROVE  w \in DOMAIN definitions' /\ definitions'[w].run = run
          <5>1. PICK first : definitions'[w] = [run |-> run, line |-> first]
            BY <3>4
          <5>2. definitions'[w].run = run
            BY <5>1
          <5>3. w \in DOMAIN definitions'
            BY <3>4
          <5>4. QED
            BY <5>2, <5>3
        <4>3. QED
          BY <4>1, <4>2
      <3>6. LinesOf(runs[r])' = lines /\ runs'[r].lines = end
        BY <1>7, <1>9, <2>3 DEF LinesOf, lines
      <3>7. Words(LinesOf(runs[r]), runs[r].lines)' = Words(lines, end)
        BY <3>6 DEF Words
      <3>8. \A w : First(LinesOf(runs[r]), w)' = First(lines, w)
        BY <3>6 DEF First
      <3>9. QED
        BY <2>3, <3>4, <3>5, <3>7, <3>8 DEF Articles
    <2>4. QED
      BY <2>2, <2>3
  <1>21. LastKept'
    <2>1. last # 0 => last \in DOMAIN runs /\ last # run
      <3>1. last # 0 => last \in DOMAIN runs
        BY <1>1, <1>4, RunFacts DEF DictionaryTypes
      <3>2. QED
        BY <1>1, <1>4, <3>1 DEF LastKept, Running
    <2>2. last # 0 => runs'[last] = runs[last]
      BY <1>9, <2>1
    <2>3. last' # 0 => runs'[last'].state = "finished"
      BY <1>1, <1>10, <2>2 DEF LastKept
    <2>4. ASSUME last' \notin crossed' \cup {0}, NEW w \in CleanWords(last)'
          PROVE  /\ w \in DOMAIN definitions'
                 /\ definitions'[w].run = last => definitions'[w] = CleanArticles(last)'[w]
      <3>1. last \notin crossed \cup {0} /\ last' = last /\ runs'[last] = runs[last]
        BY <1>10, <2>2, <2>4
      <3>2. CleanWords(last)' = CleanWords(last) /\ CleanArticles(last)' = CleanArticles(last)
        BY <3>1 DEF CleanWords, CleanArticles, LinesOf, Words, First
      <3>3. /\ w \in DOMAIN definitions
            /\ definitions[w].run = last => definitions[w] = CleanArticles(last)[w]
        BY <1>1, <2>4, <3>1, <3>2 DEF LastKept
      <3>4. w \in DOMAIN definitions'
        BY <1>13, <3>3
      <3>5. definitions'[w].run = last => definitions'[w] = definitions[w]
        BY <1>16, <2>1, <3>1, <3>4
      <3>6. QED
        BY <3>2, <3>3, <3>4, <3>5
    <2>5. QED
      BY <1>10, <2>3, <2>4 DEF LastKept
  <1>22. QED
    BY <1>17, <1>19, <1>20, <1>21 DEF DictionaryInv

\* The run's end makes its articles the whole dictionary.
LEMMA FinishDictionaryStep == ASSUME DictionaryInv, Dictionary!Finish PROVE DictionaryInv'
  <1>1. DictionaryTypes /\ OneRun
    BY DEF DictionaryInv
  <1>2. PICK run : run = job.run
    OBVIOUS
  <1> DEFINE own == {w \in DOMAIN definitions : definitions[w].run = run}
  <1>3. /\ job # NoJob /\ Running(run) /\ run \in DOMAIN runs
        /\ runs[run].lines = Len(LinesOf(runs[run]))
    BY <1>1, <1>2 DEF Dictionary!Finish, OneRun, Running
  <1>4. PICK row : row = [runs[run] EXCEPT !.state = "finished"]
    OBVIOUS
  <1>5. runs[run] \in Run /\ run # 0 /\ run \in 0..Len(runs)
    BY <1>1, <1>3, RunFacts
  <1>6. row \in Run /\ LinesOf(row) = LinesOf(runs[run]) /\ row.state = "finished"
    BY <1>4, <1>5 DEF Run, LinesOf
  <1>7. runs' = [runs EXCEPT ![run] = row]
    BY <1>2, <1>4 DEF Dictionary!Finish
  <1>8. /\ runs' \in Seq(Run) /\ Len(runs') = Len(runs) /\ DOMAIN runs' = DOMAIN runs
        /\ runs'[run] = row /\ \A r \in DOMAIN runs : r # run => runs'[r] = runs[r]
    BY <1>1, <1>3, <1>6, <1>7, RunsChanged DEF DictionaryTypes
  <1>9. /\ definitions' = [w \in own |-> definitions[w]]
        /\ crossed' = crossed \cup Dictionary!CrossedBy(run)
        /\ last' = run /\ settled' = TRUE /\ job' = NoJob /\ version' = version
    BY <1>2 DEF Dictionary!Finish
  <1>10. DictionaryTypes'
    <2>1. \A w \in DOMAIN definitions' :
              definitions'[w].run \in DOMAIN runs' /\ definitions'[w].line \in Nat
      BY <1>1, <1>8, <1>9 DEF DictionaryTypes
    <2>2. crossed' \subseteq DOMAIN runs'
      BY <1>1, <1>8, <1>9 DEF DictionaryTypes, Dictionary!CrossedBy
    <2>3. last' \in 0..Len(runs') /\ settled' \in BOOLEAN
      BY <1>5, <1>8, <1>9
    <2>4. QED
      BY <1>1, <1>8, <1>9, <2>1, <2>2, <2>3 DEF DictionaryTypes
  <1>11. \A r \in DOMAIN runs : Running(r)' => Running(r) /\ r # run /\ runs'[r] = runs[r]
    BY <1>6, <1>8 DEF Running
  <1>12. OneRun'
    BY <1>1, <1>8, <1>9, <1>11 DEF OneRun
  <1>13. ASSUME NEW r \in DOMAIN runs' \ crossed', Running(r)' PROVE Articles(r)'
    <2>1. r \in DOMAIN runs /\ Running(r) /\ r # run /\ runs'[r] = runs[r] /\ Articles(r)
      BY <1>8, <1>9, <1>11, <1>13 DEF DictionaryInv
    <2>2. runs[r].lines = 0
      <3>1. ~(runs[r].lines > 0) /\ runs[r].lines \in Nat
        BY <1>1, <1>9, <1>13, <2>1, RunFacts DEF Dictionary!CrossedBy, Running
      <3>2. QED
        BY <3>1
    <2>3. {w \in DOMAIN definitions : definitions[w].run = r} = {}
      BY <2>1, <2>2 DEF Articles, Words
    <2>4. {w \in DOMAIN definitions' : definitions'[w].run = r} = {}
      BY <1>9, <2>1
    <2>5. QED
      BY <2>1, <2>3, <2>4, ArticlesKept
  <1>14. LastKept'
    <2>1. runs'[last'].state = "finished"
      BY <1>6, <1>8, <1>9
    <2>2. ASSUME run \notin crossed'
          PROVE  definitions' = CleanArticles(run)
      <3>1. Articles(run)
        BY <1>3, <1>9, <2>2 DEF DictionaryInv
      <3>2. own = CleanWords(run)
        BY <1>3, <3>1 DEF Articles, CleanWords
      <3>3. \A w \in own : definitions[w] = [run |-> run, line |-> First(LinesOf(runs[run]), w)]
        BY <1>3, <3>1, <3>2 DEF Articles, CleanWords
      <3>4. definitions' = [w \in CleanWords(run) |-> definitions[w]]
        BY <1>9, <3>2
      <3>5. \A w \in CleanWords(run) :
                definitions[w] = [run |-> run, line |-> First(LinesOf(runs[run]), w)]
        BY <3>2, <3>3
      <3> HIDE DEF own
      <3>6. QED
        BY <3>4, <3>5 DEF CleanArticles
    <2>3. CleanArticles(last)' = CleanArticles(run) /\ CleanWords(last)' = CleanWords(run)
      <3>1. last' = run /\ LinesOf(runs[last])' = LinesOf(runs[run])
        BY <1>6, <1>8, <1>9 DEF LinesOf
      <3>2. QED
        BY <3>1 DEF CleanWords, CleanArticles, Words, First
    <2>4. DOMAIN CleanArticles(run) = CleanWords(run)
      BY DEF CleanArticles
    <2>5. run \notin crossed' => \A w \in CleanWords(run) : w \in DOMAIN definitions'
      BY <2>2, <2>4
    <2>6. QED
      BY <1>9, <2>1, <2>2, <2>3, <2>5 DEF LastKept
  <1>15. QED
    BY <1>10, <1>12, <1>13, <1>14 DEF DictionaryInv

LEMMA DictionaryStep == DictionaryInv /\ [Next]_vars => DictionaryInv'
  <1> SUFFICES ASSUME DictionaryInv, [Next]_vars PROVE DictionaryInv'
      OBVIOUS
  <1>1. /\ DictionaryTypes /\ version \in [Sources -> Nat]
        /\ \A s \in Sources : version[s] \in DOMAIN Dumps[s]
    BY DEF DictionaryInv, DictionaryTypes
  <1>2. CASE UNCHANGED dictionary
    BY <1>1, <1>2, LockStep DEF dictionary
  <1>3. CASE Dictionary!Empty \/ Dictionary!Abort
    BY <1>1, <1>3, LockStep DEF Dictionary!Empty, Dictionary!Abort
  <1>4. ASSUME NEW s \in Sources, Dictionary!Resume(s) PROVE DictionaryInv'
    <2>1. PICK run \in Dictionary!Unfinished(s) : job' = Dictionary!Work(run)
      BY <1>4 DEF Dictionary!Resume
    <2>2. run \in DOMAIN runs /\ Running(run) /\ job' = [run |-> run, step |-> "read"]
      BY <2>1 DEF Dictionary!Unfinished, Dictionary!Work, Running
    <2>3. UNCHANGED <<version, runs, definitions, last, settled, crossed>>
      BY <1>4 DEF Dictionary!Resume
    <2>4. QED
      BY <1>1, <2>2, <2>3, LockStep
  <1>5. ASSUME NEW s \in Sources, Dictionary!Publish(s) PROVE DictionaryInv'
    <2>1. /\ version' = [version EXCEPT ![s] = @ + 1] /\ version[s] < Len(Dumps[s])
          /\ UNCHANGED <<runs, definitions, job, last, settled, crossed>>
      BY <1>5 DEF Dictionary!Publish
    <2>2. version' \in [Sources -> Nat]
      BY <1>1, <2>1
    <2>3. version'[s] = version[s] + 1 /\ \A t \in Sources : t # s => version'[t] = version[t]
      BY <1>1, <2>1
    <2>4. version[s] + 1 \in DOMAIN Dumps[s]
      BY <1>1, <2>1, DictionaryConstants
    <2>5. \A t \in Sources : version'[t] \in DOMAIN Dumps[t]
      BY <1>1, <2>3, <2>4
    <2>6. QED
      BY <2>1, <2>2, <2>5, LockStep
  <1>6. QED
    BY <1>2, <1>3, <1>4, <1>5, DictionarySteps, BeginStep, WriteBatchStep, FinishDictionaryStep

LEMMA DictionaryInit == Init => DictionaryInv
  <1> SUFFICES ASSUME Init PROVE DictionaryInv
      OBVIOUS
  <1>1. /\ version = [s \in Sources |-> 1]
        /\ runs = <<>> /\ definitions = [w \in {} |-> 0] /\ job = NoJob
        /\ last = 0 /\ settled = FALSE /\ crossed = {}
    BY DEF Init, Dictionary!Init
  <1>2. runs \in Seq(Run) /\ Len(runs) = 0 /\ DOMAIN runs = {} /\ DOMAIN definitions = {}
    BY <1>1, EmptySeq
  <1>3. /\ version \in [Sources -> Nat]
        /\ \A s \in Sources : version[s] \in DOMAIN Dumps[s]
    BY <1>1, DictionaryConstants
  <1>4. last \in 0..Len(runs) /\ crossed \subseteq DOMAIN runs
    BY <1>1, <1>2
  <1>5. settled \in BOOLEAN
    BY <1>1
  <1>6. DictionaryTypes
    BY <1>2, <1>3, <1>4, <1>5 DEF DictionaryTypes
  <1>7. QED
    BY <1>1, <1>2, <1>6 DEF DictionaryInv, OneRun, LastKept

\* A run that finishes leaves the dictionary of a clean import of its dump,
\* wherever it was interrupted, resumed or restarted and whatever was there
\* before, and no article of it is missing until the next run finishes; runs
\* that crossed another source's are excused.
THEOREM DictionaryCorrect == Spec => []ImportedDictionary
  <1>1. DictionaryInv => ImportedDictionary
    <2> SUFFICES ASSUME DictionaryInv, last \notin crossed \cup {0}
                 PROVE  /\ settled => definitions = Dictionary!Clean(last)
                        /\ \A w \in DOMAIN Dictionary!Clean(last) :
                              /\ w \in DOMAIN definitions
                              /\ definitions[w].run = last =>
                                    definitions[w] = Dictionary!Clean(last)[w]
        BY DEF ImportedDictionary, Dictionary!ImportedDictionary
    <2>1. DictionaryTypes /\ LastKept
      BY DEF DictionaryInv
    <2>2. last \in DOMAIN runs
      <3>1. runs \in Seq(Run) /\ last \in 0..Len(runs) /\ last # 0
        BY <2>1 DEF DictionaryTypes
      <3>2. DOMAIN runs = 1..Len(runs) /\ Len(runs) \in Nat
        BY <3>1, LenProperties
      <3>3. QED
        BY <3>1, <3>2
    <2> DEFINE lines == LinesOf(runs[last])
    <2>3. Dictionary!Lines(last) = lines /\ DOMAIN lines = 1..Len(lines)
      BY <2>1, <2>2, RunFacts
    <2>4. Dictionary!Range(lines) \ {NoEntry} = CleanWords(last)
      BY <2>3 DEF Dictionary!Range, CleanWords, Words
    <2>5. Dictionary!Clean(last) = CleanArticles(last)
      BY <2>3, <2>4 DEF Dictionary!Clean, CleanArticles, First
    <2>6. DOMAIN CleanArticles(last) = CleanWords(last)
      BY DEF CleanArticles
    <2>7. QED
      BY <2>1, <2>5, <2>6 DEF LastKept
  <1>2. QED
    BY <1>1, DictionaryInit, DictionaryStep, PTL DEF Spec

-----------------------------------------------------------------------------
\* The types

LEMMA AtMostOne ==
    ASSUME NEW S, \A x, y \in S : x = y
    PROVE  Cardinality(S) <= 1
  <1>1. CASE S = {}
    BY <1>1, FS_EmptySet
  <1>2. CASE S # {}
    <2>1. PICK x \in S : S = {x}
      BY <1>2
    <2>2. Cardinality({x}) = 1
      BY FS_Singleton
    <2>3. QED
      BY <2>1, <2>2
  <1>3. QED
    BY <1>1, <1>2

LEMMA CalendarTyped == CalendarInv => Calendar!TypeOK
  <1> SUFFICES ASSUME CalendarInv PROVE Calendar!TypeOK
      OBVIOUS
  <1>1. CalendarTypes
    BY DEF CalendarInv
  <1>2. /\ lesson.state \in {"none", "scheduled", "gone"} /\ lesson.time \in Times \cup {NoTime}
        /\ event \in Times \cup {NoTime}
    BY <1>1 DEF CalendarTypes, Lesson
  <1>3. /\ removal.attempts \in 0..CalendarAttempts
        /\ removal.state \in {"none", "waiting", "held", "dead", "done"}
    BY <1>1 DEF CalendarTypes, Removal
  <1>4. QED
    BY <1>1, <1>2, <1>3 DEF CalendarTypes, AccountTypes, Calendar!TypeOK

LEMMA ScheduleTyped == ScheduleInv => Schedule!TypeOK
  BY DEF ScheduleInv, ScheduleTypes, Schedule!TypeOK

LEMMA HarvestTyped == HarvestInv => Harvest!TypeOK
  <1> SUFFICES ASSUME HarvestInv PROVE Harvest!TypeOK
      OBVIOUS
  <1>1. HarvestTypes /\ AfterPause /\ Horizon \in Nat
    BY HarvestConstants DEF HarvestInv
  <1>2. now \in 0..Horizon /\ shared \subseteq Videos
    BY <1>1 DEF HarvestTypes
  <1>3. \A v \in Videos : video[v].attempts \in Nat /\ video[v].due \in Nat
    BY <1>1 DEF HarvestTypes, Video
  <1>4. ASSUME NEW m \in Machines
        PROVE  fetching[m].step \in {"idle", "fetch", "save", "fail"}
    <2>1. fetching[m] \in Fetch \/ fetching[m] = Harvest!Idle
      BY <1>1 DEF HarvestTypes
    <2>2. QED
      BY <2>1 DEF Fetch, Harvest!Idle
  <1>5. \A m \in Machines : pace[m].strikes \in Nat /\ pace[m].until <= now + MaxWait
    BY <1>1 DEF HarvestTypes, AfterPause, Pace
  <1>6. QED
    BY <1>2, <1>3, <1>4, <1>5 DEF Harvest!TypeOK

LEMMA DictionaryTyped == DictionaryInv => Dictionary!TypeOK
  <1> SUFFICES ASSUME DictionaryInv PROVE Dictionary!TypeOK
      OBVIOUS
  <1>1. DictionaryTypes /\ OneRun
    BY DEF DictionaryInv
  <1>2. ASSUME NEW r \in DOMAIN runs
        PROVE  /\ runs[r].source \in Sources
               /\ runs[r].lines \in 0..Len(Dictionary!Lines(r))
               /\ runs[r].state \in {"running", "finished", "abandoned"}
    <2>1. /\ runs[r].source \in Sources /\ runs[r].lines \in Nat
          /\ runs[r].lines <= Len(LinesOf(runs[r])) /\ Len(LinesOf(runs[r])) \in Nat
          /\ Dictionary!Lines(r) = LinesOf(runs[r]) /\ runs[r] \in Run
      BY <1>1, RunFacts
    <2>2. QED
      BY <2>1 DEF Run
  <1>3. ASSUME NEW s \in Sources
        PROVE  Dictionary!Cardinality(Dictionary!Unfinished(s)) <= 1
    <2>1. \A r, t \in Dictionary!Unfinished(s) : r = t
      BY <1>1 DEF OneRun, Running, Dictionary!Unfinished
    <2>2. Cardinality(Dictionary!Unfinished(s)) <= 1
      BY <2>1, AtMostOne
    <2>3. QED
      BY <2>2 DEF Dictionary!Cardinality, Cardinality
  <1>4. job = NoJob \/ job.run \in DOMAIN runs
    BY <1>1 DEF OneRun, Reader
  <1>5. QED
    BY <1>1, <1>2, <1>3, <1>4 DEF DictionaryTypes, Dictionary!TypeOK

LEMMA CorpusTyped == CorpusInv => Corpus!TypeOK
  <1> SUFFICES ASSUME CorpusInv PROVE Corpus!TypeOK
      OBVIOUS
  <1>1. CorpusTypes /\ OnePass
    BY DEF CorpusInv
  <1>2. ASSUME NEW r \in DOMAIN passes
        PROVE  /\ passes[r].phase \in {"ru", "en"}
               /\ passes[r].lines \in 0..Len(Corpus!File(r))
               /\ passes[r].state \in {"running", "finished", "abandoned"}
    <2>1. passes[r] \in Pass
      BY <1>1, LenProperties, ElementOfSeq DEF CorpusTypes
    <2>2. Corpus!File(r) = FileOf(passes[r])
      BY DEF Corpus!File, Corpus!Export, FileOf
    <2>3. /\ passes[r].lines \in Nat /\ passes[r].lines <= Len(FileOf(passes[r]))
          /\ passes[r].version \in DOMAIN Exports
      BY <1>1, <2>1 DEF Pass, CorpusTypes
    <2>4. Len(FileOf(passes[r])) \in Nat
      BY <2>3, CorpusConstants, LenProperties DEF FileOf
    <2>5. QED
      BY <2>1, <2>2, <2>3, <2>4 DEF Pass
  <1>3. Corpus!Cardinality(Corpus!Unfinished) <= 1
    <2>1. Cardinality(Corpus!Unfinished) <= 1
      BY <1>1, AtMostOne DEF OnePass
    <2>2. QED
      BY <2>1 DEF Corpus!Cardinality, Cardinality
  <1>4. loader = NoJob \/ loader.run \in DOMAIN passes
    BY <1>1 DEF OnePass, Loader
  <1>5. QED
    BY <1>1, <1>2, <1>3, <1>4 DEF CorpusTypes, Corpus!TypeOK

\* The state of each part keeps its types.
THEOREM TypesCorrect == Spec => []TypeOK
  <1>1. /\ Init => CalendarInv /\ ScheduleInv /\ HarvestInv /\ DictionaryInv /\ CorpusInv
    BY CalendarInit, ScheduleInit, HarvestInit, DictionaryInit, CorpusInit
  <1>2. ASSUME CalendarInv, ScheduleInv, HarvestInv, DictionaryInv, CorpusInv, [Next]_vars
        PROVE  (CalendarInv /\ ScheduleInv /\ HarvestInv /\ DictionaryInv /\ CorpusInv)'
    BY <1>2, CalendarStep, ScheduleStep, HarvestStep, DictionaryStep, CorpusStep
  <1>3. CalendarInv /\ ScheduleInv /\ HarvestInv /\ DictionaryInv /\ CorpusInv => TypeOK
    BY CalendarTyped, ScheduleTyped, HarvestTyped, DictionaryTyped, CorpusTyped DEF TypeOK
  <1>4. QED
    BY <1>1, <1>2, <1>3, PTL DEF Spec
=============================================================================
