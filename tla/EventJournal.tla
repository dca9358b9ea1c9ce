---------------------------- MODULE EventJournal ----------------------------
(***************************************************************************)
(* shared/event_journal.py: the audit journal that every process appends   *)
(* to and that the API queries through a cache.  The cache is keyed by the *)
(* modification times of the files, and those move in ticks of the file    *)
(* system's clock.  What an event says is left out, and so are the filters *)
(* of a query: what counts is which events it gets to see.                 *)
(***************************************************************************)
EXTENDS Integers, Sequences, SequencesExt

CONSTANTS
  Readers,    \* threads of the API's executor
  MaxJournal, \* bound: events
  MaxTicks    \* bound: ticks of the file system's clock

VARIABLES
  journal,     \* the .jsonl files: the tick of every event, in order
  tick,
  eventsCache, \* _EVENTS_CACHE: its signature and how many events it holds
  reader       \* thread -> where it is in a query, and what it holds

journalVars == <<journal, tick, eventsCache, reader>>

ASSUME JournalAssumption == MaxJournal \in Nat /\ MaxTicks \in Nat \ {0}

(* A signature is the sum of modification times.  Times only grow and      *)
(* files are only appended to, so two sums are equal exactly when the last *)
(* append fell into the same tick.                                         *)
NoSignature == 0
NoCache == [sig |-> -1, seen |-> 0]
NotReading == [at |-> "idle", sig |-> NoSignature, seen |-> 0, had |-> 0]

JournalTypeOK ==
  /\ journal \in Seq(1..MaxTicks) /\ Len(journal) <= MaxJournal
  /\ tick \in 1..MaxTicks
  /\ eventsCache \in [sig : -1..MaxTicks, seen : 0..MaxJournal]
  /\ reader \in [Readers -> [at : {"idle", "looked", "load", "store", "done"},
                             sig : 0..MaxTicks, seen : 0..MaxJournal,
                             had : 0..MaxJournal]]

JournalInit ==
  /\ journal = << >> /\ tick = 1 /\ eventsCache = NoCache
  /\ reader = [r \in Readers |-> NotReading]

Signature == IF journal = << >> THEN NoSignature ELSE Last(journal)

-----------------------------------------------------------------------------
(* Those who write.                                                        *)

(* append_event: one line, under the lock of the day's file.               *)
AppendEvent ==
  /\ Len(journal) < MaxJournal /\ journal' = Append(journal, tick)
  /\ UNCHANGED <<tick, eventsCache, reader>>

-----------------------------------------------------------------------------
(* query_events, event_sources and event_types, each in a thread.          *)

Goes(r, to) == reader' = [reader EXCEPT ![r] = to]

(* _load_events_cached takes the signature first.                          *)
Look(r) ==
  /\ reader[r].at = "idle"
  /\ Goes(r, [at |-> "looked", sig |-> Signature, seen |-> 0,
              had |-> Len(journal)])
  /\ UNCHANGED <<journal, tick, eventsCache>>

(* The cache is read again when it is compared: another thread may have    *)
(* replaced it.                                                            *)
Compare(r) ==
  /\ reader[r].at = "looked"
  /\ Goes(r, IF eventsCache.sig = reader[r].sig
             THEN [reader[r] EXCEPT !.at = "done", !.seen = eventsCache.seen]
             ELSE [reader[r] EXCEPT !.at = "load"])
  /\ UNCHANGED <<journal, tick, eventsCache>>

(* Mutant: the signature that goes into the cache is taken after the load. *)
LoadThenSign(r) ==
  /\ reader[r].at \in {"load", "store"}
  /\ \/ /\ reader[r].at = "load" /\ UNCHANGED eventsCache
        /\ Goes(r, [reader[r] EXCEPT !.at = "store", !.seen = Len(journal)])
     \/ /\ reader[r].at = "store" /\ Goes(r, [reader[r] EXCEPT !.at = "done"])
        /\ eventsCache' = [sig |-> Signature, seen |-> reader[r].seen]
  /\ UNCHANGED <<journal, tick>>

(* The files are read, then the cache is replaced.                         *)
LoadFiles(r) ==
  /\ reader[r].at \in {"load", "store"}
  /\ \/ /\ reader[r].at = "load" /\ UNCHANGED eventsCache
        /\ Goes(r, [reader[r] EXCEPT !.at = "store", !.seen = Len(journal)])
     \/ /\ reader[r].at = "store" /\ Goes(r, [reader[r] EXCEPT !.at = "done"])
        /\ eventsCache' = [sig |-> reader[r].sig, seen |-> reader[r].seen]
  /\ UNCHANGED <<journal, tick>>

(* /api/journal: the answer, and the thread is free.                       *)
AnswerQuery(r) ==
  /\ reader[r].at = "done" /\ Goes(r, NotReading)
  /\ UNCHANGED <<journal, tick, eventsCache>>

ClockTicks ==
  /\ tick < MaxTicks /\ tick' = tick + 1
  /\ UNCHANGED <<journal, eventsCache, reader>>

(* A route of the API asks for events, sources and types in three threads. *)
JournalNext ==
  \/ AppendEvent \/ ClockTicks
  \/ \E r \in Readers : Look(r) \/ Compare(r) \/ LoadFiles(r) \/ AnswerQuery(r)

JournalSpec == JournalInit /\ [][JournalNext]_journalVars

-----------------------------------------------------------------------------
(* Properties.                                                             *)

(* A query that started after an event was written shows it, or the event  *)
(* fell into the same tick as the newest event shown: a cached journal is  *)
(* never behind by more than the events of one tick, whatever threads load *)
(* and replace the cache meanwhile.                                        *)
BehindByATick ==
  \A r \in Readers : reader[r].at = "done" =>
    LET seen == reader[r].seen
    IN \A i \in (seen + 1)..reader[r].had :
         seen > 0 /\ journal[i] = journal[seen]

=============================================================================
