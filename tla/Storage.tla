------------------------------- MODULE Storage -------------------------------
(***************************************************************************)
(* What a hub keeps in its data folder: documents, each as a .json and a   *)
(* .bin file (DiskStorage), and the recovery phrase of its identity        *)
(* (HubManager.StartAsync).                                                *)
(*                                                                         *)
(* Documents do not touch each other, so that one is modelled; a save      *)
(* gives its two parts a new version.  File.WriteAll... opens a file,      *)
(* which empties it, and writes it; no other thread can open it meanwhile, *)
(* nor open for writing what another one reads.  The process can die at    *)
(* any point and start again.                                              *)
(*                                                                         *)
(* ReadBesideWriter, MetaOnce and AlwaysNew are wrong versions of the      *)
(* definitions that follow them, for the properties to notice.             *)
(***************************************************************************)
EXTENDS Integers, FiniteSets

CONSTANTS
  Thread,      \* the threads that use the storage
  MaxSaves,    \* how many saves there are
  MaxCrashes   \* how often the process dies

ASSUME StorageAssumption == MaxSaves \in Nat /\ MaxCrashes \in Nat

Absent == 0
Torn == -1     \* emptied, or written in part
Whole(c) == c > 0

VARIABLES
  meta,      \* the .json file: Absent, Torn or a version
  data,      \* the .bin file
  phrase,    \* recoveryphrase.txt
  hub,       \* "down", "starting", "writing" the phrase, "up"
  used,      \* the phrases the hub was up with
  phrases,   \* how many phrases were generated
  pc,        \* what each thread does next
  version,   \* the version a thread saves, or the signature it has loaded
  saves,     \* how many saves began
  crashes,   \* how often the process died
  alone,     \* the threads whose save no other save has overlapped
  kept,      \* the version of the last save, if it was whole and alone, or 0
  expect,    \* per thread that loads: kept, if no save began since
  result     \* per thread: what its last load returned

files == <<meta, data>>
host == <<phrase, hub, used, phrases>>
ghosts == <<alone, kept, expect, result>>
vars == <<files, host, pc, version, saves, crashes, ghosts>>

Init ==
  /\ meta = Absent /\ data = Absent /\ phrase = Absent
  /\ hub = "down"
  /\ used = {}
  /\ phrases = 0
  /\ pc = [t \in Thread |-> "idle"]
  /\ version = [t \in Thread |-> 0]
  /\ saves = 0 /\ crashes = 0
  /\ alone = {} /\ kept = 0
  /\ expect = [t \in Thread |-> 0]
  /\ result = [t \in Thread |-> [expect |-> 0, meta |-> Absent, data |-> Absent]]

Goto(t, l) == pc' = [pc EXCEPT ![t] = l]

\* Opening fails when another thread has the file open and one of them writes.
Others(t, l) == \E u \in Thread \ {t} : pc[u] = l
ReadBesideWriter(t, writing) == FALSE
ReadShares(t, writing) == Others(t, writing)
WriteShares(t, writing, reading) == Others(t, writing) \/ Others(t, reading)

------------------------------------------------------------------------------
(* Save.                                                                   *)

Saving(t) == pc[t] \in {"save", "meta", "between", "data"}

BeginSave(t) ==
  /\ hub = "up"
  /\ pc[t] = "idle"
  /\ saves < MaxSaves
  /\ saves' = saves + 1
  /\ version' = [version EXCEPT ![t] = saves + 1]
  /\ Goto(t, "save")
  /\ alone' = IF \E u \in Thread : Saving(u) THEN {} ELSE {t}
  /\ kept' = 0
  /\ expect' = [u \in Thread |-> 0]
  /\ UNCHANGED <<files, host, crashes, result>>

\* File.WriteAllText (metaFile, json) opens, or throws to the caller.
MetaOnce(t) ==
  /\ pc[t] = "save"
  /\ IF meta # Absent
       THEN Goto(t, "between") /\ UNCHANGED meta
       ELSE Goto(t, "meta") /\ meta' = Torn
  /\ UNCHANGED <<data, host, version, saves, crashes, ghosts>>
OpenMeta(t) ==
  /\ pc[t] = "save"
  /\ IF WriteShares(t, "meta", "read meta")
       THEN Goto(t, "idle") /\ UNCHANGED meta
       ELSE Goto(t, "meta") /\ meta' = Torn
  /\ UNCHANGED <<data, host, version, saves, crashes, ghosts>>

WriteMeta(t) ==
  /\ pc[t] = "meta"
  /\ meta' = version[t]
  /\ Goto(t, "between")
  /\ UNCHANGED <<data, host, version, saves, crashes, ghosts>>

\* File.WriteAllBytes (dataFile, document.Data).
OpenData(t) ==
  /\ pc[t] = "between"
  /\ IF WriteShares(t, "data", "read data")
       THEN Goto(t, "idle") /\ UNCHANGED data
       ELSE Goto(t, "data") /\ data' = Torn
  /\ UNCHANGED <<meta, host, version, saves, crashes, ghosts>>

WriteData(t) ==
  /\ pc[t] = "data"
  /\ data' = version[t]
  /\ Goto(t, "idle")
  /\ kept' = IF t \in alone THEN version[t] ELSE 0
  /\ UNCHANGED <<meta, host, version, saves, crashes, alone, expect, result>>

Save(t) == BeginSave(t) \/ OpenMeta(t) \/ WriteMeta(t) \/ OpenData(t) \/ WriteData(t)

------------------------------------------------------------------------------
(* Load.                                                                   *)

Return(t, e, m, d) ==
  /\ Goto(t, "idle")
  /\ result' = [result EXCEPT ![t] = [expect |-> e, meta |-> m, data |-> d]]

\* Without a .bin file there is no document.
BeginLoad(t) ==
  /\ hub = "up"
  /\ pc[t] = "idle"
  /\ expect' = [expect EXCEPT ![t] = kept]
  /\ IF data = Absent
       THEN Return(t, kept, Absent, Absent)
       ELSE Goto(t, "load") /\ UNCHANGED result
  /\ UNCHANGED <<files, host, version, saves, crashes, alone, kept>>

\* File.ReadAllText (metaFile).
OpenReadMeta(t) ==
  /\ pc[t] = "load"
  /\ Goto(t, IF ReadShares(t, "meta") THEN "idle" ELSE "read meta")
  /\ UNCHANGED <<files, host, version, saves, crashes, ghosts>>

\* A part of a document is no JSON, an empty file is no document: both throw.
ReadMeta(t) ==
  /\ pc[t] = "read meta"
  /\ version' = [version EXCEPT ![t] = meta]
  /\ Goto(t, IF Whole(meta) THEN "loaded" ELSE "idle")
  /\ UNCHANGED <<files, host, saves, crashes, ghosts>>

\* File.ReadAllBytes (dataFile).
OpenReadData(t) ==
  /\ pc[t] = "loaded"
  /\ Goto(t, IF ReadShares(t, "data") THEN "idle" ELSE "read data")
  /\ UNCHANGED <<files, host, version, saves, crashes, ghosts>>

ReadData(t) ==
  /\ pc[t] = "read data"
  /\ Return(t, expect[t], version[t], data)
  /\ UNCHANGED <<files, host, version, saves, crashes, alone, kept, expect>>

Load(t) ==
  BeginLoad(t) \/ OpenReadMeta(t) \/ ReadMeta(t) \/ OpenReadData(t) \/ ReadData(t)

------------------------------------------------------------------------------
(* The process.                                                            *)

Start ==
  /\ hub = "down"
  /\ hub' = "starting"
  /\ UNCHANGED <<files, phrase, used, phrases, pc, version, saves, crashes, ghosts>>

\* StartAsync: without the file, a new phrase is written; ...
AlwaysNew ==
  /\ hub = "starting"
  /\ phrase' = Torn /\ phrases' = phrases + 1 /\ hub' = "writing"
  /\ UNCHANGED <<files, used, pc, version, saves, crashes, ghosts>>
ReadPhrase ==
  /\ hub = "starting"
  /\ \/ phrase = Absent
        /\ phrase' = Torn /\ phrases' = phrases + 1 /\ hub' = "writing"
        /\ UNCHANGED used
     \/ Whole(phrase) /\ hub' = "up" /\ used' = used \cup {phrase} /\ UNCHANGED <<phrase, phrases>>
     \/ phrase = Torn /\ hub' = "down" /\ UNCHANGED <<phrase, phrases, used>>
  /\ UNCHANGED <<files, pc, version, saves, crashes, ghosts>>

\* ... what cannot be unprotected, or is no phrase, throws out of the start.
WritePhrase ==
  /\ hub = "writing"
  /\ phrase' = phrases
  /\ hub' = "up"
  /\ used' = used \cup {phrases}
  /\ UNCHANGED <<files, phrases, pc, version, saves, crashes, ghosts>>

StartAsync == ReadPhrase \/ WritePhrase

\* What is in the files stays; a file being written stays torn.
Crash ==
  /\ hub # "down"
  /\ crashes < MaxCrashes
  /\ crashes' = crashes + 1
  /\ hub' = "down"
  /\ pc' = [t \in Thread |-> "idle"]
  /\ UNCHANGED <<files, phrase, used, phrases, version, saves, ghosts>>

Next ==
  \/ \E t \in Thread : Save(t) \/ Load(t)
  \/ Start \/ StartAsync
  \/ Crash

Spec == Init /\ [][Next]_vars

------------------------------------------------------------------------------
Label == {"idle", "save", "meta", "between", "data", "load", "read meta", "loaded", "read data"}

Content == {Absent, Torn} \cup (1..MaxSaves)

TypeOK ==
  /\ meta \in Content /\ data \in Content
  /\ phrase \in {Absent, Torn} \cup (1..phrases)
  /\ hub \in {"down", "starting", "writing", "up"}
  /\ used \subseteq 1..phrases
  /\ phrases \in Nat
  /\ pc \in [Thread -> Label]
  /\ version \in [Thread -> Content]
  /\ saves \in 0..MaxSaves /\ crashes \in 0..MaxCrashes
  /\ alone \subseteq Thread
  /\ kept \in 0..MaxSaves
  /\ expect \in [Thread -> 0..MaxSaves]
  /\ result \in [Thread -> [expect : 0..MaxSaves, meta : Content, data : Content]]

\* As long as the process lives, a load that returns a document returns both of
\* its parts whole, whatever is being saved meanwhile.
LoadIsWhole ==
  crashes = 0 => \A t \in Thread : result[t].data # Absent => Whole(result[t].meta) /\ Whole(result[t].data)

\* A save that no other save overlapped, and that returned, is what loads
\* return until the next one begins: also after crashes, and whatever crashes
\* left in the files before it.
KeptIsLoaded ==
  \A t \in Thread :
    result[t].expect # 0 => result[t].meta = result[t].expect /\ result[t].data = result[t].expect

\* A hub that was up once has the same identity whenever it is up again.
OneIdentity == Cardinality(used) <= 1

==============================================================================
