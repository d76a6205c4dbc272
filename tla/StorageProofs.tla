---------------------------- MODULE StorageProofs ----------------------------
(***************************************************************************)
(* Theorems about Storage, for every set of threads and every number of    *)
(* saves and of crashes.                                                   *)
(***************************************************************************)
EXTENDS Storage, FiniteSetTheorems, TLAPS

------------------------------------------------------------------------------
(* The inductive invariant.                                                *)

\* A phrase is whole before the hub is up with it, and only a folder without
\* the file gets a new one.
IdentityInv ==
  /\ hub = "writing" => phrase = Torn /\ phrases > 0
  /\ \A p \in used : p = phrase

\* While the process lives, a .bin file that is not whole is being written, and
\* nobody has it open beside its writer.
SharingInv ==
  /\ crashes = 0 /\ data = Torn => \E t \in Thread : pc[t] = "data"
  /\ \A t, u \in Thread : pc[t] = "read data" => pc[u] # "data"
  /\ \A t \in Thread : pc[t] \in {"loaded", "read data"} => Whole(version[t])

\* A save that is alone has written what it saves, and what it leaves behind
\* is not touched until the next save begins.
AloneInv ==
  /\ \A t \in Thread : Saving(t) => version[t] \in 1..MaxSaves
  /\ \A t \in alone, u \in Thread : t # u => ~Saving(u)
  /\ \A t \in alone : pc[t] \in {"between", "data"} => meta = version[t]
  /\ kept # 0 => meta = kept /\ data = kept /\ \A t \in Thread : ~Saving(t)

\* A load that began after such a save reads what was kept.
LoadInv ==
  \A t \in Thread : expect[t] # 0 =>
    /\ kept = expect[t]
    /\ pc[t] \in {"loaded", "read data"} => version[t] = expect[t]

Inv ==
  /\ TypeOK
  /\ IdentityInv
  /\ SharingInv
  /\ AloneInv
  /\ LoadInv
  /\ LoadIsWhole
  /\ KeptIsLoaded
------------------------------------------------------------------------------
\* Every step of a thread goes to one of these.
LEMMA Labels ==
  /\ "idle" \in Label /\ "save" \in Label /\ "meta" \in Label /\ "between" \in Label
  /\ "data" \in Label /\ "load" \in Label /\ "read meta" \in Label /\ "loaded" \in Label
  /\ "read data" \in Label
BY DEF Label

LEMMA InvInit == Init => Inv
<1> SUFFICES ASSUME Init PROVE Inv
  OBVIOUS
<1>1. TypeOK
  <2>1. pc \in [Thread -> Label]
    BY Labels DEF Init
  <2>2. version \in [Thread -> Content] /\ expect \in [Thread -> 0..MaxSaves]
    BY StorageAssumption DEF Init, Content, Absent
  <2>3. [expect |-> 0, meta |-> Absent, data |-> Absent]
          \in [expect : 0..MaxSaves, meta : Content, data : Content]
    BY StorageAssumption DEF Content
  <2>4. result \in [Thread -> [expect : 0..MaxSaves, meta : Content, data : Content]]
    BY <2>3 DEF Init
  <2> QED BY <2>1, <2>2, <2>4, StorageAssumption DEF Init, TypeOK, Content
<1>2. IdentityInv /\ SharingInv /\ AloneInv /\ LoadInv
  BY DEF Init, IdentityInv, SharingInv, AloneInv, LoadInv, Absent, Torn, Saving
<1>3. LoadIsWhole /\ KeptIsLoaded
  BY DEF Init, LoadIsWhole, KeptIsLoaded
<1> QED BY <1>1, <1>2, <1>3 DEF Inv

LEMMA TypeStep == Inv /\ [Next]_vars => TypeOK'
<1> SUFFICES ASSUME Inv, [Next]_vars PROVE TypeOK'
  OBVIOUS
<1> USE StorageAssumption DEF Content, Goto, files, host, ghosts
<1>0. TypeOK
  BY DEF Inv
<1>a. /\ pc \in [Thread -> Label]
      /\ version \in [Thread -> Content]
      /\ expect \in [Thread -> 0..MaxSaves]
      /\ result \in [Thread -> [expect : 0..MaxSaves, meta : Content, data : Content]]
  BY <1>0 DEF TypeOK
<1>b. saves \in 0..MaxSaves /\ kept \in 0..MaxSaves /\ meta \in Content /\ data \in Content
  BY <1>0 DEF TypeOK
<1>c. phrases \in Nat /\ phrase \in {Absent, Torn} \cup (1..phrases) /\ used \subseteq 1..phrases
  BY <1>0 DEF TypeOK
<1>1. ASSUME NEW t \in Thread, BeginSave(t) PROVE TypeOK'
  <2>1. saves' \in 1..MaxSaves /\ kept' = 0
    BY <1>1, <1>b DEF BeginSave
  <2>2. version' \in [Thread -> Content]
    BY <1>1, <1>a, <2>1 DEF BeginSave
  <2>5. pc' \in [Thread -> Label]
    BY <1>1, <1>a, Labels DEF BeginSave
  <2>3. alone' \subseteq Thread
    BY <1>1 DEF BeginSave
  <2>4. expect' \in [Thread -> 0..MaxSaves]
    BY <1>1 DEF BeginSave
  <2> QED BY <1>0, <1>1, <2>1, <2>2, <2>3, <2>4, <2>5 DEF BeginSave, TypeOK
<1>2. ASSUME NEW t \in Thread, OpenMeta(t) PROVE TypeOK'
  <2>1. pc' \in [Thread -> Label]
    BY <1>2, <1>a, Labels DEF OpenMeta
  <2> QED BY <1>0, <1>2, <2>1 DEF OpenMeta, TypeOK
<1>3. ASSUME NEW t \in Thread, WriteMeta(t) PROVE TypeOK'
  <2>1. pc' \in [Thread -> Label]
    BY <1>3, <1>a, Labels DEF WriteMeta
  <2> QED BY <1>0, <1>3, <2>1 DEF WriteMeta, TypeOK
<1>4. ASSUME NEW t \in Thread, OpenData(t) PROVE TypeOK'
  <2>1. pc' \in [Thread -> Label]
    BY <1>4, <1>a, Labels DEF OpenData
  <2> QED BY <1>0, <1>4, <2>1 DEF OpenData, TypeOK
<1>5. ASSUME NEW t \in Thread, WriteData(t) PROVE TypeOK'
  <2>1. version[t] \in 1..MaxSaves
    BY <1>5 DEF WriteData, Inv, AloneInv, Saving
  <2>2. kept' \in 0..MaxSaves /\ data' \in Content
    BY <1>5, <2>1 DEF WriteData
  <2>3. pc' \in [Thread -> Label]
    BY <1>5, <1>a, Labels DEF WriteData
  <2> QED BY <1>0, <1>5, <2>2, <2>3 DEF WriteData, TypeOK
<1>6. ASSUME NEW t \in Thread, BeginLoad(t) PROVE TypeOK'
  <2>1. expect' \in [Thread -> 0..MaxSaves]
    BY <1>6, <1>a, <1>b DEF BeginLoad
  <2>2. pc' \in [Thread -> Label]
    BY <1>6, <1>a, Labels DEF BeginLoad, Return
  <2>3. [expect |-> kept, meta |-> Absent, data |-> Absent]
          \in [expect : 0..MaxSaves, meta : Content, data : Content]
    BY <1>b
  <2>4. result' \in [Thread -> [expect : 0..MaxSaves, meta : Content, data : Content]]
    BY <1>6, <1>a, <2>3 DEF BeginLoad, Return
  <2> QED BY <1>0, <1>6, <2>1, <2>2, <2>4 DEF BeginLoad, TypeOK
<1>7. ASSUME NEW t \in Thread, OpenReadMeta(t) PROVE TypeOK'
  <2>1. pc' \in [Thread -> Label]
    BY <1>7, <1>a, Labels DEF OpenReadMeta
  <2> QED BY <1>0, <1>7, <2>1 DEF OpenReadMeta, TypeOK
<1>8. ASSUME NEW t \in Thread, ReadMeta(t) PROVE TypeOK'
  <2>1. pc' \in [Thread -> Label]
    BY <1>8, <1>a, Labels DEF ReadMeta
  <2> QED BY <1>0, <1>8, <2>1 DEF ReadMeta, TypeOK
<1>9. ASSUME NEW t \in Thread, OpenReadData(t) PROVE TypeOK'
  <2>1. pc' \in [Thread -> Label]
    BY <1>9, <1>a, Labels DEF OpenReadData
  <2> QED BY <1>0, <1>9, <2>1 DEF OpenReadData, TypeOK
<1>10. ASSUME NEW t \in Thread, ReadData(t) PROVE TypeOK'
  <2>1. pc' \in [Thread -> Label]
    BY <1>10, <1>a, Labels DEF ReadData, Return
  <2>2. result' \in [Thread -> [expect : 0..MaxSaves, meta : Content, data : Content]]
    BY <1>10, <1>a, <1>b DEF ReadData, Return
  <2> QED BY <1>0, <1>10, <2>1, <2>2 DEF ReadData, TypeOK
<1>11. CASE Start
  BY <1>0, <1>11 DEF Start, TypeOK
<1>12. CASE ReadPhrase
  <2>1. CASE phrase = Absent
    <3>1. /\ phrase' = Torn /\ hub' = "writing" /\ used' = used
          /\ phrases' \in Nat /\ phrases <= phrases'
      BY <1>12, <1>c, <2>1 DEF ReadPhrase, Whole, Absent, Torn
    <3>2. used' \subseteq 1..phrases'
      BY <1>c, <3>1
    <3> QED BY <1>0, <1>12, <3>1, <3>2 DEF ReadPhrase, TypeOK
  <2>2. CASE phrase = Torn
    <3>1. phrase' = Torn /\ hub' = "down" /\ used' = used /\ phrases' = phrases
      BY <1>12, <2>2 DEF ReadPhrase, Whole, Absent, Torn
    <3> QED BY <1>0, <1>12, <3>1 DEF ReadPhrase, TypeOK
  <2>3. CASE phrase \in 1..phrases
    <3>1. phrase # Absent /\ phrase # Torn
      BY <2>3 DEF Absent, Torn
    <3>2. used' \subseteq 1..phrases
      BY <1>12, <1>c, <2>3, <3>1 DEF ReadPhrase
    <3> QED BY <1>0, <1>12, <3>1, <3>2 DEF ReadPhrase, TypeOK
  <2> QED BY <1>c, <2>1, <2>2, <2>3
<1>13. CASE WritePhrase
  <2>1. phrases \in 1..phrases
    BY <1>13, <1>c DEF WritePhrase, Inv, IdentityInv
  <2> QED BY <1>0, <1>13, <2>1 DEF WritePhrase, TypeOK
<1>14. CASE Crash
  <2>1. crashes' \in 0..MaxCrashes
    BY <1>0, <1>14 DEF Crash, TypeOK
  <2>2. pc' \in [Thread -> Label]
    BY <1>14, Labels DEF Crash
  <2> QED BY <1>0, <1>14, <2>1, <2>2 DEF Crash, TypeOK
<1>15. CASE UNCHANGED vars
  BY <1>0, <1>15 DEF vars, TypeOK
<1> QED
  BY <1>1, <1>2, <1>3, <1>4, <1>5, <1>6, <1>7, <1>8, <1>9, <1>10, <1>11, <1>12, <1>13, <1>14, <1>15
     DEF Next, Save, Load, StartAsync

LEMMA IdentityStep == Inv /\ [Next]_vars => IdentityInv'
<1> SUFFICES ASSUME Inv, [Next]_vars PROVE IdentityInv'
  OBVIOUS
<1>1. CASE UNCHANGED host
  BY <1>1 DEF Inv, IdentityInv, host
<1>2. CASE Start
  BY <1>2 DEF Start, Inv, IdentityInv
<1>3. CASE ReadPhrase
  <2>1. \A p \in used : p = phrase /\ p > 0
    BY DEF Inv, TypeOK, IdentityInv
  <2>2. CASE phrase = Absent
    <3>1. used = {} /\ phrases \in Nat
      BY <2>1, <2>2 DEF Absent, Inv, TypeOK
    <3>2. used' = {} /\ phrase' = Torn /\ phrases' > 0
      BY <1>3, <2>2, <3>1 DEF ReadPhrase, Absent, Torn, Whole
    <3> QED BY <3>2 DEF IdentityInv
  <2>3. CASE phrase # Absent
    <3>1. hub' # "writing" /\ phrase' = phrase /\ (used' = used \/ used' = used \cup {phrase})
      BY <1>3, <2>3 DEF ReadPhrase
    <3> QED BY <2>1, <3>1 DEF IdentityInv
  <2> QED BY <2>2, <2>3
<1>4. CASE WritePhrase
  <2>1. phrase = Torn /\ \A p \in used : p = phrase /\ p > 0
    BY <1>4 DEF WritePhrase, Inv, TypeOK, IdentityInv
  <2>2. used = {}
    BY <2>1 DEF Torn
  <2>3. hub' # "writing" /\ used' = {phrase'}
    BY <1>4, <2>2 DEF WritePhrase
  <2> QED BY <2>3 DEF IdentityInv
<1>5. CASE Crash
  BY <1>5 DEF Crash, Inv, IdentityInv
<1> QED
  BY <1>1, <1>2, <1>3, <1>4, <1>5
     DEF Next, StartAsync, vars, host, Save, Load, BeginSave, OpenMeta, WriteMeta, OpenData, WriteData,
         BeginLoad, OpenReadMeta, ReadMeta, OpenReadData, ReadData

\* Opening and writing need that no other thread has the file open.
LEMMA SharingStep == Inv /\ [Next]_vars => SharingInv'
<1> SUFFICES ASSUME Inv, [Next]_vars PROVE SharingInv'
  OBVIOUS
<1> USE DEF Goto, files, host, ghosts
<1>0. /\ pc \in [Thread -> Label]
      /\ version \in [Thread -> Content]
      /\ crashes \in Nat
  BY StorageAssumption DEF Inv, TypeOK
<1>1. SharingInv
  BY DEF Inv
<1>2. ASSUME NEW t \in Thread, BeginSave(t) \/ OpenMeta(t) \/ WriteMeta(t) PROVE SharingInv'
  BY <1>0, <1>1, <1>2 DEF BeginSave, OpenMeta, WriteMeta, SharingInv
<1>3. ASSUME NEW t \in Thread, OpenData(t) PROVE SharingInv'
  <2>1. CASE WriteShares(t, "data", "read data")
    BY <1>0, <1>1, <1>3, <2>1 DEF OpenData, SharingInv
  <2>2. CASE ~WriteShares(t, "data", "read data")
    <3>1. \A u \in Thread : pc'[u] # "read data"
      BY <1>0, <1>3, <2>2 DEF OpenData, WriteShares, Others
    <3>2. pc'[t] = "data"
      BY <1>0, <1>3, <2>2 DEF OpenData
    <3> QED BY <1>0, <1>1, <1>3, <2>2, <3>1, <3>2 DEF OpenData, SharingInv
  <2> QED BY <2>1, <2>2
<1>4. ASSUME NEW t \in Thread, WriteData(t) PROVE SharingInv'
  <2>1. data' # Torn
    BY <1>4 DEF WriteData, Inv, AloneInv, Saving, Torn
  <2> QED BY <1>0, <1>1, <1>4, <2>1 DEF WriteData, SharingInv
<1>5. ASSUME NEW t \in Thread, BeginLoad(t) \/ OpenReadMeta(t) PROVE SharingInv'
  BY <1>0, <1>1, <1>5 DEF BeginLoad, Return, OpenReadMeta, SharingInv
<1>6. ASSUME NEW t \in Thread, ReadMeta(t) PROVE SharingInv'
  BY <1>0, <1>1, <1>6 DEF ReadMeta, SharingInv
<1>7. ASSUME NEW t \in Thread, OpenReadData(t) PROVE SharingInv'
  BY <1>0, <1>1, <1>7 DEF OpenReadData, ReadShares, Others, SharingInv
<1>8. ASSUME NEW t \in Thread, ReadData(t) PROVE SharingInv'
  BY <1>0, <1>1, <1>8 DEF ReadData, Return, SharingInv
<1>9. CASE Crash
  BY <1>0, <1>9 DEF Crash, SharingInv
<1>10. CASE Start \/ StartAsync \/ UNCHANGED vars
  BY <1>1, <1>10 DEF Start, StartAsync, ReadPhrase, WritePhrase, vars, SharingInv
<1> QED
  BY <1>2, <1>3, <1>4, <1>5, <1>6, <1>7, <1>8, <1>9, <1>10 DEF Next, Save, Load

LEMMA AloneStep == Inv /\ [Next]_vars => AloneInv'
<1> SUFFICES ASSUME Inv, [Next]_vars PROVE AloneInv'
  OBVIOUS
<1> USE DEF Goto, files, host, ghosts
<1>0. /\ pc \in [Thread -> Label]
      /\ version \in [Thread -> Content]
      /\ saves \in 0..MaxSaves /\ MaxSaves \in Nat
      /\ alone \subseteq Thread
  BY StorageAssumption DEF Inv, TypeOK
<1>1. AloneInv
  BY DEF Inv
<1>2. ASSUME NEW t \in Thread, BeginSave(t) PROVE AloneInv'
  <2>1. /\ saves + 1 \in 1..MaxSaves
        /\ version' = [version EXCEPT ![t] = saves + 1]
        /\ kept' = 0
    BY <1>0, <1>2 DEF BeginSave
  <2>2. pc[t] = "idle" /\ pc' = [pc EXCEPT ![t] = "save"]
    BY <1>2 DEF BeginSave
  <2>3. \A u \in alone' : u = t /\ \A w \in Thread : ~Saving(w)
    BY <1>2 DEF BeginSave
  <2>4. \A u \in Thread : Saving(u)' => version'[u] \in 1..MaxSaves
    BY <1>0, <1>1, <2>1, <2>2 DEF AloneInv, Saving
  <2>5. \A u \in alone', w \in Thread : u # w => ~Saving(w)'
    BY <1>0, <2>2, <2>3 DEF Saving
  <2>6. \A u \in alone' : pc'[u] = "save"
    BY <1>0, <2>2, <2>3, <1>2 DEF BeginSave
  <2> QED BY <2>1, <2>4, <2>5, <2>6 DEF AloneInv
<1>3. ASSUME NEW t \in Thread, OpenMeta(t) PROVE AloneInv'
  <2>1. Saving(t) /\ kept = 0
    BY <1>1, <1>3 DEF OpenMeta, AloneInv, Saving
  <2> QED BY <1>0, <1>1, <1>3, <2>1 DEF OpenMeta, AloneInv, Saving
<1>4. ASSUME NEW t \in Thread, WriteMeta(t) PROVE AloneInv'
  <2>1. Saving(t) /\ kept = 0
    BY <1>1, <1>4 DEF WriteMeta, AloneInv, Saving
  <2> QED BY <1>0, <1>1, <1>4, <2>1 DEF WriteMeta, AloneInv, Saving
<1>5. ASSUME NEW t \in Thread, OpenData(t) PROVE AloneInv'
  <2>1. Saving(t) /\ kept = 0
    BY <1>1, <1>5 DEF OpenData, AloneInv, Saving
  <2> QED BY <1>0, <1>1, <1>5, <2>1 DEF OpenData, AloneInv, Saving
<1>6. ASSUME NEW t \in Thread, WriteData(t) PROVE AloneInv'
  <2>1. Saving(t) /\ pc' = [pc EXCEPT ![t] = "idle"] /\ ~Saving(t)'
    BY <1>0, <1>6 DEF WriteData, Saving
  <2>2. \A u \in Thread : Saving(u)' => Saving(u)
    BY <1>0, <2>1 DEF Saving
  <2>3. kept' # 0 => t \in alone /\ kept' = version[t] /\ meta = version[t]
    BY <1>1, <1>6 DEF WriteData, AloneInv
  <2>4. kept' # 0 => meta' = kept' /\ data' = kept' /\ \A u \in Thread : ~Saving(u)'
    BY <1>1, <1>6, <2>1, <2>2, <2>3 DEF WriteData, AloneInv
  <2> QED BY <1>0, <1>1, <1>6, <2>1, <2>2, <2>4 DEF WriteData, AloneInv, Saving
<1>7. ASSUME NEW t \in Thread, Load(t) PROVE AloneInv'
  <2>1. UNCHANGED <<meta, data, alone, kept>> /\ ~Saving(t) /\ ~Saving(t)'
    BY <1>0, <1>7 DEF Load, BeginLoad, Return, OpenReadMeta, ReadMeta, OpenReadData, ReadData, Saving
  <2>2. \A u \in Thread \ {t} : pc'[u] = pc[u] /\ version'[u] = version[u]
    BY <1>0, <1>7 DEF Load, BeginLoad, Return, OpenReadMeta, ReadMeta, OpenReadData, ReadData
  <2> QED BY <1>0, <1>1, <2>1, <2>2 DEF AloneInv, Saving
<1>8. CASE Crash
  <2>1. \A u \in Thread : pc'[u] = "idle" /\ ~Saving(u)'
    BY <1>8 DEF Crash, Saving
  <2> QED BY <1>0, <1>1, <1>8, <2>1 DEF Crash, AloneInv
<1>9. CASE Start \/ StartAsync \/ UNCHANGED vars
  BY <1>1, <1>9 DEF Start, StartAsync, ReadPhrase, WritePhrase, vars, AloneInv, Saving
<1> QED
  BY <1>2, <1>3, <1>4, <1>5, <1>6, <1>7, <1>8, <1>9 DEF Next, Save

\* What was kept stays until a save begins, and then nothing is expected.
LEMMA LoadStep == Inv /\ [Next]_vars => LoadInv'
<1> SUFFICES ASSUME Inv, [Next]_vars PROVE LoadInv'
  OBVIOUS
<1> USE DEF Goto, files, host, ghosts
<1>0. /\ pc \in [Thread -> Label]
      /\ version \in [Thread -> Content]
      /\ expect \in [Thread -> 0..MaxSaves]
  BY DEF Inv, TypeOK
<1>1. AloneInv /\ LoadInv
  BY DEF Inv
<1>2. ASSUME NEW t \in Thread, BeginSave(t) PROVE LoadInv'
  BY <1>2 DEF BeginSave, LoadInv
<1>3. ASSUME NEW t \in Thread, OpenMeta(t) \/ WriteMeta(t) \/ OpenData(t) PROVE LoadInv'
  BY <1>0, <1>1, <1>3 DEF OpenMeta, WriteMeta, OpenData, LoadInv
<1>4. ASSUME NEW t \in Thread, WriteData(t) PROVE LoadInv'
  <2>1. kept = 0
    BY <1>1, <1>4 DEF WriteData, AloneInv, Saving
  <2>2. \A u \in Thread : expect[u] = 0
    BY <1>0, <1>1, <2>1 DEF LoadInv
  <2> QED BY <1>4, <2>2 DEF WriteData, LoadInv
<1>5. ASSUME NEW t \in Thread, BeginLoad(t) PROVE LoadInv'
  <2>1. /\ kept' = kept /\ version' = version
        /\ expect' = [expect EXCEPT ![t] = kept]
        /\ \E l \in {"idle", "load"} : pc' = [pc EXCEPT ![t] = l]
    BY <1>5 DEF BeginLoad, Return
  <2> QED BY <1>0, <1>1, <2>1 DEF LoadInv
<1>6. ASSUME NEW t \in Thread, OpenReadMeta(t) \/ OpenReadData(t) PROVE LoadInv'
  BY <1>0, <1>1, <1>6 DEF OpenReadMeta, OpenReadData, LoadInv
<1>7. ASSUME NEW t \in Thread, ReadMeta(t) PROVE LoadInv'
  <2>1. expect[t] # 0 => meta = expect[t]
    BY <1>1 DEF AloneInv, LoadInv
  <2> QED BY <1>0, <1>1, <1>7, <2>1 DEF ReadMeta, LoadInv
<1>8. ASSUME NEW t \in Thread, ReadData(t) PROVE LoadInv'
  BY <1>0, <1>1, <1>8 DEF ReadData, Return, LoadInv
<1>9. CASE Crash
  BY <1>0, <1>1, <1>9 DEF Crash, LoadInv
<1>10. CASE Start \/ StartAsync \/ UNCHANGED vars
  BY <1>1, <1>10 DEF Start, StartAsync, ReadPhrase, WritePhrase, vars, LoadInv
<1> QED
  BY <1>2, <1>3, <1>4, <1>5, <1>6, <1>7, <1>8, <1>9, <1>10 DEF Next, Save, Load

\* A load returns in two places: without a .bin file, and with what it has read.
LEMMA ResultStep == Inv /\ [Next]_vars => (LoadIsWhole /\ KeptIsLoaded)'
<1> SUFFICES ASSUME Inv, [Next]_vars PROVE (LoadIsWhole /\ KeptIsLoaded)'
  OBVIOUS
<1> USE DEF Goto, files, host, ghosts
<1>0. /\ data \in Content /\ crashes \in Nat
      /\ version \in [Thread -> Content]
      /\ result \in [Thread -> [expect : 0..MaxSaves, meta : Content, data : Content]]
  BY StorageAssumption DEF Inv, TypeOK
<1>1. SharingInv /\ AloneInv /\ LoadInv /\ LoadIsWhole /\ KeptIsLoaded
  BY DEF Inv
<1>2. ASSUME NEW t \in Thread, BeginLoad(t) PROVE (LoadIsWhole /\ KeptIsLoaded)'
  <2>1. CASE data = Absent
    <3>1. kept = 0
      BY <1>1, <2>1 DEF AloneInv, Absent
    <3>2. crashes' = crashes /\ result' = [result EXCEPT
            ![t] = [expect |-> kept, meta |-> Absent, data |-> Absent]]
      BY <1>2, <2>1 DEF BeginLoad, Return
    <3> QED BY <1>0, <1>1, <3>1, <3>2 DEF LoadIsWhole, KeptIsLoaded
  <2>2. CASE data # Absent
    BY <1>1, <1>2, <2>2 DEF BeginLoad, LoadIsWhole, KeptIsLoaded
  <2> QED BY <2>1, <2>2
<1>3. ASSUME NEW t \in Thread, ReadData(t) PROVE (LoadIsWhole /\ KeptIsLoaded)'
  <2>1. pc[t] = "read data" /\ crashes' = crashes
    BY <1>3 DEF ReadData
  <2>2. result' = [result EXCEPT
          ![t] = [expect |-> expect[t], meta |-> version[t], data |-> data]]
    BY <1>3 DEF ReadData, Return
  <2>3. crashes = 0 => data # Torn
    BY <1>1, <2>1 DEF SharingInv
  <2>4. crashes = 0 => data = Absent \/ Whole(data)
    BY <1>0, <2>3, StorageAssumption DEF Content, Whole, Absent
  <2>5. Whole(version[t])
    BY <1>1, <2>1 DEF SharingInv
  <2>6. expect[t] # 0 => version[t] = expect[t] /\ data = expect[t]
    BY <1>1, <2>1 DEF AloneInv, LoadInv
  <2> QED BY <1>0, <1>1, <2>1, <2>2, <2>4, <2>5, <2>6 DEF LoadIsWhole, KeptIsLoaded
<1>4. CASE Crash
  BY <1>0, <1>1, <1>4 DEF Crash, LoadIsWhole, KeptIsLoaded
<1>5. CASE UNCHANGED <<crashes, result>>
  BY <1>1, <1>5 DEF LoadIsWhole, KeptIsLoaded
<1> QED
  BY <1>2, <1>3, <1>4, <1>5
     DEF Next, Save, Load, Start, StartAsync, ReadPhrase, WritePhrase, vars,
         BeginSave, OpenMeta, WriteMeta, OpenData, WriteData, OpenReadMeta, ReadMeta, OpenReadData

\* The invariant is inductive, so every behaviour of the storage has it.
LEMMA InvHolds == Spec => []Inv
<1>1. Inv /\ [Next]_vars => Inv'
  BY TypeStep, IdentityStep, SharingStep, AloneStep, LoadStep, ResultStep DEF Inv
<1> QED BY InvInit, <1>1, PTL DEF Spec

------------------------------------------------------------------------------
\* Every variable keeps its type: no version is read that no save wrote.
THEOREM TypeCorrect == Spec => []TypeOK
<1>1. Inv => TypeOK
  BY DEF Inv
<1> QED BY <1>1, InvHolds, PTL

\* The sharing of the two files is enough for a load beside saves to return both
\* parts whole, for every number of threads, as long as the process lives.
THEOREM LoadsAreWhole == Spec => []LoadIsWhole
<1>1. Inv => LoadIsWhole
  BY DEF Inv
<1> QED BY <1>1, InvHolds, PTL

\* A save that returned and that no other save overlapped is what loads return,
\* for every number of threads, saves and crashes.
THEOREM KeptIsDurable == Spec => []KeptIsLoaded
<1>1. Inv => KeptIsLoaded
  BY DEF Inv
<1> QED BY <1>1, InvHolds, PTL

\* A hub that was up once is only ever up with the same phrase, for every number
\* of crashes.
THEOREM OneIdentityOnly == Spec => []OneIdentity
<1>1. Inv => OneIdentity
  <2> SUFFICES ASSUME Inv PROVE Cardinality(used) <= 1
    BY DEF OneIdentity
  <2>1. used \subseteq {phrase}
    BY DEF Inv, IdentityInv
  <2>2. IsFiniteSet({phrase}) /\ Cardinality({phrase}) = 1
    BY FS_Singleton
  <2> QED BY <2>1, <2>2, FS_Subset
<1> QED BY <1>1, InvHolds, PTL
==============================================================================
