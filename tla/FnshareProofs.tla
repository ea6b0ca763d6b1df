--------------------------- MODULE FnshareProofs ----------------------------
(***************************************************************************)
(* What holds of FNSHARE's copies for any number of copies, of programs in *)
(* INT 2F, of drives and of user interrupts.                               *)
(***************************************************************************)
EXTENDS Fnshare, SeqLemmas, FiniteSetTheorems, TLAPS

Handlers == Copies \cup Others

Types ==
  /\ vect2f \in {DOS} \cup Handlers
  /\ prev \in [Handlers -> {DOS} \cup Handlers]
  /\ memory \in [Handlers -> {"none", "loading", "loaded", "gone"}]
  /\ DOMAIN copy = Copies
  /\ user \in [UserInts -> {DOS, Stranger} \cup Copies]
  /\ cds \in [Drives -> {"invalid", "local", "network"}]

Resident(h) == h \in Handlers /\ memory[h] = "loaded"

\* INT 2F leads to a resident handler or to DOS, and so does every resident handler; no two of
\* them lead to the same one, and none to the one at the top.  So a handler that goes from the
\* top leaves no way to the memory it had.
ChainResident ==
  /\ vect2f # DOS => Resident(vect2f)
  /\ \A h \in Handlers : Resident(h) =>
       /\ prev[h] # DOS => Resident(prev[h]) /\ vect2f # prev[h]
       /\ \A k \in Handlers : Resident(k) /\ prev[k] = prev[h] /\ prev[h] # DOS => k = h

\* Copies that have their drive, those that are being loaded included.
Held == {n \in Copies : memory[n] \in {"loading", "loaded"}}

DriveHeld ==
  /\ \A n \in Held : copy[n].drive \in Drives /\ cds[copy[n].drive] = "network"
  /\ \A m, n \in Held : copy[m].drive = copy[n].drive => m = n
  /\ \A d \in Drives : cds[d] = "network" => d \in broken \/ \E n \in Held : copy[n].drive = d
  /\ \A d \in LocalDrives : cds[d] = "local"

Inv == Types /\ ChainResident /\ DriveHeld

----------------------------------------------------------------------------
LEMMA HandlersAreNot == DOS \notin Handlers /\ Stranger \notin Handlers /\ Copies \cap Others = {}
  BY FnshareAssumption, SMT DEF DOS, Stranger, Handlers, Copies, Others

\* unload_latest finds a user interrupt with a signature record when there is one.
LEMMA HighestIsThere ==
  ASSUME NEW S \in SUBSET UserInts, S # {}
  PROVE  Highest(S) \in S
<1>1. S \subseteq 96..102
  BY FnshareAssumption
<1>2. ASSUME NEW k \in 96..102, \A i \in S : \E j \in S : ~(j <= i), \E i \in S : i >= k
      PROVE  \E i \in S : i >= k + 1
  BY <1>1, <1>2, SMT
<1>3. \E i \in S : \A j \in S : j <= i
  <2> SUFFICES ASSUME \A i \in S : \E j \in S : ~(j <= i) PROVE FALSE
    OBVIOUS
  <2>1. PICK x \in S : TRUE
    OBVIOUS
  <2>2. \E i \in S : i >= 97
    BY <1>1, <1>2, <2>1, SMT
  <2>3. \E i \in S : i >= 100
    BY <1>2, <2>2, SMT
  <2>4. \E i \in S : i >= 103
    BY <1>2, <2>3, SMT
  <2> QED
    BY <1>1, <2>4, SMT
<1> QED
  BY <1>3 DEF Highest

LEMMA InitInv == Init => Inv
<1> SUFFICES ASSUME Init PROVE Inv
  OBVIOUS
<1>1. Types
  BY DEF Init, Types, Handlers
<1>2. ChainResident
  BY DEF Init, ChainResident, Resident, Handlers
<1>3. Held = {}
  BY DEF Init, Held
<1>4. DriveHeld
  BY <1>3, FnshareAssumption DEF Init, DriveHeld
<1> QED
  BY <1>1, <1>2, <1>4 DEF Inv

----------------------------------------------------------------------------
(* One lemma for each action that changes who is resident or what drive it *)
(* has.                                                                    *)

LEMMA LoadInv ==
  ASSUME Inv, NEW d \in 0..last_drive, NEW url, set_up_cds(d, url)
  PROVE  Inv'
<1> USE HandlersAreNot
<1>1. PICK n \in Copies :
        /\ memory[n] = "none"
        /\ memory' = [memory EXCEPT ![n] = "loading"]
        /\ copy' = [copy EXCEPT ![n] = [drive |-> d, volume |-> Volume(url)]]
  BY DEF set_up_cds
<1>2. d \in Drives /\ cds[d] = "invalid"
  BY FnshareAssumption, SMT DEF set_up_cds, DriveFree, Drives
<1>3. UNCHANGED <<vect2f, prev, user, broken>> /\ cds' = [cds EXCEPT ![d] = "network"]
  BY DEF set_up_cds
<1>4. Types'
  BY <1>1, <1>2, <1>3 DEF Inv, Types, Handlers
<1>5. \A h \in Handlers : Resident(h)' <=> Resident(h)
  BY <1>1 DEF Inv, Types, Resident, Handlers
<1>6. ChainResident'
  <2>1. vect2f' = vect2f /\ prev' = prev
    BY <1>3
  <2> QED
    BY <1>5, <2>1 DEF Inv, Types, ChainResident
<1>7. Held' = Held \cup {n} /\ n \notin Held
  BY <1>1 DEF Inv, Types, Held, Handlers
<1>8. copy'[n].drive = d /\ \A m \in Held : copy'[m] = copy[m]
  BY <1>1, <1>7 DEF Inv, Types, Held
<1>9. \A m \in Held : copy[m].drive # d
  BY <1>2 DEF Inv, DriveHeld
<1>10. DriveHeld'
  <2>1. \A m \in Held' : copy'[m].drive \in Drives /\ cds'[copy'[m].drive] = "network"
    BY <1>2, <1>3, <1>7, <1>8 DEF Inv, Types, DriveHeld
  <2>2. \A m, k \in Held' : copy'[m].drive = copy'[k].drive => m = k
    BY <1>7, <1>8, <1>9 DEF Inv, DriveHeld
  <2>3. \A e \in Drives : cds'[e] = "network" => e \in broken' \/ \E m \in Held' : copy'[m].drive = e
    BY <1>3, <1>7, <1>8 DEF Inv, Types, DriveHeld
  <2>4. \A e \in LocalDrives : cds'[e] = "local"
    BY <1>2, <1>3, FnshareAssumption DEF Inv, Types, DriveHeld
  <2> QED
    BY <2>1, <2>2, <2>3, <2>4 DEF DriveHeld
<1> QED
  BY <1>4, <1>6, <1>10 DEF Inv

LEMMA BreakInv ==
  ASSUME Inv, NEW n \in Copies, Break(n)
  PROVE  Inv'
<1> USE HandlersAreNot
<1>1. memory[n] = "loading" /\ memory' = [memory EXCEPT ![n] = "gone"]
  BY DEF Break, Loading
<1>2. UNCHANGED <<vect2f, prev, copy, user, cds>> /\ broken' = broken \cup {copy[n].drive}
  BY DEF Break
<1>3. Types'
  BY <1>1, <1>2 DEF Inv, Types, Handlers
<1>4. \A h \in Handlers : Resident(h)' <=> Resident(h)
  BY <1>1 DEF Inv, Types, Resident, Handlers
<1>5. ChainResident'
  BY <1>2, <1>4 DEF Inv, Types, ChainResident
<1>6. n \in Held /\ Held' = Held \ {n}
  BY <1>1 DEF Inv, Types, Held, Handlers
<1>7. DriveHeld'
  BY <1>2, <1>6 DEF Inv, DriveHeld
<1> QED
  BY <1>3, <1>5, <1>7 DEF Inv

\* A copy goes on top of the chain, another program the same way.
LEMMA OnTopInv ==
  ASSUME Inv, NEW o \in Handlers, ~Resident(o),
         vect2f' = o, prev' = [prev EXCEPT ![o] = vect2f],
         memory' = [memory EXCEPT ![o] = "loaded"]
  PROVE  ChainResident'
<1> USE HandlersAreNot
<1>1. \A h \in Handlers : Resident(h)' <=> Resident(h) \/ h = o
  BY DEF Inv, Types, Resident
<1>2. prev'[o] = vect2f /\ \A h \in Handlers : h # o => prev'[h] = prev[h]
  BY DEF Inv, Types
<1>3. vect2f # DOS => Resident(vect2f) /\ vect2f # o
  BY DEF Inv, ChainResident
<1>4. \A h \in Handlers : Resident(h) /\ prev[h] # DOS => Resident(prev[h]) /\ prev[h] # o /\ prev[h] # vect2f
  BY DEF Inv, ChainResident
<1>5. vect2f' # DOS => Resident(vect2f)'
  BY <1>1
<1>6. \A h \in Handlers : Resident(h)' =>
        /\ prev'[h] # DOS => Resident(prev[h])' /\ vect2f' # prev'[h]
        /\ \A k \in Handlers : Resident(k)' /\ prev'[k] = prev'[h] /\ prev'[h] # DOS => k = h
  <2> SUFFICES ASSUME NEW h \in Handlers, Resident(h)', prev'[h] # DOS
               PROVE  /\ Resident(prev[h])' /\ vect2f' # prev'[h]
                      /\ \A k \in Handlers : Resident(k)' /\ prev'[k] = prev'[h] => k = h
    OBVIOUS
  <2>1. Resident(prev[h])' <=> prev'[h] \in Handlers /\ (Resident(prev'[h]) \/ prev'[h] = o)
    BY DEF Inv, Types, Resident
  <2>2. CASE h = o
    BY <1>1, <1>2, <1>3, <1>4, <2>1, <2>2 DEF Resident
  <2>3. CASE h # o
    BY <1>1, <1>2, <1>3, <1>4, <2>1, <2>3 DEF Resident, Inv, ChainResident
  <2> QED
    BY <2>2, <2>3
<1> QED
  BY <1>5, <1>6 DEF ChainResident

\* What is on top goes and leaves its place to the next one.
LEMMA FromTopInv ==
  ASSUME Inv, NEW o \in Handlers, vect2f = o,
         vect2f' = prev[o], prev' = prev, memory' = [memory EXCEPT ![o] = "gone"]
  PROVE  ChainResident'
<1> USE HandlersAreNot
<1>1. Resident(o) /\ \A h \in Handlers : Resident(h)' <=> Resident(h) /\ h # o
  BY DEF Inv, Types, Resident, ChainResident
<1>2. \A h \in Handlers : Resident(h) => prev[h] # o
  BY DEF Inv, ChainResident
<1>3. vect2f' # DOS => Resident(vect2f)'
  BY <1>1, <1>2 DEF Inv, Types, ChainResident, Resident
<1>4. \A h \in Handlers : Resident(h)' =>
        /\ prev'[h] # DOS => Resident(prev[h])' /\ vect2f' # prev'[h]
        /\ \A k \in Handlers : Resident(k)' /\ prev'[k] = prev'[h] /\ prev'[h] # DOS => k = h
  <2> SUFFICES ASSUME NEW h \in Handlers, Resident(h)', prev'[h] # DOS
               PROVE  /\ Resident(prev[h])' /\ vect2f' # prev'[h]
                      /\ \A k \in Handlers : Resident(k)' /\ prev'[k] = prev'[h] => k = h
    OBVIOUS
  <2>1. Resident(h) /\ h # o /\ Resident(prev[h]) /\ prev[h] # o
    BY <1>1, <1>2 DEF Inv, ChainResident
  <2>2. Resident(prev[h])'
    BY <2>1 DEF Inv, Types, Resident
  <2> QED
    BY <1>1, <2>1, <2>2 DEF Inv, ChainResident
<1> QED
  BY <1>3, <1>4 DEF ChainResident

LEMMA TsrInv ==
  ASSUME Inv, NEW n \in Copies, tsr(n)
  PROVE  Inv'
<1> USE HandlersAreNot
<1>1. n \in Handlers /\ memory[n] = "loading" /\ memory' = [memory EXCEPT ![n] = "loaded"]
  BY DEF tsr, Loading, Handlers
<1>2. vect2f' = n /\ prev' = [prev EXCEPT ![n] = vect2f] /\ UNCHANGED <<copy, cds, broken>>
  BY DEF tsr, prepare_for_tsr
<1>3. user' \in [UserInts -> {DOS, Stranger} \cup Copies]
  BY DEF tsr, prepare_for_tsr, Inv, Types
<1>4. Types'
  BY <1>1, <1>2, <1>3 DEF Inv, Types
<1>5. ChainResident'
  BY <1>1, <1>2, OnTopInv DEF Resident
<1>6. Held' = Held
  BY <1>1 DEF Inv, Types, Held, Handlers
<1>7. DriveHeld'
  BY <1>2, <1>6 DEF Inv, DriveHeld
<1> QED
  BY <1>4, <1>5, <1>7 DEF Inv

LEMMA UnloadInv ==
  ASSUME Inv, unload_latest
  PROVE  Inv'
<1> USE HandlersAreNot
<1> DEFINE i == Highest(Signed)
           n == user[i]
<1>1. Signed \in SUBSET UserInts /\ Signed # {}
  BY DEF unload_latest, Signed
<1>2. i \in UserInts /\ n \in Copies
  BY <1>1, HighestIsThere DEF Signed
<1>3. /\ vect2f = n /\ vect2f' = prev[n] /\ prev' = prev
      /\ memory' = [memory EXCEPT ![n] = "gone"]
      /\ cds' = [cds EXCEPT ![copy[n].drive] = "invalid"]
      /\ user' = [user EXCEPT ![i] = DOS]
      /\ UNCHANGED <<copy, broken>>
  BY DEF unload_latest, OnTop
<1> HIDE DEF i, n
<1>4. n \in Handlers
  BY <1>2 DEF Handlers
<1>5. Types'
  BY <1>2, <1>3, <1>4 DEF Inv, Types
<1>6. ChainResident'
  BY <1>3, <1>4, FromTopInv
<1>7. n \in Held /\ Held' = Held \ {n}
  BY <1>2, <1>3, <1>4 DEF Inv, Types, ChainResident, Resident, Held, Handlers
<1>8. copy[n].drive \in Drives /\ cds[copy[n].drive] = "network"
  BY <1>7 DEF Inv, DriveHeld
<1>9. DriveHeld'
  <2>1. \A m \in Held' : copy'[m].drive \in Drives /\ cds'[copy'[m].drive] = "network"
    BY <1>3, <1>7 DEF Inv, Types, DriveHeld
  <2>2. \A m, k \in Held' : copy'[m].drive = copy'[k].drive => m = k
    BY <1>3, <1>7 DEF Inv, DriveHeld
  <2>3. \A e \in Drives : cds'[e] = "network" => e \in broken' \/ \E m \in Held' : copy'[m].drive = e
    BY <1>3, <1>7, <1>8 DEF Inv, Types, DriveHeld
  <2>4. \A e \in LocalDrives : cds'[e] = "local"
    BY <1>3, <1>8, FnshareAssumption DEF Inv, Types, DriveHeld
  <2> QED
    BY <2>1, <2>2, <2>3, <2>4 DEF DriveHeld
<1> QED
  BY <1>5, <1>6, <1>9 DEF Inv

LEMMA OtherInv ==
  ASSUME Inv, NEW o \in Others, HookOther(o) \/ UnhookOther(o)
  PROVE  Inv'
<1> USE HandlersAreNot
<1>1. o \in Handlers /\ o \notin Copies
  BY DEF Handlers
<1>2. UNCHANGED <<copy, user, cds, broken>>
  BY DEF HookOther, UnhookOther
<1>3. Types'
  BY <1>1, <1>2 DEF Inv, Types, HookOther, UnhookOther, Handlers
<1>4. ChainResident'
  <2>1. CASE HookOther(o)
    BY <1>1, <2>1, OnTopInv DEF HookOther, Resident
  <2>2. CASE UnhookOther(o)
    BY <1>1, <2>2, FromTopInv DEF UnhookOther
  <2> QED
    BY <2>1, <2>2
<1>5. Held' = Held
  BY <1>1 DEF HookOther, UnhookOther, Inv, Types, Held, Handlers
<1>6. DriveHeld'
  BY <1>2, <1>5 DEF Inv, DriveHeld
<1> QED
  BY <1>3, <1>4, <1>6 DEF Inv

\* What leaves the chain, the memory and the drives alone keeps the invariant.
LEMMA RestInv ==
  ASSUME Inv, UNCHANGED <<vect2f, prev, memory, copy, cds, broken>>,
         user' \in [UserInts -> {DOS, Stranger} \cup Copies]
  PROVE  Inv'
<1>1. Types' /\ Held' = Held /\ \A h : Resident(h)' <=> Resident(h)
  BY DEF Inv, Types, Held, Resident
<1>2. ChainResident'
  BY <1>1 DEF Inv, ChainResident
<1>3. DriveHeld'
  BY <1>1 DEF Inv, DriveHeld
<1> QED
  BY <1>1, <1>2, <1>3 DEF Inv

LEMMA CallChangesNone ==
  ASSUME Call \/ Return
  PROVE  UNCHANGED <<vect2f, prev, memory, copy, user, cds, broken>>
<1>1. CASE Inquiry \/ FindNext \/ Return
  BY <1>1 DEF Inquiry, FindNext, Return, Calls, chainVars
<1>2. ASSUME NEW d \in Drives, NEW path \in DosPaths, NEW fn \in PathCalls, ByPath(fn, d, path)
      PROVE  UNCHANGED <<vect2f, prev, memory, copy, user, cds, broken>>
  BY <1>2 DEF ByPath, Calls, chainVars
<1>3. ASSUME NEW d \in Drives, NEW path \in DosPaths, NEW s \in Sfts, Open(s, d, path)
      PROVE  UNCHANGED <<vect2f, prev, memory, copy, user, cds, broken>>
  BY <1>3 DEF Open, Calls, chainVars
<1>4. ASSUME NEW d \in Drives, NEW path \in DosPaths, NEW label \in BOOLEAN, FindFirst(d, path, label)
      PROVE  UNCHANGED <<vect2f, prev, memory, copy, user, cds, broken>>
  BY <1>4 DEF FindFirst, Calls, chainVars
<1>5. ASSUME NEW d \in Drives, NEW path \in DosPaths, Delete(d, path)
      PROVE  UNCHANGED <<vect2f, prev, memory, copy, user, cds, broken>>
  BY <1>5 DEF Delete, Calls, chainVars
<1>6. ASSUME NEW fn \in FileCalls, NEW s \in Sfts, ByHandle(fn, s)
      PROVE  UNCHANGED <<vect2f, prev, memory, copy, user, cds, broken>>
  BY <1>6 DEF ByHandle, Calls, chainVars
<1> QED
  BY <1>1, <1>2, <1>3, <1>4, <1>5, <1>6 DEF Call

----------------------------------------------------------------------------
LEMMA NextInv == Inv /\ [Next]_vars => Inv'
<1> SUFFICES ASSUME Inv, [Next]_vars PROVE Inv'
  OBVIOUS
<1>1. CASE Step
  <2>1. ASSUME NEW d \in 0..last_drive, NEW url \in Shares, set_up_cds(d, url) PROVE Inv'
    BY <2>1, LoadInv
  <2>2. ASSUME NEW n \in Copies, Break(n) \/ tsr(n) PROVE Inv'
    BY <2>2, BreakInv, TsrInv
  <2>3. CASE unload_latest
    BY <2>3, UnloadInv
  <2>4. ASSUME NEW o \in Others, HookOther(o) \/ UnhookOther(o) PROVE Inv'
    BY <2>4, OtherInv
  <2>5. ASSUME NEW i \in UserInts, UserIntOfOther(i) PROVE Inv'
    <3>1. user' \in [UserInts -> {DOS, Stranger} \cup Copies]
      BY <2>5 DEF UserIntOfOther, Inv, Types
    <3> QED
      BY <2>5, <3>1, RestInv DEF UserIntOfOther
  <2> QED
    BY <1>1, <2>1, <2>2, <2>3, <2>4, <2>5 DEF Step
<1>2. CASE Call \/ Return
  BY <1>2, CallChangesNone, RestInv DEF Inv, Types
<1>3. CASE UNCHANGED vars
  BY <1>3, RestInv DEF vars, Inv, Types
<1> QED
  BY <1>1, <1>2, <1>3 DEF Next

LEMMA SpecInv == Spec => []Inv
<1> QED
  BY InitInv, NextInv, PTL DEF Spec

\* INT 2F never leads to memory that has been given back, however copies and other programs
\* come and go: unload_latest may pick a copy that is not the latest, but only frees the one
\* on top (fnshare.c:264-284).
THEOREM ChainStaysResident == Spec => []ChainResident
<1>1. Inv => ChainResident
  BY DEF Inv
<1> QED
  BY <1>1, SpecInv, PTL

\* A drive has one resident copy at most, which is not a drive of the PC, and is flagged when
\* it has one and, unless the user broke a loading off, only then (fnshare.c:195-216, 309).
THEOREM DrivesAreServed == Spec => []DrivesServed
<1>1. Inv => DrivesServed
  <2> SUFFICES ASSUME Inv, AtPrompt, NEW d \in Drives
               PROVE  /\ Cardinality(Serving(d)) <= 1
                      /\ Serving(d) # {} => cds[d] = "network"
                      /\ cds[d] = "network" /\ d \notin broken => Serving(d) # {}
                      /\ d \in LocalDrives => cds[d] = "local"
    BY DEF DrivesServed
  <2>1. Serving(d) = {n \in Held : copy[n].drive = d}
    BY DEF AtPrompt, Loading, Serving, Held
  <2>2. Cardinality(Serving(d)) <= 1
    <3>1. CASE Serving(d) = {}
      BY <3>1, FS_EmptySet, SMT
    <3>2. ASSUME NEW n \in Serving(d) PROVE Cardinality(Serving(d)) <= 1
      <4>1. Serving(d) = {n}
        BY <2>1, <3>2 DEF Inv, DriveHeld
      <4>2. Cardinality({n}) = 1
        BY FS_Singleton
      <4> QED
        BY <4>1, <4>2, SMT
    <3> QED
      BY <3>1, <3>2
  <2> QED
    BY <2>1, <2>2 DEF Inv, DriveHeld
<1> QED
  BY <1>1, SpecInv, PTL

----------------------------------------------------------------------------
(* The chain as a sequence.                                                *)

\* From DOS's handler upwards: the handlers that are loaded, each once, and each leads to the
\* one below it.
Linked(s) ==
  /\ s \in Seq(Handlers)
  /\ \A i \in 1..Len(s) : memory[s[i]] = "loaded" /\ prev[s[i]] = (IF i = 1 THEN DOS ELSE s[i - 1])
  /\ \A h \in Loaded : \E i \in 1..Len(s) : s[i] = h
  /\ \A i, j \in 1..Len(s) : s[i] = s[j] => i = j
  /\ Len(s) = Cardinality(Loaded)
  /\ vect2f = (IF Len(s) = 0 THEN DOS ELSE s[Len(s)])

\* Whatever memory still says, the handlers lead to one another without going in circles: each
\* has led, ever since it was loaded, to one that was there before it.
NoCircle ==
  \E N \in Nat, r \in [{DOS} \cup Handlers -> Nat] :
    /\ \A h \in Handlers : r[prev[h]] < r[h]
    /\ \A h \in {DOS} \cup Handlers : r[h] <= N

\* Nothing leads to a program that has not hooked INT 2F yet.
Fresh ==
  \A h \in Handlers : memory[h] \in {"none", "loading"} =>
    vect2f # h /\ \A k \in Handlers : prev[k] # h

LinkInv == NoCircle /\ Fresh /\ \E s : Linked(s)

LEMMA LoadedFinite == Loaded \subseteq Handlers /\ IsFiniteSet(Loaded)
<1>1. IsFiniteSet(Copies) /\ IsFiniteSet(Others)
  BY FS_Interval, FnshareAssumption DEF Copies, Others
<1>2. IsFiniteSet(Handlers)
  BY <1>1, FS_Union DEF Handlers
<1> QED BY <1>2, FS_Subset DEF Loaded, Handlers

LEMMA InitLink == Init => LinkInv
<1> SUFFICES ASSUME Init PROVE LinkInv
  OBVIOUS
<1> USE HandlersAreNot
<1>1. NoCircle
  <2> DEFINE r == [h \in {DOS} \cup Handlers |-> IF h = DOS THEN 0 ELSE 1]
  <2>1. r \in [{DOS} \cup Handlers -> Nat]
    OBVIOUS
  <2>2. \A h \in Handlers : r[prev[h]] < r[h]
    BY DEF Init, Handlers
  <2>3. \A h \in {DOS} \cup Handlers : r[h] <= 1
    OBVIOUS
  <2> HIDE DEF r
  <2> QED BY <2>1, <2>2, <2>3 DEF NoCircle
<1>2. Fresh
  BY DEF Init, Fresh, Handlers
<1>3. Linked(<<>>)
  <2>1. Loaded = {}
    BY DEF Init, Loaded
  <2>2. Cardinality(Loaded) = 0
    BY <2>1, FS_EmptySet
  <2> QED BY <2>1, <2>2 DEF Init, Linked
<1> QED BY <1>1, <1>2, <1>3 DEF LinkInv

\* A handler goes on top.
LEMMA OnTopLink ==
  ASSUME Types, LinkInv, NEW o \in Handlers, memory[o] \in {"none", "loading"},
         vect2f' = o, prev' = [prev EXCEPT ![o] = vect2f],
         memory' = [memory EXCEPT ![o] = "loaded"]
  PROVE  LinkInv' /\ \A s : Linked(s) => Linked(Append(s, o))'
<1> USE HandlersAreNot
<1>1. NoCircle'
  <2>1. PICK N \in Nat, r \in [{DOS} \cup Handlers -> Nat] :
          /\ \A h \in Handlers : r[prev[h]] < r[h]
          /\ \A h \in {DOS} \cup Handlers : r[h] <= N
    BY DEF LinkInv, NoCircle
  <2> DEFINE q == [r EXCEPT ![o] = N + 1]
  <2>2. q \in [{DOS} \cup Handlers -> Nat] /\ N + 1 \in Nat
    OBVIOUS
  <2>3. ASSUME NEW h \in Handlers PROVE q[prev'[h]] < q[h]
    <3>1. CASE h = o
      <4>1. prev'[h] = vect2f /\ vect2f # o /\ vect2f \in {DOS} \cup Handlers
        BY <3>1 DEF Types, LinkInv, Fresh
      <4> QED BY <2>1, <3>1, <4>1
    <3>2. CASE h # o
      <4>1. prev'[h] = prev[h] /\ prev[h] # o /\ prev[h] \in {DOS} \cup Handlers
        BY <3>2 DEF Types, LinkInv, Fresh
      <4> QED BY <2>1, <3>2, <4>1
    <3> QED BY <3>1, <3>2
  <2>4. ASSUME NEW h \in {DOS} \cup Handlers PROVE q[h] <= N + 1
    BY <2>1
  <2> HIDE DEF q
  <2> QED BY <2>2, <2>3, <2>4 DEF NoCircle
<1>2. Fresh'
  <2> SUFFICES ASSUME NEW h \in Handlers, memory'[h] \in {"none", "loading"}
               PROVE  vect2f' # h /\ \A k \in Handlers : prev'[k] # h
    BY DEF Fresh
  <2>1. h # o /\ memory'[h] = memory[h]
    BY DEF Types
  <2> QED BY <2>1 DEF Types, LinkInv, Fresh
<1>3. Loaded' = Loaded \cup {o} /\ o \notin Loaded
  BY DEF Types, Loaded, Handlers
<1>4. ASSUME NEW s, Linked(s) PROVE Linked(Append(s, o))'
  <2> DEFINE t == Append(s, o)
             n == Len(s)
  <2>1. s \in Seq(Handlers) /\ n \in Nat /\ \A i \in 1..n : s[i] \in Handlers
    BY <1>4, LenProperties, ElementOfSeq DEF Linked
  <2>2. t \in Seq(Handlers) /\ Len(t) = n + 1 /\ (\A i \in 1..n : t[i] = s[i]) /\ t[n + 1] = o
    BY <2>1, AppendType
  <2> HIDE DEF t
  <2>3. Cardinality(Loaded') = n + 1
    <3>1. Cardinality(Loaded) = n /\ IsFiniteSet(Loaded)
      BY <1>4, LoadedFinite DEF Linked
    <3>2. Cardinality(Loaded \cup {o}) = Cardinality(Loaded) + 1
      BY <1>3, <3>1, FS_AddElement
    <3> QED BY <1>3, <3>1, <3>2
  <2>4. ASSUME NEW i \in 1..n + 1
        PROVE  memory'[t[i]] = "loaded" /\ prev'[t[i]] = (IF i = 1 THEN DOS ELSE t[i - 1])
    <3>1. CASE i \in 1..n
      <4>1. /\ t[i] = s[i] /\ t[i] # o /\ memory[s[i]] = "loaded"
            /\ prev[s[i]] = (IF i = 1 THEN DOS ELSE s[i - 1])
        BY <1>4, <2>2, <3>1 DEF Linked
      <4>2. i # 1 => t[i - 1] = s[i - 1]
        BY <2>1, <2>2, <3>1
      <4> QED BY <2>1, <3>1, <4>1, <4>2 DEF Types
    <3>2. CASE i = n + 1
      <4>1. t[i] = o /\ prev'[o] = vect2f /\ memory'[o] = "loaded"
        BY <2>2, <3>2 DEF Types
      <4>2. vect2f = (IF n = 0 THEN DOS ELSE s[n])
        BY <1>4 DEF Linked
      <4>3. i # 1 => t[i - 1] = s[n]
        BY <2>1, <2>2, <3>2
      <4> QED BY <2>1, <3>2, <4>1, <4>2, <4>3
    <3> QED BY <2>1, <3>1, <3>2
  <2>5. ASSUME NEW h \in Loaded' PROVE \E i \in 1..n + 1 : t[i] = h
    <3>1. CASE h = o
      <4>1. n + 1 \in 1..n + 1
        BY <2>1
      <4> QED BY <2>2, <3>1, <4>1
    <3>2. CASE h # o
      <4>1. PICK i \in 1..n : s[i] = h
        BY <1>4, <1>3, <3>2 DEF Linked
      <4>2. i \in 1..n + 1
        BY <2>1
      <4> QED BY <2>2, <4>1, <4>2
    <3> QED BY <3>1, <3>2
  <2>6. vect2f' = (IF Len(t) = 0 THEN DOS ELSE t[Len(t)])
    BY <2>1, <2>2
  <2>7. \A i \in 1..n : s[i] # o
    BY <1>4, <1>3 DEF Linked, Loaded, Handlers
  <2>8. ASSUME NEW i \in 1..n + 1, NEW j \in 1..n + 1, t[i] = t[j] PROVE i = j
    <3>1. (i \in 1..n \/ i = n + 1) /\ (j \in 1..n \/ j = n + 1)
      BY <2>1
    <3>2. CASE i \in 1..n /\ j \in 1..n
      <4>1. s[i] = s[j]
        BY <2>2, <2>8, <3>2
      <4> QED BY <1>4, <3>2, <4>1 DEF Linked
    <3> QED BY <2>2, <2>7, <2>8, <3>1, <3>2
  <2>9. Linked(t)'
    BY <2>2, <2>3, <2>4, <2>5, <2>6, <2>8 DEF Linked
  <2> QED BY <2>9 DEF t
<1>5. \A s : Linked(s) => Linked(Append(s, o))'
  BY <1>4
<1> QED BY <1>1, <1>2, <1>5 DEF LinkInv

\* The handler on top goes.
\* The handler on top goes, and those below it are left.
LEMMA FromTopLinked ==
  ASSUME Types, LinkInv, NEW o \in Handlers, vect2f = o,
         vect2f' = prev[o], prev' = prev, memory' = [memory EXCEPT ![o] = "gone"],
         NEW s, Linked(s)
  PROVE  Len(s) # 0 /\ s[Len(s)] = o /\ Linked(SubSeq(s, 1, Len(s) - 1))'
<1> USE HandlersAreNot
<1>1. Linked(s)
  OBVIOUS
<1> DEFINE n == Len(s)
           t == SubSeq(s, 1, n - 1)
<1>2. s \in Seq(Handlers) /\ n \in Nat /\ \A i \in 1..n : s[i] \in Handlers
  BY <1>1, LenProperties, ElementOfSeq DEF Linked
<1>3. n # 0 /\ s[n] = o /\ n \in 1..n
  BY <1>1, <1>2 DEF Linked
<1>4. Loaded' = Loaded \ {o} /\ o \in Loaded
  <2>1. memory[o] = "loaded"
    BY <1>1, <1>3 DEF Linked
  <2>2. \A h \in Handlers : memory'[h] = IF h = o THEN "gone" ELSE memory[h]
    BY DEF Types
  <2>3. Loaded = {h \in Handlers : memory[h] = "loaded"}
        /\ Loaded' = {h \in Handlers : memory'[h] = "loaded"}
    BY DEF Loaded, Handlers
  <2> QED BY <2>1, <2>2, <2>3
<1>5. t \in Seq(Handlers) /\ Len(t) = n - 1 /\ \A i \in 1..n - 1 : t[i] = s[i]
  <2>1. n - 1 \in 0..n
    BY <1>2, <1>3
  <2>2. t \in Seq(Handlers) /\ Len(t) = n - 1
    BY <1>2, <2>1, TakeType
  <2>3. \A i \in 1..n - 1 : s[i] \in Handlers
    BY <1>2
  <2>4. \A i \in 1..(n - 1) - 1 + 1 : t[i] = s[1 + i - 1]
    BY <1>2, <1>3, <2>3, SubSeqProperties
  <2>5. ASSUME NEW i \in 1..n - 1 PROVE t[i] = s[i]
    <3>1. i \in 1..(n - 1) - 1 + 1 /\ 1 + i - 1 = i
      BY <1>2, <1>3
    <3> QED BY <2>4, <3>1
  <2> QED BY <2>2, <2>5
<1> HIDE DEF t
<1>6. \A i \in 1..n - 1 : i \in 1..n
  BY <1>2
<1>7. ASSUME NEW i \in 1..n - 1, NEW j \in 1..n - 1, t[i] = t[j] PROVE i = j
  <2>1. s[i] = s[j] /\ i \in 1..n /\ j \in 1..n
    BY <1>5, <1>6, <1>7
  <2> QED BY <1>1, <2>1 DEF Linked
<1>8. Cardinality(Loaded') = n - 1
  <2>1. Cardinality(Loaded) = n /\ IsFiniteSet(Loaded)
    BY <1>1, LoadedFinite DEF Linked
  <2>2. Cardinality(Loaded \ {o}) = Cardinality(Loaded) - 1
    BY <1>4, <2>1, FS_RemoveElement
  <2> QED BY <1>4, <2>1, <2>2
<1>9. ASSUME NEW i \in 1..n - 1 PROVE s[i] # o
  <2>1. i \in 1..n /\ i + 1 \in 1..n
    BY <1>2
  <2>2. i # n
    BY <1>2
  <2> QED BY <1>1, <1>3, <2>1, <2>2 DEF Linked
<1>10. ASSUME NEW i \in 1..n - 1
       PROVE  memory'[t[i]] = "loaded" /\ prev'[t[i]] = (IF i = 1 THEN DOS ELSE t[i - 1])
  <2>1. i \in 1..n /\ t[i] = s[i] /\ t[i] # o
    BY <1>2, <1>5, <1>9
  <2>2. i # 1 => t[i - 1] = s[i - 1]
    BY <1>2, <1>5
  <2>3. memory[s[i]] = "loaded" /\ prev[s[i]] = (IF i = 1 THEN DOS ELSE s[i - 1])
    BY <1>1, <2>1 DEF Linked
  <2> QED BY <1>2, <2>1, <2>2, <2>3 DEF Types
<1>11. ASSUME NEW h \in Loaded' PROVE \E i \in 1..n - 1 : t[i] = h
  <2>1. PICK i \in 1..n : s[i] = h
    BY <1>1, <1>4 DEF Linked
  <2>2. i \in 1..n - 1
    BY <1>2, <1>3, <1>4, <2>1
  <2> QED BY <1>5, <2>1, <2>2
<1>12. vect2f' = (IF Len(t) = 0 THEN DOS ELSE t[Len(t)])
  <2>1. vect2f' = (IF n = 1 THEN DOS ELSE s[n - 1])
    BY <1>1, <1>3 DEF Linked
  <2>2. n # 1 => n - 1 \in 1..n - 1
    <3> HIDE DEF n
    <3> QED BY <1>2, <1>3
  <2> QED BY <1>2, <1>3, <1>5, <2>1, <2>2
<1>13. Linked(t)'
  BY <1>5, <1>7, <1>8, <1>10, <1>11, <1>12 DEF Linked
<1> QED BY <1>3, <1>13 DEF t

LEMMA FromTopLink ==
  ASSUME Types, LinkInv, NEW o \in Handlers, vect2f = o,
         vect2f' = prev[o], prev' = prev, memory' = [memory EXCEPT ![o] = "gone"]
  PROVE  LinkInv'
<1> USE HandlersAreNot
<1>1. NoCircle'
  BY DEF LinkInv, NoCircle
<1>2. Fresh'
  <2> SUFFICES ASSUME NEW h \in Handlers, memory'[h] \in {"none", "loading"}
               PROVE  vect2f' # h /\ \A k \in Handlers : prev'[k] # h
    BY DEF Fresh
  <2>1. memory'[h] = memory[h]
    BY DEF Types
  <2> QED BY <2>1 DEF LinkInv, Fresh
<1>3. PICK s : Linked(s)
  BY DEF LinkInv
<1>4. Linked(SubSeq(s, 1, Len(s) - 1))'
  BY <1>3, FromTopLinked
<1> QED BY <1>1, <1>2, <1>4 DEF LinkInv

\* What is met from the i-th handler of s on.
Downwards(s, i) == [j \in 1..i |-> s[i + 1 - j]]

LEMMA DownwardsStep ==
  ASSUME NEW s \in Seq(Handlers), NEW i \in 1..Len(s)
  PROVE  <<s[i]>> \o Downwards(s, i - 1) = Downwards(s, i)
<1>1. Len(s) \in Nat /\ (\A j \in 1..Len(s) : s[j] \in Handlers)
  BY LenProperties, ElementOfSeq
<1>2. i \in Nat /\ i - 1 \in Nat /\ \A j \in 1..i - 1 : s[i - 1 + 1 - j] \in Handlers
  <2> SUFFICES ASSUME NEW j \in 1..i - 1 PROVE s[i - 1 + 1 - j] \in Handlers
    BY <1>1
  <2>1. i - 1 + 1 - j \in 1..Len(s)
    BY <1>1
  <2> QED BY <1>1, <2>1
<1>3. \A j \in 1..i : s[i + 1 - j] \in Handlers
  <2> SUFFICES ASSUME NEW j \in 1..i PROVE s[i + 1 - j] \in Handlers
    OBVIOUS
  <2>1. i + 1 - j \in 1..Len(s)
    BY <1>1
  <2> QED BY <1>1, <2>1
<1> DEFINE a == Downwards(s, i - 1)
           b == Downwards(s, i)
           c == <<s[i]>> \o a
<1>4. a \in Seq(Handlers) /\ Len(a) = i - 1
  <2>1. a \in [1..i - 1 -> Handlers]
    BY <1>2 DEF Downwards
  <2> QED BY <1>2, <2>1, SeqDef, LenProperties
<1>5. b \in Seq(Handlers) /\ Len(b) = i
  <2>1. b \in [1..i -> Handlers]
    BY <1>3 DEF Downwards
  <2> QED BY <1>2, <2>1, SeqDef, LenProperties
<1>6. s[i] \in Handlers
  BY <1>1
<1>7. <<s[i]>> \in Seq(Handlers) /\ Len(<<s[i]>>) = 1 /\ <<s[i]>>[1] = s[i]
  BY <1>6
<1>8. /\ c \in Seq(Handlers) /\ Len(c) = 1 + (i - 1)
      /\ \A j \in 1..1 + (i - 1) : c[j] = IF j <= 1 THEN <<s[i]>>[j] ELSE a[j - 1]
  <2> HIDE DEF a
  <2> QED BY <1>4, <1>7, ConcatProperties
<1>9. ASSUME NEW j \in 1..i PROVE c[j] = b[j]
  <2>1. b[j] = s[i + 1 - j]
    BY DEF Downwards
  <2>2. CASE j = 1
    <3>1. i + 1 - j = i /\ j \in 1..1 + (i - 1)
      BY <1>2, <2>2
    <3> QED BY <1>7, <1>8, <2>1, <2>2, <3>1
  <2>3. CASE j # 1
    <3>1. j - 1 \in 1..i - 1 /\ i - 1 + 1 - (j - 1) = i + 1 - j /\ ~(j <= 1)
          /\ j \in 1..1 + (i - 1)
      BY <1>2, <2>3
    <3>2. a[j - 1] = s[i - 1 + 1 - (j - 1)]
      BY <3>1 DEF Downwards
    <3>3. c[j] = a[j - 1]
      BY <1>8, <3>1
    <3> QED BY <2>1, <3>1, <3>2, <3>3
  <2> QED BY <2>2, <2>3
<1>10. Len(c) = Len(b)
  BY <1>2, <1>5, <1>8
<1> HIDE DEF a, b, c
<1>11. c = b
  BY <1>2, <1>5, <1>8, <1>9, <1>10, SeqEqual
<1> QED BY <1>11 DEF a, b, c

\* Where no handler leads to itself, even by others, what each leads to is defined.
Met(f, h) == IF h = DOS THEN <<>> ELSE <<h>> \o f[prev[h]]

LEMMA ChainDefined ==
  ASSUME Types, NoCircle
  PROVE  \E f : f = [h \in {DOS} \cup Handlers |-> Met(f, h)]
<1> USE HandlersAreNot
<1> DEFINE D == {DOS} \cup Handlers
<1>1. PICK N \in Nat, r \in [{DOS} \cup Handlers -> Nat] :
        /\ \A h \in Handlers : r[prev[h]] < r[h]
        /\ \A h \in {DOS} \cup Handlers : r[h] <= N
  BY DEF NoCircle
<1> DEFINE Obeys(f, m) == f = [h \in D |-> IF r[h] <= m THEN Met(f, h) ELSE <<>>]
           T == {m \in 0..N : ~\E f : Obeys(f, m)}
<1>2. \A h \in D : r[h] \in Nat
  OBVIOUS
<1>3. \A h \in Handlers : prev[h] \in D
  BY DEF Types
<1>4. \E f : Obeys(f, N)
  <2> SUFFICES ASSUME T # {} PROVE FALSE
    OBVIOUS
  <2>0. T \in SUBSET Nat
    OBVIOUS
  <2>1. PICK x \in T : \A y \in T : x <= y
    <3> HIDE DEF T
    <3> QED BY <2>0, LeastOf
  <2>2. CASE x = 0
    <3> DEFINE f == [h \in D |-> IF r[h] <= 0 THEN <<>> ELSE <<>>]
    <3>1. ASSUME NEW h \in D, r[h] <= 0 PROVE h = DOS
      <4> SUFFICES ASSUME h \in Handlers PROVE FALSE
        OBVIOUS
      <4>1. r[prev[h]] < r[h] /\ r[prev[h]] \in Nat /\ r[h] \in Nat
        BY <1>1, <1>2, <1>3
      <4> QED BY <3>1, <4>1
    <3>2. ASSUME NEW h \in D PROVE f[h] = IF r[h] <= 0 THEN Met(f, h) ELSE <<>>
      BY <3>1 DEF Met
    <3>3. Obeys(f, 0)
      BY <3>2
    <3> QED BY <2>1, <2>2, <3>3
  <2>3. CASE x # 0
    <3>1. x - 1 \in 0..N /\ x - 1 \notin T /\ x \in Nat
      BY <2>1, <2>3
    <3>2. PICK f : Obeys(f, x - 1)
      BY <3>1
    <3> DEFINE g == [h \in D |-> IF r[h] <= x THEN Met(f, h) ELSE <<>>]
    <3>3. ASSUME NEW h \in D, r[h] <= x - 1 PROVE f[h] = g[h]
      <4>1. r[h] <= x
        BY <1>2, <3>1, <3>3
      <4>2. f[h] = Met(f, h)
        BY <3>2, <3>3
      <4> QED BY <4>1, <4>2
    <3> HIDE DEF g
    <3>4. ASSUME NEW h \in D PROVE g[h] = IF r[h] <= x THEN Met(g, h) ELSE <<>>
      <4>1. CASE h = DOS \/ ~(r[h] <= x)
        BY <4>1 DEF g, Met
      <4>2. CASE h # DOS /\ r[h] <= x
        <5>1. h \in Handlers /\ prev[h] \in D /\ r[prev[h]] < r[h]
          BY <1>1, <1>3, <4>2
        <5>2. r[prev[h]] <= x - 1
          BY <1>2, <3>1, <4>2, <5>1
        <5>3. f[prev[h]] = g[prev[h]]
          BY <3>3, <5>1, <5>2
        <5>4. g[h] = Met(f, h)
          BY <4>2 DEF g
        <5> QED BY <4>2, <5>3, <5>4 DEF Met
      <4> QED BY <4>1, <4>2
    <3>5. g = [h \in D |-> g[h]]
      BY DEF g
    <3>6. Obeys(g, x)
      BY <3>4, <3>5
    <3> QED BY <2>1, <3>6
  <2> QED BY <2>2, <2>3
<1>5. PICK f : Obeys(f, N)
  BY <1>4
<1>6. f = [h \in D |-> Met(f, h)]
  BY <1>1, <1>5
<1> QED BY <1>6

\* The chain is what the handlers name, from the top downwards.
LEMMA ChainIs ==
  ASSUME Types, NoCircle, NEW s, Linked(s)
  PROVE  Chain = Downwards(s, Len(s))
<1> USE HandlersAreNot
<1> DEFINE from == CHOOSE f : f = [h \in {DOS} \cup Handlers |-> Met(f, h)]
<1>1. Chain = from[vect2f]
  <2>1. {DOS} \cup Copies \cup Others = {DOS} \cup Handlers
    BY DEF Handlers
  <2>2. Chain = (CHOOSE f : f = [h \in {DOS} \cup Copies \cup Others |->
                                   IF h = DOS THEN <<>> ELSE <<h>> \o f[prev[h]]])[vect2f]
    BY DEF Chain
  <2> QED BY <2>1, <2>2 DEF Met
<1>2. from = [h \in {DOS} \cup Handlers |-> Met(from, h)]
  BY ChainDefined
<1> HIDE DEF from
<1>3. from[DOS] = <<>> /\ \A h \in Handlers : from[h] = <<h>> \o from[prev[h]]
  BY <1>2 DEF Met
<1> DEFINE n == Len(s)
           T == {i \in 1..n : from[s[i]] # Downwards(s, i)}
<1>4. s \in Seq(Handlers) /\ n \in Nat /\ \A i \in 1..n : s[i] \in Handlers
  BY LenProperties, ElementOfSeq DEF Linked
<1>5. Downwards(s, 0) = <<>>
  <2>1. 1..0 = {}
    OBVIOUS
  <2> QED BY <2>1 DEF Downwards
<1>6. T = {}
  <2> SUFFICES ASSUME T # {} PROVE FALSE
    OBVIOUS
  <2>0. T \in SUBSET Nat
    BY <1>4
  <2>1. PICK i \in T : \A j \in T : i <= j
    <3> HIDE DEF T
    <3> QED BY <2>0, LeastOf
  <2>2. i \in 1..n /\ s[i] \in Handlers /\ from[s[i]] # Downwards(s, i)
    BY <1>4, <2>1
  <2>3. prev[s[i]] = (IF i = 1 THEN DOS ELSE s[i - 1])
    BY <2>2 DEF Linked
  <2>4. from[prev[s[i]]] = Downwards(s, i - 1)
    <3>1. CASE i = 1
      BY <1>3, <1>5, <2>3, <3>1
    <3>2. CASE i # 1
      <4>1. i - 1 \in 1..n /\ ~(i <= i - 1)
        BY <1>4, <2>2, <3>2
      <4>2. i - 1 \notin T
        BY <2>1, <4>1
      <4> QED BY <2>3, <3>2, <4>1, <4>2
    <3> QED BY <3>1, <3>2
  <2>5. from[s[i]] = <<s[i]>> \o Downwards(s, i - 1)
    BY <1>3, <2>2, <2>4
  <2> QED BY <1>4, <2>2, <2>5, DownwardsStep
<1>7. CASE n = 0
  BY <1>1, <1>3, <1>5, <1>7 DEF Linked
<1>8. CASE n # 0
  <2>1. n \in 1..n /\ vect2f = s[n]
    BY <1>4, <1>8 DEF Linked
  <2> QED BY <1>1, <1>6, <2>1
<1> QED BY <1>7, <1>8

\* So it has everything that is loaded, each once.
LEMMA ChainHas ==
  ASSUME Types, LinkInv
  PROVE  /\ Chain \in Seq(Handlers) /\ ToSet(Chain) = Loaded
         /\ Len(Chain) = Cardinality(Loaded)
<1>1. PICK s : Linked(s)
  BY DEF LinkInv
<1> DEFINE n == Len(s)
<1>2. s \in Seq(Handlers) /\ n \in Nat /\ \A i \in 1..n : s[i] \in Handlers
  BY <1>1, LenProperties, ElementOfSeq DEF Linked
<1>3. Chain = Downwards(s, n)
  BY <1>1, ChainIs DEF LinkInv
<1> HIDE DEF n
<1>4. \A j \in 1..n : n + 1 - j \in 1..n
  BY <1>2
<1>5. Chain \in [1..n -> Handlers]
  BY <1>2, <1>3, <1>4 DEF Downwards
<1>6. Chain \in Seq(Handlers) /\ Len(Chain) = n /\ DOMAIN Chain = 1..n
  BY <1>2, <1>5, SeqDef, LenProperties
<1>7. ASSUME NEW h \in Loaded PROVE h \in ToSet(Chain)
  <2>1. PICK i \in 1..n : s[i] = h
    BY <1>1 DEF Linked, n
  <2>2. n + 1 - i \in 1..n /\ n + 1 - (n + 1 - i) = i
    BY <1>2
  <2>3. Chain[n + 1 - i] = h
    BY <1>3, <2>1, <2>2 DEF Downwards
  <2> QED BY <1>6, <2>2, <2>3 DEF ToSet
<1>8. ASSUME NEW j \in 1..n PROVE Chain[j] \in Loaded
  <2>1. Chain[j] = s[n + 1 - j] /\ n + 1 - j \in 1..n
    BY <1>3, <1>4 DEF Downwards
  <2>2. memory[s[n + 1 - j]] = "loaded" /\ s[n + 1 - j] \in Handlers
    BY <1>1, <1>2, <2>1 DEF Linked, n
  <2> QED BY <2>1, <2>2 DEF Loaded, Handlers
<1>9. ToSet(Chain) = Loaded
  BY <1>6, <1>7, <1>8 DEF ToSet
<1> QED BY <1>1, <1>6, <1>9 DEF Linked, n

\* What leaves INT 2F alone and makes nothing resident and nothing unborn keeps the chain.
LEMMA StillLink ==
  ASSUME Types, LinkInv, UNCHANGED <<vect2f, prev>>, Loaded' = Loaded,
         \A h \in Handlers : memory'[h] = "loaded" <=> memory[h] = "loaded",
         \A h \in Handlers : memory'[h] \in {"none", "loading"} => memory[h] \in {"none", "loading"}
  PROVE  LinkInv'
<1>1. NoCircle'
  BY DEF LinkInv, NoCircle
<1>2. Fresh'
  BY DEF LinkInv, Fresh
<1>3. PICK s : Linked(s)
  BY DEF LinkInv
<1>4. \A i \in 1..Len(s) : s[i] \in Handlers
  BY <1>3, LenProperties, ElementOfSeq DEF Linked
<1>5. \A i \in 1..Len(s) : memory'[s[i]] = "loaded"
  BY <1>3, <1>4 DEF Linked
<1>6. Linked(s)'
  BY <1>3, <1>5 DEF Linked
<1> QED BY <1>1, <1>2, <1>6 DEF LinkInv

\* A loading that begins or is broken off is not seen in INT 2F.
LEMMA LoadingLink ==
  ASSUME Types, LinkInv, UNCHANGED <<vect2f, prev>>, NEW n \in Copies,
         \/ memory[n] = "none" /\ memory' = [memory EXCEPT ![n] = "loading"]
         \/ memory[n] = "loading" /\ memory' = [memory EXCEPT ![n] = "gone"]
  PROVE  LinkInv'
<1>1. n \in Handlers
  BY DEF Handlers
<1>2. \A h \in Handlers : memory'[h] = "loaded" <=> memory[h] = "loaded"
  BY <1>1 DEF Types
<1>3. \A h \in Handlers : memory'[h] \in {"none", "loading"} => memory[h] \in {"none", "loading"}
  BY <1>1 DEF Types
<1>4. Loaded' = Loaded
  BY <1>2 DEF Loaded, Handlers
<1> QED BY <1>2, <1>3, <1>4, StillLink

LEMMA SameLink ==
  ASSUME Types, LinkInv, UNCHANGED <<vect2f, prev, memory>>
  PROVE  LinkInv'
<1>1. Loaded' = Loaded
  BY DEF Loaded
<1> QED BY <1>1, StillLink

LEMMA StepLink == Inv /\ LinkInv /\ [Next]_vars => LinkInv'
<1> SUFFICES ASSUME Inv, LinkInv, [Next]_vars PROVE LinkInv'
  OBVIOUS
<1>0. Types
  BY DEF Inv
<1>1. CASE Step
  <2>1. ASSUME NEW d \in 0..last_drive, NEW url \in Shares, set_up_cds(d, url) PROVE LinkInv'
    <3>1. PICK n \in Copies : memory[n] = "none" /\ memory' = [memory EXCEPT ![n] = "loading"]
      BY <2>1 DEF set_up_cds
    <3>2. UNCHANGED <<vect2f, prev>>
      BY <2>1 DEF set_up_cds
    <3> QED BY <1>0, <3>1, <3>2, LoadingLink
  <2>2. ASSUME NEW n \in Copies, Break(n) PROVE LinkInv'
    BY <1>0, <2>2, LoadingLink DEF Break, Loading
  <2>3. ASSUME NEW n \in Copies, tsr(n) PROVE LinkInv'
    <3>1. n \in Handlers
      BY DEF Handlers
    <3> QED BY <1>0, <2>3, <3>1, OnTopLink DEF tsr, prepare_for_tsr, Loading
  <2>4. CASE unload_latest
    <3> DEFINE i == Highest(Signed)
               n == user[i]
    <3>1. Signed \in SUBSET UserInts /\ Signed # {}
      BY <2>4 DEF unload_latest, Signed
    <3>2. n \in Handlers
      BY <3>1, HighestIsThere DEF Signed, Handlers
    <3>3. vect2f = n /\ vect2f' = prev[n] /\ prev' = prev /\ memory' = [memory EXCEPT ![n] = "gone"]
      BY <2>4 DEF unload_latest, OnTop
    <3> HIDE DEF n
    <3> QED BY <1>0, <3>2, <3>3, FromTopLink
  <2>5. ASSUME NEW o \in Others, HookOther(o) \/ UnhookOther(o) PROVE LinkInv'
    <3>1. o \in Handlers
      BY DEF Handlers
    <3>2. CASE HookOther(o)
      BY <1>0, <3>1, <3>2, OnTopLink DEF HookOther
    <3>3. CASE UnhookOther(o)
      BY <1>0, <3>1, <3>3, FromTopLink DEF UnhookOther
    <3> QED BY <2>5, <3>2, <3>3
  <2>6. ASSUME NEW i \in UserInts, UserIntOfOther(i) PROVE LinkInv'
    BY <1>0, <2>6, SameLink DEF UserIntOfOther
  <2> QED BY <1>1, <2>1, <2>2, <2>3, <2>4, <2>5, <2>6 DEF Step
<1>2. CASE Call \/ Return
  BY <1>0, <1>2, CallChangesNone, SameLink
<1>3. CASE UNCHANGED vars
  BY <1>0, <1>3, SameLink DEF vars
<1> QED BY <1>1, <1>2, <1>3 DEF Next

LEMMA SpecLink == Spec => [](Inv /\ LinkInv)
<1>1. Init => Inv /\ LinkInv
  BY InitInv, InitLink
<1>2. (Inv /\ LinkInv) /\ [Next]_vars => (Inv /\ LinkInv)'
  BY NextInv, StepLink
<1> QED BY <1>1, <1>2, PTL DEF Spec

\* A call of INT 2F meets every handler that is resident once and no other, however copies and
\* other programs are hooked in and go from the top (fnshare.c:228-236, 264-284).
THEOREM ChainIntactHolds == Spec => []ChainIntact
<1>1. Inv /\ LinkInv => ChainIntact
  BY ChainHas DEF Inv, ChainIntact
<1> QED BY <1>1, SpecLink, PTL

----------------------------------------------------------------------------
(* The chain as a stack.                                                   *)

LEMMA ChainThen == (Types /\ NoCircle => \A s : Linked(s) => Chain = Downwards(s, Len(s)))'
<1>1. Types /\ NoCircle => \A s : Linked(s) => Chain = Downwards(s, Len(s))
  BY ChainIs
<1> QED BY <1>1, PTL

LEMMA OnTopChain ==
  ASSUME Types, LinkInv, Types', NEW o \in Handlers, memory[o] \in {"none", "loading"},
         vect2f' = o, prev' = [prev EXCEPT ![o] = vect2f],
         memory' = [memory EXCEPT ![o] = "loaded"]
  PROVE  Chain' = <<o>> \o Chain /\ Loaded' = Loaded \cup {o} /\ o \notin Loaded
<1>1. PICK s : Linked(s)
  BY DEF LinkInv
<1> DEFINE n == Len(s)
           t == Append(s, o)
<1>2. LinkInv' /\ Linked(t)'
  BY <1>1, OnTopLink
<1>3. s \in Seq(Handlers) /\ n \in Nat
  BY <1>1, LenProperties DEF Linked
<1>4. t \in Seq(Handlers) /\ Len(t) = n + 1 /\ (\A i \in 1..n : t[i] = s[i]) /\ t[n + 1] = o
  BY <1>3, AppendType
<1>5. Chain = Downwards(s, n)
  BY <1>1, ChainIs DEF LinkInv
<1>6. Chain' = Downwards(t, Len(t))
  BY <1>2, ChainThen DEF LinkInv
<1> HIDE DEF n, t
<1>7. n + 1 \in 1..Len(t) /\ n + 1 - 1 = n
  BY <1>3, <1>4
<1>8. Downwards(t, n + 1) = <<o>> \o Downwards(t, n)
  <2>1. \A i \in 1..Len(t) : <<t[i]>> \o Downwards(t, i - 1) = Downwards(t, i)
    BY <1>4, DownwardsStep
  <2> DEFINE m == n + 1
  <2>2. m \in 1..Len(t) /\ m - 1 = n /\ t[m] = o
    BY <1>3, <1>4, <1>7
  <2> HIDE DEF m
  <2>3. <<o>> \o Downwards(t, n) = Downwards(t, m)
    BY <2>1, <2>2, Zenon
  <2> QED BY <2>3 DEF m
<1>9. Downwards(t, n) = Downwards(s, n)
  <2>1. \A j \in 1..n : n + 1 - j \in 1..n
    BY <1>3
  <2> QED BY <1>4, <2>1 DEF Downwards
<1>10. Loaded' = Loaded \cup {o} /\ o \notin Loaded
  BY DEF Types, Loaded, Handlers
<1> QED BY <1>4, <1>5, <1>6, <1>8, <1>9, <1>10

LEMMA FromTopChain ==
  ASSUME Types, LinkInv, Types', NEW o \in Handlers, vect2f = o,
         vect2f' = prev[o], prev' = prev, memory' = [memory EXCEPT ![o] = "gone"]
  PROVE  Chain # <<>> /\ Chain' = Tail(Chain) /\ Loaded' = Loaded \ {Head(Chain)}
<1>1. PICK s : Linked(s)
  BY DEF LinkInv
<1> DEFINE n == Len(s)
           t == SubSeq(s, 1, n - 1)
<1>2. n # 0 /\ s[n] = o /\ Linked(t)'
  BY <1>1, FromTopLinked
<1>3. s \in Seq(Handlers) /\ n \in Nat /\ \A i \in 1..n : s[i] \in Handlers
  BY <1>1, LenProperties, ElementOfSeq DEF Linked
<1>4. t \in Seq(Handlers) /\ Len(t) = n - 1 /\ \A i \in 1..n - 1 : t[i] = s[i]
  <2>1. n - 1 \in 0..n /\ \A i \in 1..n - 1 : s[i] \in Handlers
    BY <1>2, <1>3
  <2>2. \A i \in 1..(n - 1) - 1 + 1 : t[i] = s[1 + i - 1]
    BY <1>2, <1>3, <2>1, SubSeqProperties
  <2>3. ASSUME NEW i \in 1..n - 1 PROVE t[i] = s[i]
    <3>1. i \in 1..(n - 1) - 1 + 1 /\ 1 + i - 1 = i
      BY <1>2, <1>3
    <3> QED BY <2>2, <3>1
  <2>4. t \in Seq(Handlers) /\ Len(t) = n - 1
    BY <1>3, <2>1, TakeType
  <2> QED BY <2>3, <2>4
<1>5. Chain = Downwards(s, n)
  BY <1>1, ChainIs DEF LinkInv
<1>6. Chain' = Downwards(t, n - 1)
  <2>1. LinkInv'
    BY FromTopLink
  <2> QED BY <1>2, <1>4, <2>1, ChainThen DEF LinkInv
<1> HIDE DEF n, t
<1>7. Downwards(t, n - 1) = Downwards(s, n - 1)
  <2>1. \A j \in 1..n - 1 : n - 1 + 1 - j \in 1..n - 1
    BY <1>2, <1>3
  <2> QED BY <1>4, <2>1 DEF Downwards
<1>8. Chain = <<o>> \o Chain'
  <2>1. n \in 1..Len(s)
    BY <1>2, <1>3 DEF n
  <2> QED BY <1>2, <1>3, <1>5, <1>6, <1>7, <2>1, DownwardsStep
<1>9. Chain' \in Seq(Handlers)
  <2>1. \A j \in 1..n - 1 : n - 1 + 1 - j \in 1..n
    BY <1>2, <1>3
  <2>2. Chain' \in [1..n - 1 -> Handlers] /\ n - 1 \in Nat
    BY <1>2, <1>3, <1>6, <1>7, <2>1 DEF Downwards
  <2> QED BY <2>2, SeqDef
<1>10. Chain # <<>> /\ Head(Chain) = o /\ Tail(Chain) = Chain'
  <2> DEFINE c == Chain'
  <2>1. c \in Seq(Handlers) /\ Chain = <<o>> \o c
    BY <1>8, <1>9
  <2> HIDE DEF c
  <2>2. <<o>> \o c # <<>> /\ Head(<<o>> \o c) = o /\ Tail(<<o>> \o c) = c
    BY <2>1
  <2> QED BY <2>1, <2>2 DEF c
<1>11. Loaded' = Loaded \ {o}
  <2>1. \A h \in Handlers : memory'[h] = IF h = o THEN "gone" ELSE memory[h]
    BY DEF Types
  <2>2. Loaded = {h \in Handlers : memory[h] = "loaded"}
        /\ Loaded' = {h \in Handlers : memory'[h] = "loaded"}
    BY DEF Loaded, Handlers
  <2> QED BY <2>1, <2>2
<1> QED BY <1>10, <1>11

\* Whatever is done without INT 2F and without anybody coming or going.
LEMMA SameChain ==
  ASSUME Types, LinkInv, Types', UNCHANGED <<vect2f, prev>>,
         \A h \in Handlers : memory'[h] = "loaded" <=> memory[h] = "loaded",
         \A h \in Handlers : memory'[h] \in {"none", "loading"} => memory[h] \in {"none", "loading"}
  PROVE  Chain' = Chain /\ Loaded' = Loaded
<1>1. Loaded' = Loaded
  BY DEF Loaded, Handlers
<1>2. PICK s : Linked(s)
  BY DEF LinkInv
<1>3. LinkInv'
  BY <1>1, StillLink
<1>4. Linked(s)'
  <2>1. \A i \in 1..Len(s) : s[i] \in Handlers
    BY <1>2, LenProperties, ElementOfSeq DEF Linked
  <2>2. \A i \in 1..Len(s) : memory'[s[i]] = "loaded"
    BY <1>2, <2>1 DEF Linked
  <2> QED BY <1>1, <1>2, <2>2 DEF Linked
<1>5. Chain = Downwards(s, Len(s))
  BY <1>2, ChainIs DEF LinkInv
<1>6. Chain' = Downwards(s, Len(s))
  BY <1>3, <1>4, ChainThen DEF LinkInv
<1> QED BY <1>1, <1>5, <1>6

LEMMA StackInit == Init => Stack!Init
<1> SUFFICES ASSUME Init PROVE Stack!Init
  OBVIOUS
<1>1. Types /\ LinkInv
  BY InitInv, InitLink DEF Inv
<1>2. Loaded = {}
  BY DEF Init, Loaded
<1>3. Len(Chain) = 0 /\ Chain \in Seq(Handlers)
  BY <1>1, <1>2, ChainHas, FS_EmptySet
<1>4. Chain = <<>>
  <2> DEFINE c == Chain
  <2>1. Len(c) = 0 /\ c \in Seq(Handlers)
    BY <1>3
  <2> HIDE DEF c
  <2>2. c = <<>>
    BY <2>1
  <2> QED BY <2>2 DEF c
<1> QED BY <1>2, <1>4 DEF Stack!Init

LEMMA StackStep ==
  ASSUME Inv, LinkInv, Inv', [Next]_vars
  PROVE  [Stack!Next]_(Stack!vars)
<1>0. Types /\ Types'
  BY DEF Inv
<1>1. ASSUME Chain' = Chain /\ Loaded' = Loaded PROVE [Stack!Next]_(Stack!vars)
  BY <1>1 DEF Stack!vars
<1>2. ASSUME NEW o \in Handlers, Chain' = <<o>> \o Chain /\ Loaded' = Loaded \cup {o} /\ o \notin Loaded
      PROVE  [Stack!Next]_(Stack!vars)
  BY <1>2 DEF Stack!Hook, Stack!Next, Handlers
<1>3. ASSUME Chain # <<>> /\ Chain' = Tail(Chain) /\ Loaded' = Loaded \ {Head(Chain)}
      PROVE  [Stack!Next]_(Stack!vars)
  BY <1>3 DEF Stack!Unhook, Stack!Next
<1>4. ASSUME UNCHANGED <<vect2f, prev, memory>> PROVE [Stack!Next]_(Stack!vars)
  BY <1>0, <1>1, <1>4, SameChain
<1>5. CASE Step
  <2>1. ASSUME NEW d \in 0..last_drive, NEW url \in Shares, set_up_cds(d, url)
        PROVE  [Stack!Next]_(Stack!vars)
    <3>1. PICK n \in Copies : memory[n] = "none" /\ memory' = [memory EXCEPT ![n] = "loading"]
      BY <2>1 DEF set_up_cds
    <3>2. UNCHANGED <<vect2f, prev>>
      BY <2>1 DEF set_up_cds
    <3>3. \A h \in Handlers : memory'[h] = IF h = n THEN "loading" ELSE memory[h]
      BY <1>0, <3>1 DEF Types
    <3> QED BY <1>0, <1>1, <3>1, <3>2, <3>3, SameChain
  <2>2. ASSUME NEW n \in Copies, Break(n) PROVE [Stack!Next]_(Stack!vars)
    <3>1. memory[n] = "loading" /\ UNCHANGED <<vect2f, prev>>
      BY <2>2 DEF Break, Loading
    <3>2. \A h \in Handlers : memory'[h] = IF h = n THEN "gone" ELSE memory[h]
      BY <1>0, <2>2 DEF Types, Break
    <3> QED BY <1>0, <1>1, <3>1, <3>2, SameChain
  <2>3. ASSUME NEW n \in Copies, tsr(n) PROVE [Stack!Next]_(Stack!vars)
    <3>1. n \in Handlers
      BY DEF Handlers
    <3> QED BY <1>0, <1>2, <2>3, <3>1, OnTopChain DEF tsr, prepare_for_tsr, Loading
  <2>4. CASE unload_latest
    <3> DEFINE n == user[Highest(Signed)]
    <3>1. Signed \in SUBSET UserInts /\ Signed # {}
      BY <2>4 DEF unload_latest, Signed
    <3>2. n \in Handlers
      BY <3>1, HighestIsThere DEF Signed, Handlers
    <3>3. vect2f = n /\ vect2f' = prev[n] /\ prev' = prev /\ memory' = [memory EXCEPT ![n] = "gone"]
      BY <2>4 DEF unload_latest, OnTop
    <3> HIDE DEF n
    <3> QED BY <1>0, <1>3, <3>2, <3>3, FromTopChain
  <2>5. ASSUME NEW o \in Others, HookOther(o) \/ UnhookOther(o) PROVE [Stack!Next]_(Stack!vars)
    <3>1. o \in Handlers
      BY DEF Handlers
    <3>2. CASE HookOther(o)
      BY <1>0, <1>2, <3>1, <3>2, OnTopChain DEF HookOther
    <3>3. CASE UnhookOther(o)
      BY <1>0, <1>3, <3>1, <3>3, FromTopChain DEF UnhookOther
    <3> QED BY <2>5, <3>2, <3>3
  <2>6. ASSUME NEW i \in UserInts, UserIntOfOther(i) PROVE [Stack!Next]_(Stack!vars)
    BY <1>4, <2>6 DEF UserIntOfOther
  <2> QED BY <1>5, <2>1, <2>2, <2>3, <2>4, <2>5, <2>6 DEF Step
<1>6. CASE Call \/ Return
  BY <1>4, <1>6, CallChangesNone
<1>7. CASE UNCHANGED vars
  BY <1>4, <1>7 DEF vars
<1> QED BY <1>5, <1>6, <1>7 DEF Next

\* The handlers in INT 2F are a stack, as Hooks has it, for any number of copies, of other
\* programs and of user interrupts: prepare_for_tsr puts a copy on top, unload_latest
\* takes one away only from there, and no other step changes whom a call meets
\* (fnshare.c:228-236, 264-284).
THEOREM ImplementsStack == Spec => HandlersAreStack
<1>1. Inv /\ LinkInv /\ Inv' /\ [Next]_vars => [Stack!Next]_(Stack!vars)
  BY StackStep
<1> QED BY <1>1, SpecLink, StackInit, PTL DEF Spec, HandlersAreStack, Stack!Spec

----------------------------------------------------------------------------
(* Who takes a call.                                                       *)

\* The resident copies that the call is for, by their own lights.
Takers(fn, d, s) ==
  {n \in Copies : memory[n] = "loaded" /\ fn \in Supported /\ is_call_for_us(n, fn, d, s)}

LEMMA RedirectorIs ==
  ASSUME Types, LinkInv, NEW fn, NEW d, NEW s
  PROVE  /\ Takers(fn, d, s) = {} => redirector(fn, d, s) = DOS
         /\ Takers(fn, d, s) # {} => redirector(fn, d, s) \in Takers(fn, d, s)
<1> DEFINE takes(h) == h \in Copies /\ fn \in Supported /\ is_call_for_us(h, fn, d, s)
           T == {i \in 1..Len(Chain) : takes(Chain[i])}
           i == SelectInSeq(Chain, takes)
<1>1. redirector(fn, d, s) = IF i = 0 THEN DOS ELSE Chain[i]
  BY DEF redirector
<1>2. i = IF T # {} THEN Min(T) ELSE 0
  BY DEF SelectInSeq
<1>3. Chain \in Seq(Handlers) /\ ToSet(Chain) = Loaded /\ Len(Chain) \in Nat
      /\ DOMAIN Chain = 1..Len(Chain)
  BY ChainHas, LenProperties
<1>4. \A h \in Loaded : \E j \in 1..Len(Chain) : Chain[j] = h
  BY <1>3 DEF ToSet
<1>5. \A j \in 1..Len(Chain) : Chain[j] \in Loaded
  BY <1>3 DEF ToSet
<1>6. \A h \in Takers(fn, d, s) : h \in Loaded /\ takes(h)
  BY DEF Takers, Loaded
<1>7. \A h \in Loaded : takes(h) => h \in Takers(fn, d, s)
  BY DEF Takers, Loaded
<1>8. T \in SUBSET Nat /\ 0 \notin T /\ T \subseteq 1..Len(Chain)
  OBVIOUS
<1>9. (Takers(fn, d, s) = {}) <=> (T = {})
  BY <1>4, <1>5, <1>6, <1>7
<1>10. \A j \in T : Chain[j] \in Takers(fn, d, s)
  BY <1>5, <1>7
<1> HIDE DEF T, i
<1>11. T # {} => Min(T) \in T
  BY <1>8, LeastOf DEF Min
<1> QED BY <1>1, <1>2, <1>8, <1>9, <1>10, <1>11

----------------------------------------------------------------------------
(* What an open file and a search that goes on know of the copy that made  *)
(* them.                                                                   *)

\* A copy that has been resident; what it was loaded with is not changed any more.
Was(n) == n \in Copies /\ memory[n] \in {"loaded", "gone"} /\ copy[n].drive \in Drives

Owned ==
  /\ DOMAIN sft = Sfts
  /\ \A s \in Sfts : sft[s] # Free => Was(sft[s].by) /\ sft[s].drive = 64 + copy[sft[s].by].drive
  /\ IF srch.by = DOS THEN srch.drive_num = 0 \/ srch.drive_num \in 129..160
     ELSE Was(srch.by) /\ srch.drive_num = copy[srch.by].drive + 192

AnswerInv == Owned /\ RightCopyAnswers

\* A drive has one copy at most.
LEMMA TakersOfDrive ==
  ASSUME Inv, NEW fn, NEW d, NEW s
  PROVE  /\ fn \in Supported \ (ByFile \cup {SUBF.INQUIRY, SUBF.FINDNEXT}) =>
              Takers(fn, d, s) = Serving(d)
         /\ fn \notin Supported => Takers(fn, d, s) = {}
         /\ \A m, n \in Serving(d) : m = n
<1>1. \A m, n \in Serving(d) : m = n
  BY DEF Inv, DriveHeld, Serving, Held
<1>2. ASSUME fn \in Supported \ (ByFile \cup {SUBF.INQUIRY, SUBF.FINDNEXT})
      PROVE  Takers(fn, d, s) = Serving(d)
  <2>1. \A n : is_call_for_us(n, fn, d, s) <=> d = copy[n].drive
    BY <1>2 DEF is_call_for_us
  <2> QED BY <1>2, <2>1 DEF Takers, Serving
<1> QED BY <1>1, <1>2 DEF Takers

LEMMA ForDriveIs ==
  ASSUME Inv, LinkInv, NEW fn \in Supported \ (ByFile \cup {SUBF.INQUIRY, SUBF.FINDNEXT}),
         NEW d, NEW s
  PROVE  redirector(fn, d, s) = ForDrive(d)
<1>1. Takers(fn, d, s) = Serving(d) /\ \A m, n \in Serving(d) : m = n
  BY TakersOfDrive
<1>2. Types
  BY DEF Inv
<1>3. /\ Serving(d) = {} => redirector(fn, d, s) = DOS
      /\ Serving(d) # {} => redirector(fn, d, s) \in Serving(d)
  BY <1>1, <1>2, RedirectorIs
<1> QED BY <1>1, <1>3 DEF ForDrive

\* A call for a file or for a search that goes on is taken by the copy that made it, if it is
\* resident.
LEMMA OwnerTakes ==
  ASSUME Inv, LinkInv, NEW fn, NEW d, NEW s, NEW n, Was(n), memory[n] = "loaded", fn \in Supported,
         \A m \in Copies : is_call_for_us(m, fn, d, s) <=> copy[n].drive = copy[m].drive
  PROVE  redirector(fn, d, s) = n
<1>1. Takers(fn, d, s) = {n}
  BY DEF Takers, Was, Inv, DriveHeld, Held
<1> QED BY <1>1, RedirectorIs DEF Inv

\* A call that is answered right leaves RightCopyAnswers true.
LEMMA AnsweredRight ==
  ASSUME NEW fn, NEW due, NEW by, NEW asked, NEW sent, NEW seen,
         Answer(fn, due, by, asked, sent, seen), due # Anybody => by = due
  PROVE  RightCopyAnswers'
BY DEF Answer, RightCopyAnswers

\* The function numbers that DOS calls with.
LEMMA Functions ==
  /\ SUBF.CHDIR \in Supported \ (ByFile \cup {SUBF.INQUIRY, SUBF.FINDNEXT})
  /\ SUBF.GETDISKSPACE \in Supported \ (ByFile \cup {SUBF.INQUIRY, SUBF.FINDNEXT})
  /\ SUBF.OPENEXTENDED \in Supported \ (ByFile \cup {SUBF.INQUIRY, SUBF.FINDNEXT})
  /\ SUBF.FINDFIRST \in Supported \ (ByFile \cup {SUBF.INQUIRY, SUBF.FINDNEXT})
  /\ SUBF.DELETE \in Supported \ (ByFile \cup {SUBF.INQUIRY, SUBF.FINDNEXT})
  /\ 34 \notin Supported /\ SUBF.FINDNEXT \in Supported /\ SUBF.FINDNEXT \notin ByFile
  /\ SUBF.FINDNEXT # SUBF.INQUIRY /\ SUBF.INQUIRY \notin ByFile
  /\ FileCalls \subseteq Supported \cap ByFile
<1>1. ByFile = 6..11 \cup {33, 45}
  BY DEF ByFile, SUBF
<1>2. Supported = {0, 1, 3, 14, 15, 17, 19, 22, 23, 27, 28, 46} \cup {5, 12} \cup ByFile
  BY DEF Supported, SUBF
<1>3. /\ SUBF.INQUIRY = 0 /\ SUBF.CHDIR = 5 /\ SUBF.CLOSE = 6 /\ SUBF.READ = 8
      /\ SUBF.GETDISKSPACE = 12 /\ SUBF.DELETE = 19 /\ SUBF.FINDFIRST = 27
      /\ SUBF.FINDNEXT = 28 /\ SUBF.SEEK = 33 /\ SUBF.EXTENDATTR = 45 /\ SUBF.OPENEXTENDED = 46
  BY DEF SUBF
<1>4. FileCalls = {6, 8, 33, 45}
  BY <1>3 DEF FileCalls
<1> QED BY <1>1, <1>2, <1>3, <1>4, SMT

LEMMA InitAnswer == Init => AnswerInv
<1> SUFFICES ASSUME Init PROVE AnswerInv
  OBVIOUS
<1>1. Owned
  BY DEF Init, Owned, NoSearch, DOS
<1>2. RightCopyAnswers
  BY DEF Init, RightCopyAnswers, NoAnswer
<1> QED BY <1>1, <1>2 DEF AnswerInv

\* A copy stays what it is when others come and go.
LEMMA StepWas ==
  ASSUME Inv, Step, NEW n, Was(n)
  PROVE  Was(n)' /\ copy'[n].drive = copy[n].drive
<1>0. n \in Copies /\ n \in Handlers /\ Types
  BY DEF Was, Handlers, Inv
<1>1. ASSUME NEW d \in 0..last_drive, NEW url \in Shares, set_up_cds(d, url)
      PROVE  Was(n)' /\ copy'[n].drive = copy[n].drive
  <2>1. PICK m \in Copies :
          /\ memory[m] = "none" /\ memory' = [memory EXCEPT ![m] = "loading"]
          /\ copy' = [copy EXCEPT ![m] = [drive |-> d, volume |-> Volume(url)]]
    BY <1>1 DEF set_up_cds
  <2>2. n # m
    BY <2>1 DEF Was
  <2>3. memory'[n] = memory[n] /\ copy'[n] = copy[n]
    BY <1>0, <2>1, <2>2 DEF Types
  <2> QED BY <2>3 DEF Was
<1>2. ASSUME NEW m \in Copies, Break(m) \/ tsr(m)
      PROVE  Was(n)' /\ copy'[n].drive = copy[n].drive
  <2>1. m # n /\ copy' = copy
    BY <1>2 DEF Break, tsr, Loading, Was
  <2>2. memory'[n] = memory[n]
    BY <1>0, <1>2, <2>1 DEF Break, tsr, Types
  <2> QED BY <2>1, <2>2 DEF Was
<1>3. CASE unload_latest
  <2>1. copy' = copy /\ \E m : memory' = [memory EXCEPT ![m] = "gone"]
    BY <1>3 DEF unload_latest
  <2>2. memory'[n] \in {memory[n], "gone"}
    BY <1>0, <2>1 DEF Types
  <2> QED BY <2>1, <2>2 DEF Was
<1>4. ASSUME NEW o \in Others, HookOther(o) \/ UnhookOther(o)
      PROVE  Was(n)' /\ copy'[n].drive = copy[n].drive
  <2>1. o # n
    BY <1>0, HandlersAreNot
  <2>2. memory'[n] = memory[n] /\ copy' = copy
    BY <1>0, <1>4, <2>1 DEF HookOther, UnhookOther, Types
  <2> QED BY <2>2 DEF Was
<1>5. ASSUME NEW i \in UserInts, UserIntOfOther(i)
      PROVE  Was(n)' /\ copy'[n].drive = copy[n].drive
  BY <1>5 DEF UserIntOfOther, Was
<1> QED BY <1>1, <1>2, <1>3, <1>4, <1>5 DEF Step

LEMMA StepAnswer ==
  ASSUME Inv, AnswerInv, Step
  PROVE  AnswerInv'
<1>1. UNCHANGED <<sft, srch, answer>>
  <2>1. ASSUME NEW d \in 0..last_drive, NEW url \in Shares, set_up_cds(d, url)
        PROVE  UNCHANGED <<sft, srch, answer>>
    BY <2>1 DEF set_up_cds
  <2>2. ASSUME NEW m \in Copies, Break(m) \/ tsr(m) PROVE UNCHANGED <<sft, srch, answer>>
    BY <2>2 DEF Break, tsr
  <2>3. CASE unload_latest
    BY <2>3 DEF unload_latest
  <2>4. ASSUME NEW o \in Others, HookOther(o) \/ UnhookOther(o)
        PROVE  UNCHANGED <<sft, srch, answer>>
    BY <2>4 DEF HookOther, UnhookOther
  <2>5. ASSUME NEW i \in UserInts, UserIntOfOther(i) PROVE UNCHANGED <<sft, srch, answer>>
    BY <2>5 DEF UserIntOfOther
  <2> QED BY <2>1, <2>2, <2>3, <2>4, <2>5 DEF Step
<1>2. Owned'
  <2>1. DOMAIN sft' = Sfts
    BY <1>1 DEF AnswerInv, Owned
  <2>2. ASSUME NEW s \in Sfts, sft'[s] # Free
        PROVE  Was(sft[s].by)' /\ sft'[s].drive = 64 + copy'[sft'[s].by].drive
    <3>1. Was(sft[s].by) /\ sft[s].drive = 64 + copy[sft[s].by].drive
      BY <1>1, <2>2 DEF AnswerInv, Owned
    <3> DEFINE n == sft[s].by
    <3>2. sft'[s].by = n /\ sft'[s].drive = sft[s].drive
      BY <1>1
    <3> HIDE DEF n
    <3>3. Was(n)
      BY <3>1 DEF n
    <3>4. PICK m : m = n
      OBVIOUS
    <3>5. Was(m)' /\ copy'[m].drive = copy[m].drive
      BY <3>3, <3>4, StepWas
    <3> QED BY <3>1, <3>2, <3>4, <3>5 DEF n, Was
  <2>3. IF srch'.by = DOS THEN srch'.drive_num = 0 \/ srch'.drive_num \in 129..160
        ELSE Was(srch.by)' /\ srch'.drive_num = copy'[srch'.by].drive + 192
    <3>1. CASE srch.by = DOS
      BY <1>1, <3>1 DEF AnswerInv, Owned
    <3>2. CASE srch.by # DOS
      <4>1. PICK m : m = srch.by
        OBVIOUS
      <4>2. Was(m) /\ srch.drive_num = copy[m].drive + 192
        BY <3>2, <4>1 DEF AnswerInv, Owned
      <4>3. Was(m)' /\ copy'[m].drive = copy[m].drive
        BY <4>2, StepWas
      <4> QED BY <1>1, <3>2, <4>1, <4>2, <4>3 DEF Was
    <3> QED BY <3>1, <3>2
  <2> QED BY <2>1, <2>2, <2>3 DEF Owned
<1>3. RightCopyAnswers'
  BY <1>1 DEF AnswerInv, RightCopyAnswers
<1> QED BY <1>2, <1>3 DEF AnswerInv

\* A call changes nothing of the copies, and so only what it says of files and the search.
LEMMA CallOwned ==
  ASSUME Call \/ Return, NEW n
  PROVE  (Was(n)' <=> Was(n)) /\ copy' = copy /\ memory' = memory
BY CallChangesNone DEF Was

LEMMA SameOwned ==
  ASSUME Call \/ Return, Owned, UNCHANGED <<sft, srch>>
  PROVE  Owned'
<1>1. UNCHANGED <<copy, memory>>
  BY CallChangesNone
<1> QED BY <1>1 DEF Owned, Was

\* Arithmetic of drive_num.
LEMMA DriveBits ==
  ASSUME NEW x \in Drives
  PROVE  /\ (64 + x) % 64 = x /\ SearchGoesOn(x + 192) /\ (x + 192) % 32 = x
         /\ x + 1 + 128 \in 129..160
<1>1. x \in 0..31
  BY FnshareAssumption DEF Drives
<1>2. (64 + x) % 64 = x
  BY <1>1
<1>3. (x + 192) % 32 = x
  BY <1>1
<1>4. (x + 192) \div 64 = 3
  BY <1>1
<1>5. SearchGoesOn(x + 192)
  BY <1>4 DEF SearchGoesOn
<1> QED BY <1>1, <1>2, <1>3, <1>5

LEMMA LabelBits == \A x \in 129..160 : ~SearchGoesOn(x)
<1> SUFFICES ASSUME NEW x \in 129..160 PROVE ~SearchGoesOn(x)
  OBVIOUS
<1>1. x \div 64 = 2
  OBVIOUS
<1> QED BY <1>1 DEF SearchGoesOn

\* A copy that takes a call is resident.
LEMMA TakerWas ==
  ASSUME Inv, LinkInv, NEW fn, NEW d, NEW s, redirector(fn, d, s) # DOS
  PROVE  /\ Was(redirector(fn, d, s)) /\ memory[redirector(fn, d, s)] = "loaded"
         /\ redirector(fn, d, s) \in Copies
<1>1. redirector(fn, d, s) \in Takers(fn, d, s)
  BY RedirectorIs DEF Inv
<1>2. \A n \in Takers(fn, d, s) : Was(n) /\ memory[n] = "loaded" /\ n \in Copies
  BY DEF Takers, Was, Inv, DriveHeld, Held
<1> QED BY <1>1, <1>2

LEMMA InquiryAnswer ==
  ASSUME Inv, LinkInv, AnswerInv, Inquiry
  PROVE  AnswerInv'
<1> DEFINE n == redirector(SUBF.INQUIRY, 0, 0)
           due == IF Loaded \cap Copies = {} THEN DOS ELSE Anybody
<1>1. Answer(SUBF.INQUIRY, due, n, <<>>, <<>>, <<>>) /\ UNCHANGED <<sft, srch>>
  BY DEF Inquiry
<1>2. due # Anybody => n = due
  <2>1. Loaded \cap Copies = {} => Takers(SUBF.INQUIRY, 0, 0) = {}
    BY DEF Takers, Loaded
  <2> QED BY <2>1, RedirectorIs DEF Inv
<1> HIDE DEF n, due
<1>3. RightCopyAnswers'
  BY <1>1, <1>2, AnsweredRight
<1>4. Owned'
  BY <1>1, SameOwned DEF AnswerInv, Call
<1> QED BY <1>3, <1>4 DEF AnswerInv

LEMMA PathAnswer ==
  ASSUME Inv, LinkInv, AnswerInv, NEW fn \in PathCalls, NEW d \in Drives, NEW path \in DosPaths,
         ByPath(fn, d, path)
  PROVE  AnswerInv'
<1> DEFINE n == redirector(fn, d, 0)
           ours == Supported \ (ByFile \cup {SUBF.INQUIRY, SUBF.FINDNEXT})
<1>0. UNCHANGED <<sft, srch>> /\ Call
  BY DEF ByPath, Call
<1>1. /\ fn = SUBF.CHDIR => Answer(fn, ForDrive(d), n, path, Remote(n, path), <<>>)
      /\ fn # SUBF.CHDIR =>
           Answer(fn, IF fn \in Supported THEN ForDrive(d) ELSE DOS, n, <<>>, <<>>, <<>>)
  BY DEF ByPath
<1>2. fn = SUBF.CHDIR \/ fn = SUBF.GETDISKSPACE \/ fn = 34
  BY DEF PathCalls
<1>3. fn \in ours \/ fn \notin Supported
  BY <1>2, Functions
<1>4. fn \in ours => n = ForDrive(d)
  BY ForDriveIs
<1>5. fn \notin Supported => n = DOS
  BY TakersOfDrive, RedirectorIs DEF Inv
<1>6. SUBF.CHDIR \in ours
  BY Functions
<1> HIDE DEF n
<1>7. RightCopyAnswers'
  <2>1. CASE fn = SUBF.CHDIR
    BY <1>1, <1>4, <1>6, <2>1, AnsweredRight
  <2>2. CASE fn # SUBF.CHDIR
    <3> DEFINE due == IF fn \in Supported THEN ForDrive(d) ELSE DOS
    <3>1. Answer(fn, due, n, <<>>, <<>>, <<>>) /\ n = due
      BY <1>1, <1>3, <1>4, <1>5, <2>2
    <3> HIDE DEF due
    <3> QED BY <3>1, AnsweredRight
  <2> QED BY <2>1, <2>2
<1>8. Owned'
  BY <1>0, SameOwned DEF AnswerInv
<1> QED BY <1>7, <1>8 DEF AnswerInv

LEMMA OpenAnswer ==
  ASSUME Inv, LinkInv, AnswerInv, NEW s \in Sfts, NEW d \in Drives, NEW path \in DosPaths,
         Open(s, d, path)
  PROVE  AnswerInv'
<1> DEFINE n == redirector(SUBF.OPENEXTENDED, d, 0)
<1>0. Call /\ UNCHANGED srch
  BY DEF Open, Call
<1>1. /\ sft' = IF n = DOS THEN sft
                ELSE [sft EXCEPT ![s] = [drive |-> 64 + copy[n].drive, by |-> n]]
      /\ Answer(SUBF.OPENEXTENDED, ForDrive(d), n, path, Remote(n, path), <<>>)
  BY DEF Open
<1>2. n = ForDrive(d)
  BY Functions, ForDriveIs
<1>3. n # DOS => Was(n)
  BY TakerWas
<1>4. PICK m : m = n
  OBVIOUS
<1> HIDE DEF n
<1>5. RightCopyAnswers'
  BY <1>1, <1>2, AnsweredRight
<1>6. Owned'
  <2>1. DOMAIN sft' = Sfts
    BY <1>1 DEF AnswerInv, Owned
  <2>2. copy' = copy /\ memory' = memory
    BY <1>0, CallChangesNone
  <2>3. ASSUME NEW r \in Sfts, sft'[r] # Free
        PROVE  Was(sft[r].by)' /\ sft'[r].drive = 64 + copy'[sft'[r].by].drive
    <3>1. CASE n # DOS /\ r = s
      <4>1. sft'[r] = [drive |-> 64 + copy[m].drive, by |-> m]
        BY <1>1, <1>4, <3>1 DEF AnswerInv, Owned
      <4>2. Was(m)
        BY <1>3, <1>4, <3>1
      <4> QED BY <2>2, <4>1, <4>2 DEF Was
    <3>2. CASE ~(n # DOS /\ r = s)
      <4>1. sft'[r] = sft[r]
        BY <1>1, <3>2 DEF AnswerInv, Owned
      <4> QED BY <2>2, <2>3, <4>1 DEF AnswerInv, Owned, Was
    <3> QED BY <3>1, <3>2
  <2>4. IF srch'.by = DOS THEN srch'.drive_num = 0 \/ srch'.drive_num \in 129..160
        ELSE Was(srch.by)' /\ srch'.drive_num = copy'[srch'.by].drive + 192
    BY <1>0, <2>2 DEF AnswerInv, Owned, Was
  <2> QED BY <2>1, <2>3, <2>4 DEF Owned
<1> QED BY <1>5, <1>6 DEF AnswerInv

LEMMA HandleAnswer ==
  ASSUME Inv, LinkInv, AnswerInv, NEW fn \in FileCalls, NEW s \in Sfts, ByHandle(fn, s)
  PROVE  AnswerInv'
<1> DEFINE n == redirector(fn, 0, s)
           o == sft[s].by
<1>0. Call /\ UNCHANGED srch /\ sft[s] # Free
  BY DEF ByHandle, Call
<1>1. /\ sft' = IF fn = SUBF.CLOSE THEN [sft EXCEPT ![s] = Free] ELSE sft
      /\ Answer(fn, Still(o), n, <<>>, <<>>, <<>>)
  BY DEF ByHandle
<1>2. Was(o) /\ sft[s].drive = 64 + copy[o].drive
  BY <1>0 DEF AnswerInv, Owned
<1>3. o # DOS
  BY <1>2, HandlersAreNot DEF Was, Handlers
<1>4. fn \in Supported /\ fn \in ByFile
  BY Functions
<1>5. memory[o] = "loaded" => n = o
  <2>1. sft[s].drive % 64 = copy[o].drive
    BY <1>2, DriveBits DEF Was
  <2>2. \A m \in Copies : is_call_for_us(m, fn, 0, s) <=> copy[o].drive = copy[m].drive
    <3> SUFFICES ASSUME NEW m \in Copies
                 PROVE  is_call_for_us(m, fn, 0, s) <=> copy[o].drive = copy[m].drive
      OBVIOUS
    <3>1. is_call_for_us(m, fn, 0, s) <=> (sft[s].drive % 64 = copy[m].drive)
      <4>1. fn # SUBF.INQUIRY /\ fn # SUBF.FINDNEXT /\ fn \in ByFile
        BY <1>4, Functions
      <4> QED BY <4>1, Zenon DEF is_call_for_us
    <3> HIDE DEF o
    <3> QED BY <2>1, <3>1
  <2> HIDE DEF o
  <2> QED BY <1>2, <1>4, <2>2, OwnerTakes
<1>6. Still(o) # Anybody => n = Still(o)
  BY <1>3, <1>5 DEF Still
<1> HIDE DEF n, o
<1>7. RightCopyAnswers'
  BY <1>1, <1>6, AnsweredRight
<1>8. Owned'
  <2>1. DOMAIN sft' = Sfts
    BY <1>1 DEF AnswerInv, Owned
  <2>2. copy' = copy /\ memory' = memory
    BY <1>0, CallChangesNone
  <2>3. ASSUME NEW r \in Sfts, sft'[r] # Free
        PROVE  Was(sft[r].by)' /\ sft'[r].drive = 64 + copy'[sft'[r].by].drive
    <3>1. sft'[r] = sft[r]
      BY <1>1, <2>3 DEF AnswerInv, Owned
    <3> QED BY <2>2, <2>3, <3>1 DEF AnswerInv, Owned, Was
  <2>4. IF srch'.by = DOS THEN srch'.drive_num = 0 \/ srch'.drive_num \in 129..160
        ELSE Was(srch.by)' /\ srch'.drive_num = copy'[srch'.by].drive + 192
    BY <1>0, <2>2 DEF AnswerInv, Owned, Was
  <2> QED BY <2>1, <2>3, <2>4 DEF Owned
<1> QED BY <1>7, <1>8 DEF AnswerInv

LEMMA FindFirstAnswer ==
  ASSUME Inv, LinkInv, AnswerInv, NEW d \in Drives, NEW path \in DosPaths, NEW label \in BOOLEAN,
         FindFirst(d, path, label)
  PROVE  AnswerInv'
<1> DEFINE n == redirector(SUBF.FINDFIRST, d, 0)
<1>0. Call /\ UNCHANGED sft
  BY DEF FindFirst, Call
<1>1. srch' = IF n = DOS THEN srch
              ELSE IF label THEN [drive_num |-> copy[n].drive + 1 + 128, by |-> DOS]
              ELSE [drive_num |-> copy[n].drive + 192, by |-> n]
  BY DEF FindFirst
<1>2. \E asked, sent, seen : Answer(SUBF.FINDFIRST, ForDrive(d), n, asked, sent, seen)
  BY DEF FindFirst
<1>3. n = ForDrive(d)
  BY Functions, ForDriveIs
<1>4. n # DOS => Was(n)
  BY TakerWas
<1>5. PICK m : m = n
  OBVIOUS
<1> HIDE DEF n
<1>6. RightCopyAnswers'
  BY <1>2, <1>3, AnsweredRight
<1>7. Owned'
  <2>1. copy' = copy /\ memory' = memory
    BY <1>0, CallChangesNone
  <2>2. /\ DOMAIN sft' = Sfts
        /\ \A s \in Sfts : sft'[s] # Free =>
             Was(sft[s].by)' /\ sft'[s].drive = 64 + copy'[sft'[s].by].drive
    BY <1>0, <2>1 DEF AnswerInv, Owned, Was
  <2>3. IF srch'.by = DOS THEN srch'.drive_num = 0 \/ srch'.drive_num \in 129..160
        ELSE Was(srch.by)' /\ srch'.drive_num = copy'[srch'.by].drive + 192
    <3>1. CASE n = DOS
      BY <1>1, <2>1, <3>1 DEF AnswerInv, Owned, Was
    <3>2. CASE n # DOS /\ label
      <4>1. srch'.by = DOS /\ srch'.drive_num = copy[n].drive + 1 + 128
        BY <1>1, <3>2
      <4>2. copy[n].drive + 1 + 128 \in 129..160
        BY <1>4, <3>2, DriveBits DEF Was
      <4> QED BY <4>1, <4>2
    <3>3. CASE n # DOS /\ ~label
      <4>1. srch'.by = m /\ srch'.drive_num = copy[m].drive + 192 /\ m # DOS /\ Was(m)
        BY <1>1, <1>4, <1>5, <3>3
      <4> QED BY <2>1, <4>1 DEF Was
    <3> QED BY <3>1, <3>2, <3>3
  <2> QED BY <2>2, <2>3 DEF Owned
<1> QED BY <1>6, <1>7 DEF AnswerInv

LEMMA FindNextAnswer ==
  ASSUME Inv, LinkInv, AnswerInv, FindNext
  PROVE  AnswerInv'
<1> DEFINE n == redirector(SUBF.FINDNEXT, 0, 0)
           o == srch.by
<1>0. Call /\ UNCHANGED <<sft, srch>> /\ srch.drive_num >= 128
  BY DEF FindNext, Call
<1>1. Answer(SUBF.FINDNEXT, Still(o), n, <<>>, <<>>, <<>>)
  BY DEF FindNext
<1>2. Still(o) # Anybody => n = Still(o)
  <2>0. \A m : is_call_for_us(m, SUBF.FINDNEXT, 0, 0) <=>
                 SearchGoesOn(srch.drive_num) /\ srch.drive_num % 32 = copy[m].drive
    BY Functions DEF is_call_for_us
  <2>1. CASE o = DOS
    <3>1. srch.drive_num \in 129..160
      BY <1>0, <2>1 DEF AnswerInv, Owned
    <3>2. Takers(SUBF.FINDNEXT, 0, 0) = {}
      BY <2>0, <3>1, LabelBits DEF Takers
    <3> QED BY <2>1, <3>2, RedirectorIs DEF Inv, Still
  <2>2. CASE o # DOS
    <3>1. Was(o) /\ srch.drive_num = copy[o].drive + 192
      BY <2>2 DEF AnswerInv, Owned
    <3>2. SearchGoesOn(srch.drive_num) /\ srch.drive_num % 32 = copy[o].drive
      BY <3>1, DriveBits DEF Was
    <3>3. \A m \in Copies : is_call_for_us(m, SUBF.FINDNEXT, 0, 0) <=> copy[o].drive = copy[m].drive
      BY <2>0, <3>2
    <3>4. memory[o] = "loaded" => n = o
      <4> HIDE DEF o
      <4> QED BY <3>1, <3>3, Functions, OwnerTakes
    <3> QED BY <2>2, <3>4 DEF Still
  <2> QED BY <2>1, <2>2
<1> HIDE DEF n, o
<1>3. RightCopyAnswers'
  BY <1>1, <1>2, AnsweredRight
<1>4. Owned'
  BY <1>0, SameOwned DEF AnswerInv
<1> QED BY <1>3, <1>4 DEF AnswerInv

LEMMA DeleteAnswer ==
  ASSUME Inv, LinkInv, AnswerInv, NEW d \in Drives, NEW path \in DosPaths, Delete(d, path)
  PROVE  AnswerInv'
<1> DEFINE n == redirector(SUBF.DELETE, d, 0)
<1>0. Call /\ UNCHANGED <<sft, srch>>
  BY DEF Delete, Call
<1>1. \E asked, sent : Answer(SUBF.DELETE, ForDrive(d), n, asked, sent, <<>>)
  BY DEF Delete
<1>2. n = ForDrive(d)
  BY Functions, ForDriveIs
<1> HIDE DEF n
<1>3. RightCopyAnswers'
  BY <1>1, <1>2, AnsweredRight
<1>4. Owned'
  BY <1>0, SameOwned DEF AnswerInv
<1> QED BY <1>3, <1>4 DEF AnswerInv

LEMMA NextAnswer == Inv /\ LinkInv /\ AnswerInv /\ [Next]_vars => AnswerInv'
<1> SUFFICES ASSUME Inv, LinkInv, AnswerInv, [Next]_vars PROVE AnswerInv'
  OBVIOUS
<1>1. CASE Step
  BY <1>1, StepAnswer
<1>2. CASE Call
  <2>1. CASE Inquiry \/ FindNext
    BY <2>1, InquiryAnswer, FindNextAnswer
  <2>2. ASSUME NEW d \in Drives, NEW path \in DosPaths, NEW fn \in PathCalls, ByPath(fn, d, path)
        PROVE  AnswerInv'
    BY <2>2, PathAnswer
  <2>3. ASSUME NEW d \in Drives, NEW path \in DosPaths, NEW s \in Sfts, Open(s, d, path)
        PROVE  AnswerInv'
    BY <2>3, OpenAnswer
  <2>4. ASSUME NEW d \in Drives, NEW path \in DosPaths, NEW label \in BOOLEAN,
               FindFirst(d, path, label)
        PROVE  AnswerInv'
    BY <2>4, FindFirstAnswer
  <2>5. ASSUME NEW d \in Drives, NEW path \in DosPaths, Delete(d, path)
        PROVE  AnswerInv'
    BY <2>5, DeleteAnswer
  <2>6. ASSUME NEW fn \in FileCalls, NEW s \in Sfts, ByHandle(fn, s)
        PROVE  AnswerInv'
    BY <2>6, HandleAnswer
  <2> QED BY <1>2, <2>1, <2>2, <2>3, <2>4, <2>5, <2>6 DEF Call
<1>3. CASE Return
  <2>1. UNCHANGED <<sft, srch>> /\ answer' = NoAnswer
    BY <1>3 DEF Return
  <2>2. Owned'
    BY <1>3, <2>1, SameOwned DEF AnswerInv
  <2>3. RightCopyAnswers'
    BY <2>1 DEF RightCopyAnswers, NoAnswer
  <2> QED BY <2>2, <2>3 DEF AnswerInv
<1>4. CASE UNCHANGED vars
  BY <1>4 DEF vars, AnswerInv, Owned, RightCopyAnswers, Was
<1> QED BY <1>1, <1>2, <1>3, <1>4 DEF Next

\* Of the copies in the chain the one takes a call that should: a call for a path the copy that
\* has the drive, one for a file the copy that opened it, a find_next the copy whose find_first
\* it goes on with, and after a search for a label none (redir.c:1061-1096).  It holds because
\* an open file and the record of a search keep the drive of a copy that was resident, and no
\* two resident copies have the same.
THEOREM RightCopyAnswersHolds == Spec => []RightCopyAnswers
<1>1. Init => AnswerInv
  BY InitAnswer
<1>2. (Inv /\ LinkInv) /\ AnswerInv /\ [Next]_vars => AnswerInv'
  BY NextAnswer
<1>3. AnswerInv => RightCopyAnswers
  BY DEF AnswerInv
<1> QED BY <1>1, <1>2, <1>3, SpecLink, PTL DEF Spec

----------------------------------------------------------------------------
(* Types.                                                                  *)

\* One copy is loaded at a time.
Sized ==
  /\ \A n \in Copies : copy[n].drive \in 0..last_drive
  /\ broken \subseteq Drives
  /\ \A m, n \in Loading : m = n

LEMMA InitSized == Init => Sized
  BY FnshareAssumption DEF Init, Sized, NoCopy, Loading, Copies, Others

LEMMA SizedStep == Inv /\ Sized /\ [Next]_vars => Sized'
<1> SUFFICES ASSUME Inv, Sized, [Next]_vars PROVE Sized'
  OBVIOUS
<1>0. Types /\ Copies \subseteq Handlers
  BY DEF Inv, Handlers
<1>1. ASSUME UNCHANGED <<copy, broken>>, Loading' \subseteq Loading PROVE Sized'
  BY <1>1 DEF Sized
<1>2. ASSUME NEW m, NEW x \in {"loaded", "gone"}, memory' = [memory EXCEPT ![m] = x]
      PROVE  Loading' \subseteq Loading
  BY <1>0, <1>2 DEF Types, Loading
<1>3. CASE Step
  <2>1. ASSUME NEW d \in 0..last_drive, NEW url \in Shares, set_up_cds(d, url) PROVE Sized'
    <3>1. PICK n \in Copies :
            /\ memory' = [memory EXCEPT ![n] = "loading"]
            /\ copy' = [copy EXCEPT ![n] = [drive |-> d, volume |-> Volume(url)]]
      BY <2>1 DEF set_up_cds
    <3>2. Loading = {} /\ broken' = broken
      BY <2>1 DEF set_up_cds, AtPrompt
    <3>3. \A m \in Loading' : m = n
      BY <1>0, <3>1, <3>2 DEF Types, Loading
    <3>4. \A m \in Copies : copy'[m].drive = IF m = n THEN d ELSE copy[m].drive
      BY <1>0, <3>1 DEF Types
    <3> QED BY <3>2, <3>3, <3>4 DEF Sized
  <2>2. ASSUME NEW n \in Copies, Break(n) PROVE Sized'
    <3>1. n \in Held /\ copy' = copy /\ broken' = broken \cup {copy[n].drive}
      BY <2>2 DEF Break, Loading, Held
    <3>2. copy[n].drive \in Drives
      BY <3>1 DEF Inv, DriveHeld
    <3>3. Loading' \subseteq Loading
      BY <1>2, <2>2 DEF Break
    <3> QED BY <3>1, <3>2, <3>3 DEF Sized
  <2>3. ASSUME NEW n \in Copies, tsr(n) PROVE Sized'
    BY <1>1, <1>2, <2>3 DEF tsr
  <2>4. CASE unload_latest
    BY <1>1, <1>2, <2>4 DEF unload_latest
  <2>5. ASSUME NEW o \in Others, HookOther(o) \/ UnhookOther(o) PROVE Sized'
    BY <1>1, <1>2, <2>5 DEF HookOther, UnhookOther
  <2>6. ASSUME NEW i \in UserInts, UserIntOfOther(i) PROVE Sized'
    BY <1>1, <2>6 DEF UserIntOfOther, Loading
  <2> QED BY <1>3, <2>1, <2>2, <2>3, <2>4, <2>5, <2>6 DEF Step
<1>4. CASE Call \/ Return
  BY <1>1, <1>4, CallChangesNone DEF Loading
<1>5. CASE UNCHANGED vars
  BY <1>1, <1>5 DEF vars, Loading
<1> QED BY <1>3, <1>4, <1>5 DEF Next

\* The variables keep their types, with one copy being loaded at a time, for any number of copies,
\* drives, files and calls; so a drive number in an sft or a search record is that of a copy
\* (redir.c:1061-1096).
THEOREM TypeCorrect == Spec => []TypeOK
<1>1. ASSUME Inv, Owned, Sized PROVE TypeOK
  <2>1. \A n \in Copies : n \in Nat /\ n # DOS
    BY FnshareAssumption DEF Copies, DOS
  <2>2. \A s \in Sfts : sft[s].by \in {DOS} \cup Copies
    BY <1>1 DEF Owned, Was, Free
  <2>3. \A d \in Drives : d \in 0..31
    BY FnshareAssumption DEF Drives
  <2>4. srch.drive_num \in 0..255
    BY <1>1, <2>3 DEF Owned, Was
  <2>5. Cardinality(Loading) <= 1
    <3>1. CASE Loading = {}
      BY <3>1, FS_EmptySet
    <3>2. CASE Loading # {}
      <4>1. PICK n \in Loading : Loading = {n}
        BY <1>1, <3>2 DEF Sized
      <4>2. Cardinality({n}) = 1
        BY FS_Singleton
      <4> QED BY <4>1, <4>2
    <3> QED BY <3>1, <3>2
  <2> QED BY <1>1, <2>2, <2>4, <2>5 DEF Inv, Types, Sized, TypeOK, Handlers
<1>2. Inv /\ Owned /\ Sized => TypeOK
  BY <1>1
<1>3. AnswerInv => Owned
  BY DEF AnswerInv
<1> QED BY <1>2, <1>3, SpecLink, InitAnswer, NextAnswer, InitSized, SizedStep, PTL DEF Spec

----------------------------------------------------------------------------
(* The name and the date of a file in DOS's record of it.                  *)

\* Constants of the records.
LEMMA Sizes ==
  /\ NameLen \in Nat \ {0} /\ ExtLen \in Nat \ {0} /\ PATHLEN \in Nat \ {0}
  /\ FcbLen = NameLen + ExtLen
BY NamesAssumption DEF FcbLen

\* What Position and LastPosition find.
LEMMA PositionIs ==
  ASSUME NEW S, NEW s \in Seq(S), NEW c
  PROVE  /\ Position(s, c) \in 0..Len(s)
         /\ Position(s, c) = 0 => \A i \in 1..Len(s) : s[i] # c
         /\ Position(s, c) # 0 => /\ s[Position(s, c)] = c
                                  /\ \A i \in 1..Len(s) : s[i] = c => Position(s, c) <= i
<1> DEFINE I == {i \in 1..Len(s) : s[i] = c}
           p == Position(s, c)
<1>1. p = IF I # {} THEN Min(I) ELSE 0
  BY DEF Position, SelectInSeq
<1>2. I \in SUBSET Nat /\ Len(s) \in Nat
  BY LenProperties
<1>3. \A i : i \in I <=> i \in 1..Len(s) /\ s[i] = c
  OBVIOUS
<1> HIDE DEF I, p
<1>4. I # {} => Min(I) \in I /\ \A i \in I : Min(I) <= i
  BY <1>2, LeastOf DEF Min
<1>5. CASE I = {}
  <2>1. p = 0 /\ 0 \in 0..Len(s)
    BY <1>1, <1>2, <1>5
  <2> QED BY <1>3, <1>5, <2>1 DEF p
<1>6. CASE I # {}
  <2>1. p \in I /\ \A i \in I : p <= i
    BY <1>1, <1>4, <1>6
  <2>2. p \in 1..Len(s) /\ s[p] = c
    BY <1>3, <2>1
  <2>3. p # 0 /\ p \in 0..Len(s)
    BY <1>2, <2>2
  <2> QED BY <1>3, <2>1, <2>2, <2>3 DEF p
<1> QED BY <1>5, <1>6

\* And where it is last.
LEMMA LastPositionIs ==
  ASSUME NEW S, NEW s \in Seq(S), NEW c
  PROVE  /\ LastPosition(s, c) \in 0..Len(s)
         /\ LastPosition(s, c) = 0 => \A i \in 1..Len(s) : s[i] # c
         /\ LastPosition(s, c) # 0 => /\ s[LastPosition(s, c)] = c
                                      /\ \A i \in 1..Len(s) : s[i] = c => i <= LastPosition(s, c)
<1> DEFINE I == {i \in 1..Len(s) : s[i] = c}
           p == LastPosition(s, c)
           U == {k \in Nat : \A i \in I : i <= k}
<1>1. p = IF I # {} THEN Max(I) ELSE 0
  BY DEF LastPosition, SelectLastInSeq
<1>2. I \in SUBSET Nat /\ Len(s) \in Nat /\ U \in SUBSET Nat
  BY LenProperties
<1>3. \A i : i \in I <=> i \in 1..Len(s) /\ s[i] = c
  OBVIOUS
<1>a. \A k : k \in U <=> k \in Nat /\ \A i \in I : i <= k
  OBVIOUS
<1> HIDE DEF I, p, U
<1>b. Len(s) \in U
  BY <1>2, <1>3, <1>a
<1>4. I # {} => Max(I) \in I /\ \A i \in I : i <= Max(I)
  <2> SUFFICES ASSUME I # {} PROVE \E m \in I : \A i \in I : m >= i
    BY <1>2 DEF Max
  <2>1. PICK u \in U : \A k \in U : u <= k
    BY <1>2, <1>b, LeastOf
  <2>2. u \in I
    <3> SUFFICES ASSUME u \notin I PROVE FALSE
      OBVIOUS
    <3>1. u \in Nat /\ \A i \in I : i <= u
      BY <1>a, <2>1
    <3>2. \A i \in I : i \in Nat /\ i < u
      BY <1>2, <3>1
    <3>3. u # 0
      BY <3>1, <3>2
    <3>4. u - 1 \in Nat /\ \A i \in I : i <= u - 1
      BY <3>1, <3>2, <3>3
    <3>5. u - 1 \in U
      BY <1>a, <3>4
    <3>6. u <= u - 1
      BY <2>1, <3>5
    <3> QED BY <3>1, <3>6
  <2>3. \A i \in I : i \in Nat /\ i <= u
    BY <1>2, <1>a, <2>1
  <2>4. u \in Nat
    BY <1>2, <2>2
  <2> QED BY <2>2, <2>3, <2>4
<1>5. CASE I = {}
  <2>1. p = 0 /\ 0 \in 0..Len(s)
    BY <1>1, <1>2, <1>5
  <2> QED BY <1>3, <1>5, <2>1 DEF p
<1>6. CASE I # {}
  <2>1. p \in I /\ \A i \in I : i <= p
    BY <1>1, <1>4, <1>6
  <2>2. p \in 1..Len(s) /\ s[p] = c
    BY <1>3, <2>1
  <2>3. p # 0 /\ p \in 0..Len(s)
    BY <1>2, <2>2
  <2> QED BY <1>3, <2>1, <2>2, <2>3 DEF p
<1> QED BY <1>5, <1>6

\* Where the first and the last of a character are.
LEMMA FirstIs ==
  ASSUME NEW S, NEW s \in Seq(S), NEW c, NEW r \in 1..Len(s), s[r] = c,
         \A i \in 1..r - 1 : s[i] # c
  PROVE  Position(s, c) = r
<1>1. PICK p \in Nat : p = Position(s, c)
  BY PositionIs, LenProperties
<1>2. PICK n \in Nat : n = Len(s) /\ r \in 1..n
  BY LenProperties
<1>3. /\ p \in 0..n
      /\ p = 0 => \A i \in 1..n : s[i] # c
      /\ p # 0 => s[p] = c /\ \A i \in 1..n : s[i] = c => p <= i
  BY <1>1, <1>2, PositionIs
<1>4. p # 0 /\ p <= r /\ s[p] = c
  BY <1>2, <1>3
<1>5. p \notin 1..r - 1
  BY <1>4
<1>6. p = r
  BY <1>2, <1>3, <1>4, <1>5
<1> QED BY <1>1, <1>6

\* And the last.
LEMMA LastIs ==
  ASSUME NEW S, NEW s \in Seq(S), NEW c, NEW r \in 0..Len(s), r # 0 => s[r] = c,
         \A i \in r + 1..Len(s) : s[i] # c
  PROVE  LastPosition(s, c) = r
<1>1. PICK p \in Nat : p = LastPosition(s, c)
  BY LastPositionIs, LenProperties
<1>2. PICK n \in Nat : n = Len(s) /\ r \in 0..n
  BY LenProperties
<1>3. /\ p \in 0..n
      /\ p = 0 => \A i \in 1..n : s[i] # c
      /\ p # 0 => s[p] = c /\ \A i \in 1..n : s[i] = c => i <= p
  BY <1>1, <1>2, LastPositionIs
<1>4. \A i \in r + 1..n : s[i] # c
  BY <1>2
<1>5. r <= p
  BY <1>2, <1>3
<1>6. p # 0 => p \notin r + 1..n
  BY <1>3, <1>4
<1>7. p = r
  BY <1>2, <1>3, <1>5, <1>6
<1> QED BY <1>1, <1>7

\* What is in front of the first of a character, if there is one.
LEMMA UpToIs ==
  ASSUME NEW S, NEW s \in Seq(S), NEW c, NEW m \in Nat, NEW k \in Nat, Len(s) = m + k,
         \A i \in 1..m : s[i] # c, k # 0 => s[m + 1] = c
  PROVE  IsSlice(UpTo(s, c), s, S, 0, m)
<1>1. CASE k = 0
  <2>1. Len(s) = m
    BY <1>1
  <2>2. Position(s, c) = 0
    <3>1. PICK p \in Nat : p = Position(s, c)
      BY PositionIs, LenProperties
    <3>2. p \in 0..m /\ (p # 0 => s[p] = c)
      BY <2>1, <3>1, PositionIs
    <3>3. p # 0 => p \in 1..m
      BY <3>2
    <3> QED BY <3>1, <3>2, <3>3
  <2>3. UpTo(s, c) = s
    BY <2>2, Zenon DEF UpTo
  <2>4. \A i \in 1..m : s[i] = s[0 + i]
    OBVIOUS
  <2> QED BY <2>1, <2>3, <2>4, Zenon DEF IsSlice
<1>2. CASE k # 0
  <2>1. m + 1 \in 1..Len(s) /\ s[m + 1] = c /\ m + 1 # 0 /\ m + 1 - 1 = m
    BY <1>2
  <2>2. \A i \in 1..m + 1 - 1 : s[i] # c
    OBVIOUS
  <2>3. Position(s, c) = m + 1
    BY <2>1, <2>2, FirstIs
  <2>4. UpTo(s, c) = SubSeq(s, 1, m)
    <3>1. Position(s, c) # 0 /\ Position(s, c) - 1 = m
      BY <2>1, <2>3
    <3>2. UpTo(s, c) = SubSeq(s, 1, Position(s, c) - 1)
      BY <3>1, Zenon DEF UpTo
    <3> QED BY <3>1, <3>2, Zenon
  <2>5. Len(s) = 0 + m + k /\ 0 + 1 = 1 /\ 0 + m = m
    OBVIOUS
  <2>6. IsSlice(SubSeq(s, 0 + 1, 0 + m), s, S, 0, m)
    BY <2>5, IsSliceOf
  <2> QED BY <2>4, <2>5, <2>6, Zenon
<1> QED BY <1>1, <1>2

\* The alphabet of a record has the blank that its fields are filled up with.
HasBlank(S) == " " \in S

\* A field that a text does not fill, filled up.
LEMMA FieldIs ==
  ASSUME NEW S, NEW s \in Seq(S), NEW n \in Nat, NEW c \in S
  PROVE  /\ [i \in 1..n |-> IF i <= Len(s) THEN s[i] ELSE c] \in Seq(S)
         /\ Len([i \in 1..n |-> IF i <= Len(s) THEN s[i] ELSE c]) = n
<1>1. PICK m \in Nat : m = Len(s) /\ \A i \in 1..m : s[i] \in S
  BY LenProperties, ElementOfSeq
<1>2. \A i \in 1..n : (IF i <= m THEN s[i] ELSE c) \in S
  BY <1>1
<1> QED BY <1>1, <1>2

\* Padded fills up with blanks.
LEMMA PaddedIs ==
  ASSUME NEW S, NEW s \in Seq(S), NEW n \in Nat, HasBlank(S)
  PROVE  /\ Padded(s, n) \in Seq(S) /\ Len(Padded(s, n)) = n
         /\ \A i \in 1..n : Padded(s, n)[i] = IF i <= Len(s) THEN s[i] ELSE " "
<1>1. PICK c \in S : c = " "
  BY DEF HasBlank
<1>2. Padded(s, n) = [i \in 1..n |-> IF i <= Len(s) THEN s[i] ELSE c]
  BY <1>1 DEF Padded
<1>3. Padded(s, n) \in Seq(S) /\ Len(Padded(s, n)) = n
  BY <1>2, FieldIs
<1> QED BY <1>3, Zenon DEF Padded

\* A name that has one dot, with m characters before it and x behind it.
Dotted(e, S, m, x) ==
  /\ e \in Seq(S) /\ HasBlank(S) /\ m \in 1..NameLen /\ x \in 1..ExtLen
  /\ Len(e) = m + 1 + x /\ e[m + 1] = "."
  /\ \A i \in 1..m + 1 + x : i # m + 1 => e[i] # "."

\* A name that fits the record has one dot, with characters on both sides.
LEMMA FitsIsDotted ==
  ASSUME NEW S, NEW e \in Seq(S), HasBlank(S), FitsRecord(e)
  PROVE  \E m, x : Dotted(e, S, m, x) /\ Position(e, ".") = m + 1
<1>1. PICK p \in Nat : p = Position(e, ".") /\ p = LastPosition(e, ".")
  <2>1. Position(e, ".") = LastPosition(e, ".")
    BY DEF FitsRecord
  <2>2. Position(e, ".") \in Nat
    BY PositionIs, LenProperties
  <2> QED BY <2>1, <2>2
<1>2. PICK n \in Nat : n = Len(e)
  BY LenProperties
<1>3. p \in 2..NameLen + 1 /\ n - p \in 1..ExtLen
  BY <1>1, <1>2 DEF FitsRecord
<1>4. e[p] = "." /\ \A i \in 1..n : e[i] = "." => p <= i /\ i <= p
  <2>1. p # 0
    BY <1>3
  <2> QED BY <1>1, <1>2, <2>1, PositionIs, LastPositionIs
<1>5. PICK m \in Nat : m + 1 = p
  BY <1>3
<1>6. PICK x \in Nat : m + 1 + x = n
  BY <1>3, <1>5
<1>7. m \in 1..NameLen /\ x \in 1..ExtLen
  BY <1>3, <1>5, <1>6, Sizes
<1>8. \A i \in 1..m + 1 + x : i # m + 1 => e[i] # "."
  BY <1>4, <1>5, <1>6
<1> QED BY <1>1, <1>2, <1>4, <1>5, <1>6, <1>7, <1>8 DEF Dotted

\* The record of such a name.
Record(e, m, x) ==
  [i \in 1..FcbLen |-> IF i <= m THEN e[i]
                       ELSE IF NameLen < i /\ i <= NameLen + x THEN e[m + 1 + (i - NameLen)]
                       ELSE " "]

\* fcbitize puts it into the record at both sides of its dot.
LEMMA FcbitizeIs ==
  ASSUME NEW S, NEW e, NEW m, NEW x, Dotted(e, S, m, x), Position(e, ".") = m + 1
  PROVE  fcbitize(e) = Record(e, m, x)
<1> DEFINE a == SubSeq(e, 1, m)
           b == From(e, m + 1 + 1)
<1>1. /\ e \in Seq(S) /\ Len(e) = m + 1 + x /\ HasBlank(S) /\ m \in Nat /\ x \in Nat
      /\ m \in 1..NameLen /\ x \in 1..ExtLen
  <2>1. m \in 1..NameLen /\ x \in 1..ExtLen
    BY DEF Dotted
  <2> QED BY <2>1, Sizes DEF Dotted
<1>2. NameLen \in Nat /\ ExtLen \in Nat
  BY Sizes
<1>3. a \in Seq(S) /\ Len(a) = m /\ \A i \in 1..m : a[i] = e[i]
  <2>1. Len(e) = 0 + m + (1 + x) /\ 0 + 1 = 1 /\ 0 + m = m /\ \A i \in 1..m : 0 + i = i
    BY <1>1
  <2>2. /\ SubSeq(e, 0 + 1, 0 + m) \in Seq(S) /\ Len(SubSeq(e, 0 + 1, 0 + m)) = m
        /\ \A i \in 1..m : SubSeq(e, 0 + 1, 0 + m)[i] = e[0 + i]
    BY <1>1, <2>1, SliceOf
  <2> QED BY <2>1, <2>2
<1>4. b \in Seq(S) /\ Len(b) = x /\ \A i \in 1..x : b[i] = e[m + 1 + i]
  <2>1. Len(e) = m + 1 + x + 0 /\ m + 1 \in Nat
    BY <1>1
  <2>2. /\ SubSeq(e, m + 1 + 1, m + 1 + x) \in Seq(S) /\ Len(SubSeq(e, m + 1 + 1, m + 1 + x)) = x
        /\ \A i \in 1..x : SubSeq(e, m + 1 + 1, m + 1 + x)[i] = e[m + 1 + i]
    BY <1>1, <2>1, SliceOf
  <2>3. b = SubSeq(e, m + 1 + 1, m + 1 + x)
    BY <1>1 DEF From
  <2> HIDE DEF b
  <2> QED BY <2>2, <2>3
<1>5. fcbitize(e) = Padded(a, NameLen) \o Padded(b, ExtLen)
  <2>1. PICK d \in Nat : d = Position(e, ".")
    BY <1>1
  <2>2. fcbitize(e) = IF d = 0 THEN Padded(e, NameLen) \o Padded(<<>>, ExtLen)
                      ELSE Padded(SubSeq(e, 1, d - 1), NameLen) \o Padded(From(e, d + 1), ExtLen)
    BY <2>1, Zenon DEF fcbitize
  <2>3. d # 0 /\ d - 1 = m /\ d = m + 1
    BY <1>1, <2>1
  <2> QED BY <2>2, <2>3
<1> HIDE DEF a, b
<1>6. /\ Padded(a, NameLen) \in Seq(S) /\ Len(Padded(a, NameLen)) = NameLen
      /\ \A i \in 1..NameLen : Padded(a, NameLen)[i] = IF i <= m THEN a[i] ELSE " "
  BY <1>1, <1>2, <1>3, PaddedIs
<1>7. /\ Padded(b, ExtLen) \in Seq(S) /\ Len(Padded(b, ExtLen)) = ExtLen
      /\ \A i \in 1..ExtLen : Padded(b, ExtLen)[i] = IF i <= x THEN b[i] ELSE " "
  BY <1>1, <1>2, <1>4, PaddedIs
<1>8. /\ fcbitize(e) \in Seq(S) /\ Len(fcbitize(e)) = FcbLen
      /\ \A i \in 1..FcbLen : fcbitize(e)[i] =
           IF i <= NameLen THEN Padded(a, NameLen)[i] ELSE Padded(b, ExtLen)[i - NameLen]
  <2>1. PICK u \in Seq(S), v \in Seq(S) : u = Padded(a, NameLen) /\ v = Padded(b, ExtLen)
    BY <1>6, <1>7
  <2>2. Len(u) = NameLen /\ Len(v) = ExtLen /\ fcbitize(e) = u \o v
    BY <1>5, <1>6, <1>7, <2>1
  <2>3. /\ u \o v \in Seq(S) /\ Len(u \o v) = NameLen + ExtLen
        /\ \A i \in 1..NameLen + ExtLen : (u \o v)[i] = IF i <= NameLen THEN u[i] ELSE v[i - NameLen]
    BY <2>2, ConcatProperties
  <2> QED BY <2>1, <2>2, <2>3, Sizes
<1> HIDE DEF Record
<1>9. fcbitize(e) = [i \in 1..FcbLen |-> fcbitize(e)[i]]
  BY <1>8, LenProperties
<1>10. ASSUME NEW i \in 1..FcbLen PROVE fcbitize(e)[i] = Record(e, m, x)[i]
  <2>0. Record(e, m, x)[i] = IF i <= m THEN e[i]
                             ELSE IF NameLen < i /\ i <= NameLen + x THEN e[m + 1 + (i - NameLen)]
                             ELSE " "
    BY DEF Record
  <2>1. CASE i <= NameLen
    <3>1. ~(NameLen < i) /\ i \in 1..NameLen /\ (i <= m => i \in 1..m)
      BY <1>1, <1>2, <2>1, Sizes
    <3>2. fcbitize(e)[i] = IF i <= m THEN a[i] ELSE " "
      BY <1>6, <1>8, <2>1, <3>1, Zenon
    <3> QED BY <1>3, <2>0, <3>1, <3>2, Zenon
  <2>2. CASE ~(i <= NameLen)
    <3>1. PICK j \in 1..ExtLen : j = i - NameLen /\ (j <= x <=> i <= NameLen + x)
                                 /\ (j <= x => j \in 1..x)
      BY <1>1, <1>2, <2>2, Sizes
    <3>2. ~(i <= m) /\ NameLen < i
      BY <1>1, <1>2, <2>2, Sizes
    <3>3. fcbitize(e)[i] = IF j <= x THEN b[j] ELSE " "
      BY <1>7, <1>8, <2>2, <3>1, Zenon
    <3> QED BY <1>4, <2>0, <3>1, <3>2, <3>3, Zenon
  <2> QED BY <2>1, <2>2
<1> QED BY <1>9, <1>10 DEF Record

\* A record with the first k characters of a name in it, and the place of the last of them,
\* for a field of N and one of L characters and a dot that is character m + 1.
Filled(e, b, N, L, m, k) ==
  [i \in 1..N + L |-> IF i <= k /\ i <= m THEN e[i]
                      ELSE IF m < k /\ N < i /\ i - N <= k - (m + 1) THEN e[m + 1 + (i - N)]
                      ELSE b]

At(N, m, k) == IF k <= m THEN k ELSE N + (k - (m + 1))

FillsUpTo(e, b, N, L, m, x) ==
  /\ Filled(e, b, N, L, m, 0) = [i \in 1..N + L |-> b]
  /\ \A k \in 1..m + 1 + x :
       /\ k = m + 1 => At(N, m, k) = N /\ Filled(e, b, N, L, m, k) = Filled(e, b, N, L, m, k - 1)
       /\ k # m + 1 =>
            /\ At(N, m, k) = At(N, m, k - 1) + 1 /\ At(N, m, k) \in 1..N + L
            /\ Filled(e, b, N, L, m, k) =
                 [i \in 1..N + L |-> IF i = At(N, m, k) THEN e[k]
                                     ELSE Filled(e, b, N, L, m, k - 1)[i]]
  /\ Filled(e, b, N, L, m, m + 1 + x) =
       [i \in 1..N + L |-> IF i <= m THEN e[i]
                           ELSE IF N < i /\ i <= N + x THEN e[m + 1 + (i - N)] ELSE b]

\* Character by character it fills the record.
LEMMA FillsUp ==
  ASSUME NEW e, NEW b, NEW N \in Nat, NEW L \in Nat, NEW m \in 1..N, NEW x \in 1..L
  PROVE  FillsUpTo(e, b, N, L, m, x)
<1>1. Filled(e, b, N, L, m, 0) = [i \in 1..N + L |-> b]
  BY DEF Filled
<1>2. ASSUME NEW k \in 1..m + 1 + x, k = m + 1
      PROVE  At(N, m, k) = N /\ Filled(e, b, N, L, m, k) = Filled(e, b, N, L, m, k - 1)
  BY <1>2 DEF Filled, At
<1>3. ASSUME NEW k \in 1..m + 1 + x, k # m + 1
      PROVE  /\ At(N, m, k) = At(N, m, k - 1) + 1 /\ At(N, m, k) \in 1..N + L
             /\ Filled(e, b, N, L, m, k) =
                  [i \in 1..N + L |-> IF i = At(N, m, k) THEN e[k]
                                      ELSE Filled(e, b, N, L, m, k - 1)[i]]
  <2>1. At(N, m, k) = At(N, m, k - 1) + 1 /\ At(N, m, k) \in 1..N + L
    BY <1>3 DEF At
  <2>2. ASSUME NEW i \in 1..N + L
        PROVE  Filled(e, b, N, L, m, k)[i] =
                 IF i = At(N, m, k) THEN e[k] ELSE Filled(e, b, N, L, m, k - 1)[i]
    <3>1. CASE k <= m
      <4>1. At(N, m, k) = k
        BY <3>1 DEF At
      <4> QED BY <3>1, <4>1 DEF Filled
    <3>2. CASE ~(k <= m)
      <4>1. At(N, m, k) = N + (k - (m + 1)) /\ m + 1 < k
        BY <1>3, <3>2 DEF At
      <4>2. CASE i = At(N, m, k)
        <5>1. m + 1 + (i - N) = k /\ ~(i <= m) /\ m < k /\ N < i /\ i - N <= k - (m + 1)
          BY <4>1, <4>2
        <5> QED BY <4>2, <5>1 DEF Filled
      <4>3. CASE i # At(N, m, k)
        <5>1. /\ i <= k /\ i <= m <=> i <= k - 1 /\ i <= m
              /\ m < k /\ N < i /\ i - N <= k - (m + 1) <=>
                   m < k - 1 /\ N < i /\ i - N <= k - 1 - (m + 1)
          BY <4>1, <4>3
        <5> QED BY <4>3, <5>1 DEF Filled
      <4> QED BY <4>2, <4>3
    <3> QED BY <3>1, <3>2
  <2>3. Filled(e, b, N, L, m, k) = [i \in 1..N + L |-> Filled(e, b, N, L, m, k)[i]]
    BY DEF Filled
  <2> QED BY <2>1, <2>2, <2>3
<1>4. Filled(e, b, N, L, m, m + 1 + x) =
        [i \in 1..N + L |-> IF i <= m THEN e[i]
                            ELSE IF N < i /\ i <= N + x THEN e[m + 1 + (i - N)] ELSE b]
  BY DEF Filled
<1> QED BY <1>1, <1>2, <1>3, <1>4, Zenon DEF FillsUpTo

\* And so does get_fcbname_from_path.
LEMMA PutIs ==
  ASSUME NEW S, NEW e, NEW m, NEW x, Dotted(e, S, m, x)
  PROVE  get_fcbname_from_path(e) = Record(e, m, x)
<1>0. PICK b : b = " "
  OBVIOUS
<1> DEFINE n == Len(e)
           Value(put, k) ==
             IF k = 0 THEN [at |-> 0, fcb |-> Spaces]
             ELSE IF e[k] = "." THEN [put[k - 1] EXCEPT !.at = NameLen]
             ELSE LET f == put[k - 1].fcb
                      at == put[k - 1].at + 1
                  IN [at |-> at, fcb |-> [i \in DOMAIN f \cup {at} |-> IF i = at THEN e[k] ELSE f[i]]]
           Body(put) == [k \in 0..Len(e) |-> Value(put, k)]
           put == CHOOSE p : p = Body(p)
           F(k) == Filled(e, b, NameLen, ExtLen, m, k)
           A(k) == At(NameLen, m, k)
           G == [k \in 0..n |-> [at |-> A(k), fcb |-> F(k)]]
<1>1. get_fcbname_from_path(e) = put[n].fcb
  BY DEF get_fcbname_from_path
<1>2. /\ n \in Nat /\ n = m + 1 + x /\ m \in 1..NameLen /\ x \in 1..ExtLen
      /\ \A k \in 1..n : e[k] = "." <=> k = m + 1
  BY Sizes, LenProperties DEF Dotted
<1>3. /\ F(0) = Spaces /\ A(0) = 0
      /\ \A k \in 1..n :
           /\ k = m + 1 => A(k) = NameLen /\ F(k) = F(k - 1)
           /\ k # m + 1 => /\ A(k) = A(k - 1) + 1 /\ A(k) \in 1..FcbLen
                           /\ F(k) = [i \in 1..FcbLen |-> IF i = A(k) THEN e[k] ELSE F(k - 1)[i]]
      /\ F(n) = Record(e, m, x)
  <2>1. A(0) = 0
    BY <1>2, Sizes DEF At
  <2>2. /\ NameLen \in Nat /\ ExtLen \in Nat /\ m \in 1..NameLen /\ x \in 1..ExtLen
        /\ n = m + 1 + x /\ NameLen + ExtLen = FcbLen
    BY <1>2, Sizes
  <2>3. /\ F(0) = [i \in 1..NameLen + ExtLen |-> b]
        /\ \A k \in 1..m + 1 + x :
              /\ k = m + 1 => A(k) = NameLen /\ F(k) = F(k - 1)
              /\ k # m + 1 =>
                   /\ A(k) = A(k - 1) + 1 /\ A(k) \in 1..NameLen + ExtLen
                   /\ F(k) = [i \in 1..NameLen + ExtLen |-> IF i = A(k) THEN e[k] ELSE F(k - 1)[i]]
        /\ F(m + 1 + x) =
              [i \in 1..NameLen + ExtLen |->
                 IF i <= m THEN e[i]
                 ELSE IF NameLen < i /\ i <= NameLen + x THEN e[m + 1 + (i - NameLen)] ELSE b]
    <3>1. FillsUpTo(e, b, NameLen, ExtLen, m, x)
      BY <2>2, FillsUp, Zenon
    <3> QED BY <3>1, Zenon DEF FillsUpTo
  <2>4. Spaces = [i \in 1..FcbLen |-> b]
    BY <1>0, Zenon DEF Spaces
  <2>5. Record(e, m, x) =
          [i \in 1..FcbLen |->
             IF i <= m THEN e[i]
             ELSE IF NameLen < i /\ i <= NameLen + x THEN e[m + 1 + (i - NameLen)] ELSE b]
    BY <1>0, Zenon DEF Record
  <2> HIDE DEF F, A
  <2> QED BY <1>2, <2>1, <2>2, <2>3, <2>4, <2>5, Zenon
<1>4. \A k \in 1..n : k - 1 \in 0..n /\ k \in 0..n /\ k # 0
  BY <1>2
<1>5. \A k \in 0..n : DOMAIN F(k) = 1..FcbLen
  BY Sizes, Zenon DEF Filled
<1> HIDE DEF n, F, A
<1>6. G = Body(G)
  <2>1. ASSUME NEW k \in 0..n PROVE G[k] = Body(G)[k]
    <3> DEFINE B == Body(G)[k]
    <3>1. B = IF k = 0 THEN [at |-> 0, fcb |-> Spaces]
              ELSE IF e[k] = "." THEN [G[k - 1] EXCEPT !.at = NameLen]
              ELSE LET f == G[k - 1].fcb
                       at == G[k - 1].at + 1
                   IN [at |-> at, fcb |-> [i \in DOMAIN f \cup {at} |-> IF i = at THEN e[k] ELSE f[i]]]
      BY Zenon DEF n
    <3> HIDE DEF B
    <3>2. G[k] = [at |-> A(k), fcb |-> F(k)]
      BY Zenon
    <3>3. CASE k = 0
      <4>1. B = [at |-> 0, fcb |-> Spaces]
        BY <3>1, <3>3, Zenon
      <4>2. F(k) = Spaces /\ A(k) = 0
        BY <1>3, <3>3, Zenon
      <4> HIDE DEF G, Body
      <4> QED BY <3>2, <4>1, <4>2, Zenon DEF B
    <3>4. CASE k # 0
      <4>1. k \in 1..n
        BY <1>2, <3>4
      <4>2. k - 1 \in 0..n
        BY <1>4, <4>1
      <4>3. G[k - 1] = [at |-> A(k - 1), fcb |-> F(k - 1)]
        BY <4>2, Zenon
      <4>4. CASE k = m + 1
        <5>1. B = [G[k - 1] EXCEPT !.at = NameLen]
          BY <1>2, <3>1, <3>4, <4>1, <4>4, Zenon
        <5>2. B = [at |-> NameLen, fcb |-> F(k - 1)]
          <6> HIDE DEF G
          <6> QED BY <4>3, <5>1
        <5>3. A(k) = NameLen /\ F(k) = F(k - 1)
          BY <1>3, <4>1, <4>4, Zenon
        <5> HIDE DEF G, Body
        <5> QED BY <3>2, <5>2, <5>3, Zenon DEF B
      <4>5. CASE k # m + 1
        <5>1. B = LET f == G[k - 1].fcb
                      at == G[k - 1].at + 1
                  IN [at |-> at, fcb |-> [i \in DOMAIN f \cup {at} |-> IF i = at THEN e[k] ELSE f[i]]]
          BY <1>2, <3>1, <3>4, <4>1, <4>5, Zenon
        <5>2. G[k - 1].fcb = F(k - 1) /\ G[k - 1].at = A(k - 1)
          <6> HIDE DEF G
          <6> QED BY <4>3
        <5>3. A(k) = A(k - 1) + 1 /\ A(k) \in 1..FcbLen
              /\ F(k) = [i \in 1..FcbLen |-> IF i = A(k) THEN e[k] ELSE F(k - 1)[i]]
          BY <1>3, <4>1, <4>5, Zenon
        <5>4. (DOMAIN F(k - 1)) \cup {A(k)} = 1..FcbLen
          <6>1. DOMAIN F(k - 1) = 1..FcbLen
            BY <1>5, <4>2, Zenon
          <6> QED BY <5>3, <6>1, Zenon
        <5>5. B = [at |-> A(k),
                   fcb |-> [i \in (DOMAIN F(k - 1)) \cup {A(k)} |->
                              IF i = A(k) THEN e[k] ELSE F(k - 1)[i]]]
          <6> HIDE DEF G
          <6> QED BY <5>1, <5>2, <5>3, Zenon
        <5>6. B = [at |-> A(k), fcb |-> F(k)]
          BY <5>3, <5>4, <5>5, Zenon
        <5> HIDE DEF G, Body
        <5> QED BY <3>2, <5>6, Zenon DEF B
      <4> QED BY <4>4, <4>5
    <3> QED BY <3>3, <3>4
  <2>3. G = [k \in 0..n |-> G[k]] /\ Body(G) = [k \in 0..n |-> Body(G)[k]]
    <3> HIDE DEF Value
    <3> QED BY DEF n
  <2> HIDE DEF G, Body
  <2> QED BY <2>1, <2>3, Zenon
<1>7. put = Body(put)
  <2> HIDE DEF G, Body
  <2> QED BY <1>6, Zenon
<1> HIDE DEF put
<1>8. \A k \in 0..n : put[k] = G[k]
  <2>1. put[0] = G[0]
    <3>1. 0 \in 0..n
      BY <1>2
    <3>2. put[0] = [at |-> 0, fcb |-> Spaces]
      <4>1. Body(put)[0] = [at |-> 0, fcb |-> Spaces]
        BY <3>1, Zenon DEF n
      <4> HIDE DEF Body
      <4> QED BY <1>7, <4>1, Zenon
    <3>3. G[0] = [at |-> 0, fcb |-> Spaces]
      BY <1>3, <3>1, Zenon
    <3> QED BY <3>2, <3>3, Zenon
  <2>2. ASSUME NEW k \in 1..n, put[k - 1] = G[k - 1] PROVE put[k] = G[k]
    <3>1. k \in 0..n /\ k # 0
      BY <1>4
    <3>2. Body(put)[k] = Body(G)[k]
      <4> HIDE DEF G
      <4> QED BY <2>2, <3>1, Zenon DEF n
    <3> HIDE DEF Body, G
    <3> QED BY <1>6, <1>7, <3>2, Zenon
  <2> HIDE DEF G, Body
  <2> QED BY <1>2, <2>1, <2>2, SameSteps
<1>9. n \in 0..n
  BY <1>2
<1>10. G[n] = [at |-> A(n), fcb |-> F(n)]
  BY <1>9, Zenon
<1>11. put[n].fcb = F(n)
  <2> HIDE DEF G
  <2> QED BY <1>8, <1>9, <1>10
<1> QED BY <1>1, <1>3, <1>11, Zenon

\* The fields of DOS's date and time for numbers in their ranges.
LEMMA YearField ==
  ASSUME NEW yy \in 0..99
  PROVE  Year(yy) >= 1980 => 1980 + ((tm_year(yy) - 80) % 128) = Year(yy)
BY DEF Year, tm_year

\* Months, days and minutes keep within their fields.
LEMMA MonthField == \A mm \in 1..12 : (mm - 1 + 1) % 16 = mm
OBVIOUS

LEMMA DayField == \A dd \in 1..31 : dd % 32 = dd
OBVIOUS

LEMMA MinuteField == \A min \in 0..59 : min % 64 = min
OBVIOUS

\* The hour of the day is that of the clock of two times twelve hours.
LEMMA HourField ==
  ASSUME NEW hh \in 1..12, NEW pm \in BOOLEAN
  PROVE  tm_hour(hh, pm) % 32 = Hour(hh, pm)
<1>1. CASE hh = 12
  <2>1. CASE pm
    <3>1. tm_hour(hh, pm) = (hh % 12) + 12
      BY <2>1 DEF tm_hour
    <3>2. Hour(hh, pm) = 12
      BY <1>1, <2>1, Zenon DEF Hour
    <3> QED BY <1>1, <3>1, <3>2
  <2>2. CASE ~pm
    <3>1. tm_hour(hh, pm) = (hh % 12) + 0
      BY <2>2 DEF tm_hour
    <3>2. Hour(hh, pm) = 0
      BY <1>1, <2>2, Zenon DEF Hour
    <3> QED BY <1>1, <3>1, <3>2
  <2> QED BY <2>1, <2>2
<1>2. CASE hh # 12
  <2>0. hh % 12 = hh
    BY <1>2
  <2>1. CASE pm
    <3>1. tm_hour(hh, pm) = (hh % 12) + 12
      BY <2>1 DEF tm_hour
    <3>2. Hour(hh, pm) = hh + 12
      BY <1>2, <2>1, Zenon DEF Hour
    <3> QED BY <2>0, <3>1, <3>2
  <2>2. CASE ~pm
    <3>1. tm_hour(hh, pm) = (hh % 12) + 0
      BY <2>2 DEF tm_hour
    <3>2. Hour(hh, pm) = hh
      BY <1>2, <2>2, Zenon DEF Hour
    <3> QED BY <2>0, <3>1, <3>2
  <2> QED BY <2>1, <2>2
<1> QED BY <1>1, <1>2

\* What DOS's record r says of an entry of a listing is what the listing says.
ShownAsIs(e, t, r) ==
  /\ FitsRecord(e) => r.fcb_name = get_fcbname_from_path(e)
  /\ Year(t.yy) >= 1980 => 1980 + r.year = Year(t.yy)
  /\ r.month = t.mm /\ r.day = t.dd /\ r.hour = Hour(t.hh, t.pm) /\ r.minute = t.min

LEMMA EntryIsListed ==
  ASSUME NEW e \in Listing, NEW t \in Dates
  PROVE  ShownAsIs(e, t, fndirent_to_dirrec(e, t))
<1> DEFINE r == fndirent_to_dirrec(e, t)
<1>1. FitsRecord(e) => fcbitize(e) = get_fcbname_from_path(e)
  <2> SUFFICES ASSUME FitsRecord(e) PROVE fcbitize(e) = get_fcbname_from_path(e)
    OBVIOUS
  <2> DEFINE S == ToSet(e) \cup {" "}
  <2>1. e \in Seq(S)
    <3>1. e \in Seq(ToSet(e))
      BY ListingAssumption, Zenon DEF IsText
    <3>2. ToSet(e) \subseteq S
      BY Zenon
    <3> QED BY <3>1, <3>2, SeqWider, Zenon
  <2>2. HasBlank(S)
    BY DEF HasBlank
  <2> HIDE DEF S
  <2>3. PICK m, x : Dotted(e, S, m, x) /\ Position(e, ".") = m + 1
    BY <2>1, <2>2, FitsIsDotted
  <2>4. fcbitize(e) = Record(e, m, x)
    BY <2>3, FcbitizeIs
  <2>5. get_fcbname_from_path(e) = Record(e, m, x)
    BY <2>3, PutIs
  <2> QED BY <2>4, <2>5
<1>2. /\ t.yy \in 0..99 /\ t.mm \in 1..12 /\ t.dd \in 1..31 /\ t.hh \in 1..12 /\ t.min \in 0..59
      /\ t.pm \in BOOLEAN
  <2>1. t \in [mm : 1..12, dd : 1..31, yy : 0..99, hh : 1..12, min : 0..59, pm : BOOLEAN]
    BY ListingAssumption, Zenon
  <2> QED BY <2>1
<1>3. /\ r.fcb_name = fcbitize(e) /\ r.year = (tm_year(t.yy) - 80) % 128
      /\ r.month = (t.mm - 1 + 1) % 16 /\ r.day = t.dd % 32
      /\ r.hour = tm_hour(t.hh, t.pm) % 32 /\ r.minute = t.min % 64
  BY Zenon DEF fndirent_to_dirrec, mtime
<1> HIDE DEF r
<1>4. FitsRecord(e) => r.fcb_name = get_fcbname_from_path(e)
  BY <1>1, <1>3, Zenon
<1>5. PICK yy \in 0..99 : t.yy = yy
  BY <1>2, Zenon
<1>6. Year(yy) >= 1980 => 1980 + ((tm_year(yy) - 80) % 128) = Year(yy)
  BY YearField
<1>7. Year(t.yy) >= 1980 => 1980 + r.year = Year(t.yy)
  BY <1>3, <1>5, <1>6
<1>8. r.month = t.mm /\ r.day = t.dd /\ r.minute = t.min
  <2>1. r.month = t.mm
    BY <1>2, <1>3, MonthField, Zenon
  <2>2. r.day = t.dd
    BY <1>2, <1>3, DayField, Zenon
  <2>3. r.minute = t.min
    BY <1>2, <1>3, MinuteField, Zenon
  <2> QED BY <2>1, <2>2, <2>3
<1>9. r.hour = Hour(t.hh, t.pm)
  <2>1. tm_hour(t.hh, t.pm) % 32 = Hour(t.hh, t.pm)
    BY <1>2, HourField
  <2> QED BY <1>3, <2>1, Zenon
<1>10. ShownAsIs(e, t, r)
  BY <1>4, <1>7, <1>8, <1>9 DEF ShownAsIs
<1> QED BY <1>10, Zenon DEF r

\* DOS sees the name and the date that the server's listing gives: fcbitize cuts a name that
\* fits the record where get_fcbname_from_path does, and the fields of date and time keep every
\* value that fujifs_readdir makes of the text (fujifs.c:462-478, redir.c:98-120, 186-200).
THEOREM ListedAsStoredHolds == Spec => []ListedAsStored
<1>1. Init => ListedAsStored
  <2> SUFFICES ASSUME Init PROVE ListedAsStored
    OBVIOUS
  <2>1. answer.asked = <<>>
    BY DEF Init, NoAnswer
  <2> QED BY <2>1, Zenon DEF ListedAsStored
<1>2. ListedAsStored /\ [Next]_vars => ListedAsStored'
  <2> SUFFICES ASSUME ListedAsStored, [Next]_vars PROVE ListedAsStored'
    OBVIOUS
  <2>1. ASSUME UNCHANGED answer PROVE ListedAsStored'
    BY <2>1 DEF ListedAsStored
  <2>2. ASSUME answer'.asked = <<>> PROVE ListedAsStored'
    BY <2>2, Zenon DEF ListedAsStored
  <2>3. ASSUME answer'.fn # SUBF.FINDFIRST PROVE ListedAsStored'
    BY <2>3, Zenon DEF ListedAsStored
  <2>4. CASE UNCHANGED vars
    BY <2>1, <2>4 DEF vars
  <2>5. CASE Step
    BY <2>1, <2>5 DEF Step, set_up_cds, Break, tsr, unload_latest, HookOther, UnhookOther,
                      UserIntOfOther
  <2>6. CASE Return
    <3>1. answer'.asked = <<>>
      BY <2>6 DEF Return, NoAnswer
    <3> QED BY <2>2, <3>1
  <2>7. CASE Inquiry
    <3>1. answer'.asked = <<>>
      BY <2>7 DEF Inquiry, Answer
    <3> QED BY <2>2, <3>1
  <2>8. CASE FindNext
    <3>1. answer'.asked = <<>>
      BY <2>8 DEF FindNext, Answer
    <3> QED BY <2>2, <3>1
  <2>9. ASSUME NEW fn \in FileCalls, NEW s \in Sfts, ByHandle(fn, s) PROVE ListedAsStored'
    <3>1. answer'.asked = <<>>
      BY <2>9 DEF ByHandle, Answer
    <3> QED BY <2>2, <3>1
  <2>10. ASSUME NEW d, NEW path, NEW fn \in PathCalls, ByPath(fn, d, path) PROVE ListedAsStored'
    <3>1. CASE fn = SUBF.CHDIR
      <4>1. answer'.fn = SUBF.CHDIR
        BY <2>10, <3>1 DEF ByPath, Answer
      <4>2. SUBF.CHDIR # SUBF.FINDFIRST
        BY DEF SUBF
      <4> QED BY <2>3, <4>1, <4>2
    <3>2. CASE fn # SUBF.CHDIR
      <4>1. answer'.asked = <<>>
        BY <2>10, <3>2 DEF ByPath, Answer
      <4> QED BY <2>2, <4>1
    <3> QED BY <3>1, <3>2
  <2>11. ASSUME NEW s, NEW d, NEW path, Open(s, d, path) PROVE ListedAsStored'
    <3>1. answer'.fn = SUBF.OPENEXTENDED
      BY <2>11 DEF Open, Answer
    <3>2. SUBF.OPENEXTENDED # SUBF.FINDFIRST
      BY DEF SUBF
    <3> QED BY <2>3, <3>1, <3>2
  <2>12. ASSUME NEW d, NEW path, Delete(d, path) PROVE ListedAsStored'
    <3>1. answer'.fn = SUBF.DELETE
      BY <2>12 DEF Delete, Answer
    <3>2. SUBF.DELETE # SUBF.FINDFIRST
      BY DEF SUBF
    <3> QED BY <2>3, <3>1, <3>2
  <2>13. ASSUME NEW d, NEW path, NEW label, FindFirst(d, path, label) PROVE ListedAsStored'
    <3> DEFINE n == redirector(SUBF.FINDFIRST, d, 0)
    <3>1. CASE label \/ n = DOS
      <4>1. answer'.asked = <<>>
        BY <2>13, <3>1 DEF FindFirst, Answer
      <4> QED BY <2>2, <4>1
    <3>2. CASE ~(label \/ n = DOS)
      <4>1. PICK e \in Listing, t \in Dates :
              Answer(SUBF.FINDFIRST, ForDrive(d), n, <<e, t>>,
                     Remote(n, SubSeq(path, 1, LastPosition(path, "\\") - 1)),
                     fndirent_to_dirrec(e, t))
        BY <2>13, <3>2, Zenon DEF FindFirst
      <4>2. answer'.asked = <<e, t>> /\ answer'.seen = fndirent_to_dirrec(e, t)
        BY <4>1, Zenon DEF Answer
      <4>3. answer'.asked[1] = e /\ answer'.asked[2] = t
        BY <4>2
      <4>4. ShownAsIs(e, t, answer'.seen)
        BY <4>2, EntryIsListed, Zenon
      <4> QED BY <4>3, <4>4 DEF ListedAsStored, ShownAsIs
    <3> QED BY <3>1, <3>2
  <2> QED BY <2>4, <2>5, <2>6, <2>7, <2>8, <2>9, <2>10, <2>11, <2>12, <2>13 DEF Next, Call
<1> QED BY <1>1, <1>2, PTL DEF Spec

----------------------------------------------------------------------------
(* The name by which the server hears of a file.                           *)

\* A text cut at no less than its length.
LEMMA ShorterIs ==
  ASSUME NEW S, NEW s \in Seq(S), NEW m \in Nat, NEW d \in Nat
  PROVE  m = Len(s) => Shorter(s, m + d) = s
<1>1. (IF m < m + d THEN m ELSE m + d) = m
  OBVIOUS
<1> QED BY <1>1, SubSeqFull DEF Shorter

\* With a name in the place of what is behind the last of a character, here the backslash, the
\* first one stays where it was, and behind it come the directories and the name.
Behind(p, c) == SubSeq(p, Position(p, c) + 1, Len(p))
InPlace(t, p, e, c, S) ==
  /\ t \in Seq(S) /\ Position(t, c) = Position(p, c)
  /\ Behind(t, c) = SubSeq(Behind(p, c), 1, LastPosition(Behind(p, c), c)) \o e

LEMMA NameInPlace ==
  ASSUME NEW S, NEW p \in Seq(S), NEW e \in Seq(S), NEW c, Position(p, c) # 0
  PROVE  InPlace(SubSeq(p, 1, LastPosition(p, c)) \o e, p, e, c, S)
<1>1. PICK r \in Nat, l \in Nat, n \in Nat, k \in Nat :
        /\ r = Position(p, c) /\ l = LastPosition(p, c) /\ n = Len(p) /\ k = Len(e)
  BY PositionIs, LastPositionIs, LenProperties
<1>2. /\ r \in 1..n /\ p[r] = c /\ l \in 1..n /\ p[l] = c /\ r <= l
      /\ \A i \in 1..n : p[i] = c => r <= i /\ i <= l
  <2>1. r \in 0..n /\ r # 0
    BY <1>1, PositionIs
  <2>2. p[r] = c /\ \A i \in 1..n : p[i] = c => r <= i
    BY <1>1, <2>1, PositionIs
  <2>3. r \in 1..n
    BY <2>1
  <2>4. l \in 0..n /\ l # 0
    BY <1>1, <2>2, <2>3, LastPositionIs
  <2>5. p[l] = c /\ \A i \in 1..n : p[i] = c => i <= l
    BY <1>1, <2>4, LastPositionIs
  <2>6. l \in 1..n
    BY <2>4
  <2> QED BY <2>2, <2>3, <2>5, <2>6
<1> DEFINE d == SubSeq(p, 1, l)
           t == d \o e
           b == SubSeq(p, r + 1, n)
           a == SubSeq(b, 1, l - r)
<1>3. d \in Seq(S) /\ Len(d) = l /\ \A i \in 1..l : d[i] = p[i]
  <2>1. n - l \in Nat /\ n = 0 + l + (n - l) /\ 0 + 1 = 1 /\ 0 + l = l /\ \A i \in 1..l : 0 + i = i
    BY <1>2
  <2>2. Len(p) = 0 + l + (n - l)
    BY <1>1, <2>1, Zenon
  <2>3. /\ SubSeq(p, 0 + 1, 0 + l) \in Seq(S) /\ Len(SubSeq(p, 0 + 1, 0 + l)) = l
        /\ \A i \in 1..l : SubSeq(p, 0 + 1, 0 + l)[i] = p[0 + i]
    BY <2>1, <2>2, SliceOf
  <2> QED BY <2>1, <2>3
<1> HIDE DEF d
<1>4. t \in Seq(S) /\ Len(t) = l + k /\ \A i \in 1..l + k : t[i] = IF i <= l THEN p[i] ELSE e[i - l]
  <2>1. /\ t \in Seq(S) /\ Len(t) = l + k
        /\ \A i \in 1..l + k : t[i] = IF i <= l THEN d[i] ELSE e[i - l]
    <3>1. Len(e) = k /\ Len(d) = l /\ d \in Seq(S)
      BY <1>1, <1>3, Zenon
    <3>2. IsJoin(t, d, e, S, l, k)
      BY <3>1, IsJoinOf
    <3> QED BY <3>2, Zenon DEF IsJoin
  <2> HIDE DEF t
  <2>2. \A i \in 1..l + k : i <= l => i \in 1..l
    BY <1>2
  <2> QED BY <1>3, <2>1, <2>2
<1> HIDE DEF t
<1>5. b \in Seq(S) /\ Len(b) = n - r /\ \A i \in 1..n - r : b[i] = p[r + i]
  <2>1. PICK j \in Nat : j = n - r /\ n = r + j + 0 /\ r + j = n
    BY <1>2
  <2>2. /\ SubSeq(p, r + 1, r + j) \in Seq(S) /\ Len(SubSeq(p, r + 1, r + j)) = j
        /\ \A i \in 1..j : SubSeq(p, r + 1, r + j)[i] = p[r + i]
    <3>1. Len(p) = r + j + 0
      BY <1>1, <2>1, Zenon
    <3> QED BY <3>1, SliceOf
  <2> QED BY <2>1, <2>2
<1> HIDE DEF b
<1>6. LastPosition(b, c) = l - r
  <2>1. l - r \in 0..n - r /\ l - r \in Nat
    BY <1>2
  <2>2. l - r # 0 => b[l - r] = c
    <3>1. r + (l - r) = l /\ (l - r # 0 => l - r \in 1..n - r)
      BY <1>2
    <3> QED BY <1>2, <1>5, <3>1
  <2>3. \A i \in l - r + 1..n - r : b[i] # c
    <3> TAKE i \in l - r + 1..n - r
    <3>1. i \in 1..n - r /\ r + i \in 1..n /\ ~(r + i <= l)
      BY <1>2
    <3>2. b[i] = p[r + i]
      BY <1>5, <3>1
    <3> QED BY <1>2, <3>1, <3>2
  <2> QED BY <1>5, <2>1, <2>2, <2>3, LastIs
<1>7. a \in Seq(S) /\ Len(a) = l - r /\ \A i \in 1..l - r : a[i] = p[r + i]
  <2>1. PICK j \in Nat : j = l - r
    BY <1>2
  <2>2. n - l \in Nat /\ n - r = 0 + j + (n - l) /\ 0 + 1 = 1 /\ 0 + j = j
        /\ \A i \in 1..j : 0 + i = i /\ i \in 1..n - r
    BY <1>2, <2>1
  <2>3. /\ SubSeq(b, 0 + 1, 0 + j) \in Seq(S) /\ Len(SubSeq(b, 0 + 1, 0 + j)) = j
        /\ \A i \in 1..j : SubSeq(b, 0 + 1, 0 + j)[i] = b[0 + i]
    BY <1>5, <2>2, SliceOf
  <2> QED BY <1>5, <2>1, <2>2, <2>3
<1> HIDE DEF a
<1> DEFINE u == SubSeq(t, r + 1, l + k)
<1>8. u \in Seq(S) /\ Len(u) = l - r + k /\ \A i \in 1..l - r + k : u[i] = t[r + i]
  <2>1. PICK j \in Nat : j = l - r + k /\ l + k = r + j + 0 /\ r + j = l + k
    BY <1>2
  <2>2. /\ SubSeq(t, r + 1, r + j) \in Seq(S) /\ Len(SubSeq(t, r + 1, r + j)) = j
        /\ \A i \in 1..j : SubSeq(t, r + 1, r + j)[i] = t[r + i]
    BY <1>4, <2>1, SliceOf
  <2> QED BY <2>1, <2>2
<1> HIDE DEF u
<1>9. u = a \o e
  <2> DEFINE w == a \o e
  <2>1. /\ w \in Seq(S) /\ Len(w) = l - r + k
        /\ \A i \in 1..l - r + k : w[i] = IF i <= l - r THEN a[i] ELSE e[i - (l - r)]
    <3>1. Len(e) = k /\ Len(a) = l - r /\ a \in Seq(S)
      BY <1>1, <1>7, Zenon
    <3>2. l - r \in Nat
      BY <1>2
    <3>3. IsJoin(w, a, e, S, l - r, k)
      BY <3>1, <3>2, IsJoinOf
    <3> QED BY <3>3, Zenon DEF IsJoin
  <2> HIDE DEF w
  <2>2. ASSUME NEW i \in 1..l - r + k PROVE u[i] = w[i]
    <3>1. u[i] = t[r + i] /\ r + i \in 1..l + k
      BY <1>2, <1>8
    <3>2. t[r + i] = IF r + i <= l THEN p[r + i] ELSE e[r + i - l]
      BY <1>4, <3>1
    <3>3. CASE i <= l - r
      <4>1. i \in 1..l - r /\ r + i <= l
        BY <1>2, <3>3
      <4> QED BY <1>7, <2>1, <3>1, <3>2, <3>3, <4>1
    <3>4. CASE ~(i <= l - r)
      <4>1. ~(r + i <= l) /\ r + i - l = i - (l - r)
        BY <1>2, <3>4
      <4> QED BY <2>1, <3>1, <3>2, <3>4, <4>1
    <3> QED BY <3>3, <3>4
  <2>3. u = w
    BY <1>8, <2>1, <2>2, SeqEqual
  <2> QED BY <2>3 DEF w
<1>10. Position(t, c) = r
  <2>1. r \in 1..Len(t) /\ r <= l
    BY <1>2, <1>4
  <2>2. t[r] = c
    <3>1. r \in 1..l + k
      BY <1>2
    <3> QED BY <1>2, <1>4, <3>1
  <2>3. \A i \in 1..r - 1 : t[i] # c
    <3> TAKE i \in 1..r - 1
    <3>1. i \in 1..l + k /\ i <= l /\ i \in 1..n /\ ~(r <= i)
      BY <1>2
    <3>2. t[i] = p[i]
      BY <1>4, <3>1
    <3> QED BY <1>2, <3>1, <3>2
  <2> QED BY <1>4, <2>1, <2>2, <2>3, FirstIs
<1>11. t \in Seq(S) /\ Position(t, c) = r /\ SubSeq(t, r + 1, Len(t)) = SubSeq(b, 1, LastPosition(b, c)) \o e
  BY <1>4, <1>6, <1>9, <1>10, Zenon DEF u, a
<1>12. Behind(p, c) = b /\ Behind(t, c) = SubSeq(t, r + 1, Len(t))
  BY <1>1, <1>10, Zenon DEF Behind, b
<1> QED BY <1>1, <1>11, <1>12, Zenon DEF t, d, InPlace

\* What undosify_path makes of a path from its root on.
Slash(c) == IF c = "\\" THEN "/" ELSE IF c \in DOMAIN Small THEN Small[c] ELSE c

LEMMA FromRoot ==
  ASSUME NEW S, NEW p \in Seq(S), NEW r \in 1..Len(p)
  PROVE  LET u == [i \in 1..(Len(p) - r + 1) |-> Slash(p[r + i - 1])]
             b == SubSeq(p, r + 1, Len(p))
         IN /\ u # <<>> /\ u[1] = Slash(p[r])
            /\ Tail(u) = [i \in DOMAIN b |-> Slash(b[i])]
            /\ Tail(u) \in Seq({Slash(x) : x \in S}) /\ Len(Tail(u)) = Len(b)
<1>1. PICK n \in Nat, k \in Nat : n = Len(p) /\ n = r + k /\ k = n - r
  BY LenProperties
<1> DEFINE T == {Slash(x) : x \in S}
           u == [i \in 1..(n - r + 1) |-> Slash(p[r + i - 1])]
           b == SubSeq(p, r + 1, n)
           w == [i \in DOMAIN b |-> Slash(b[i])]
<1>2. b \in Seq(S) /\ Len(b) = k /\ \A i \in 1..k : b[i] = p[r + i]
  <2>1. r + k + 0 = r + k /\ r \in Nat
    BY <1>1
  <2>2. Len(p) = r + k + 0
    BY <1>1, <2>1, Zenon
  <2>3. /\ SubSeq(p, r + 1, r + k) \in Seq(S) /\ Len(SubSeq(p, r + 1, r + k)) = k
        /\ \A i \in 1..k : SubSeq(p, r + 1, r + k)[i] = p[r + i]
    <3>1. IsSlice(SubSeq(p, r + 1, r + k), p, S, r, k)
      BY <2>1, <2>2, IsSliceOf
    <3> QED BY <3>1, Zenon DEF IsSlice
  <2> QED BY <1>1, <2>3, Zenon
<1> HIDE DEF b
<1>3. \A i \in 1..n : p[i] \in S
  BY <1>1, ElementOfSeq
<1>4. u \in Seq(T) /\ Len(u) = k + 1 /\ \A i \in 1..k + 1 : u[i] = Slash(p[r + i - 1])
  <2>1. \A i \in 1..k + 1 : r + i - 1 \in 1..n
    BY <1>1
  <2>2. \A i \in 1..k + 1 : Slash(p[r + i - 1]) \in T
    BY <1>3, <2>1
  <2>3. n - r + 1 = k + 1 /\ k + 1 \in Nat
    BY <1>1
  <2>4. u = [i \in 1..k + 1 |-> Slash(p[r + i - 1])]
    BY <2>3, Zenon
  <2> HIDE DEF T, u
  <2> QED BY <2>2, <2>3, <2>4
<1> HIDE DEF u
<1>5. \A i \in 1..k : b[i] \in S
  BY <1>2, ElementOfSeq
<1>6. w \in Seq(T) /\ Len(w) = k /\ \A i \in 1..k : w[i] = Slash(b[i])
  <2>1. DOMAIN b = 1..k
    BY <1>2, LenProperties
  <2>2. \A i \in 1..k : Slash(b[i]) \in T
    BY <1>5
  <2> HIDE DEF T
  <2> QED BY <2>1, <2>2
<1> HIDE DEF w, T
<1>7. u # <<>> /\ Tail(u) \in Seq(T) /\ Len(Tail(u)) = k /\ \A i \in 1..k : Tail(u)[i] = u[i + 1]
  BY <1>1, <1>4
<1>8. ASSUME NEW i \in 1..k PROVE Tail(u)[i] = w[i]
  <2>1. i + 1 \in 1..k + 1 /\ r + (i + 1) - 1 = r + i
    BY <1>1
  <2>2. Tail(u)[i] = u[i + 1]
    BY <1>7
  <2>3. u[i + 1] = Slash(p[r + (i + 1) - 1])
    BY <1>4, <2>1, Zenon
  <2>4. w[i] = Slash(b[i]) /\ b[i] = p[r + i]
    BY <1>2, <1>6, Zenon
  <2> QED BY <2>1, <2>2, <2>3, <2>4, Zenon
<1>9. Tail(u) = w
  BY <1>6, <1>7, <1>8, SeqEqual
<1>10. u[1] = Slash(p[r])
  <2>1. 1 \in 1..k + 1 /\ r + 1 - 1 = r
    BY <1>1
  <2> QED BY <1>4, <2>1
<1>11. /\ u # <<>> /\ u[1] = Slash(p[r]) /\ Tail(u) = w /\ Tail(u) \in Seq(T) /\ Len(Tail(u)) = Len(b)
  BY <1>2, <1>7, <1>9, <1>10
<1> QED BY <1>1, <1>11, Zenon DEF u, b, w, T

\* The server hears of a path as the volume, a slash and what is below the root.
LEMMA RemoteIs ==
  ASSUME NEW S, NEW v \in Seq(S), NEW p \in Seq(S), Position(p, "\\") # 0,
         NEW j \in Nat, Len(v) + 1 + Len(Below(p)) + j = PATHLEN
  PROVE  path_with_volume(v, <<>>, undosify_path(p)) = v \o <<"/">> \o Slashed(Below(p))
<1>1. PICK c : c = "\\"
  OBVIOUS
<1>2. PICK r \in Nat : r = Position(p, c) /\ r \in 1..Len(p) /\ p[r] = c
  <2>1. Position(p, c) \in 0..Len(p) /\ Position(p, c) # 0
    BY <1>1, PositionIs
  <2>2. p[Position(p, c)] = c
    BY <2>1, PositionIs
  <2> QED BY <2>1, <2>2, LenProperties
<1> DEFINE u == [i \in 1..(Len(p) - r + 1) |-> Slash(p[r + i - 1])]
           b == SubSeq(p, r + 1, Len(p))
           T == {Slash(x) : x \in S}
           d == <<"/">>
<1>3. /\ u # <<>> /\ u[1] = Slash(c) /\ Tail(u) = [i \in DOMAIN b |-> Slash(b[i])]
      /\ Tail(u) \in Seq(T) /\ Len(Tail(u)) = Len(b)
  <2> HIDE DEF u, b, T
  <2>1. r \in 1..Len(p) /\ p[r] = c
    BY <1>2
  <2>2. /\ u # <<>> /\ u[1] = Slash(p[r]) /\ Tail(u) = [i \in DOMAIN b |-> Slash(b[i])]
        /\ Tail(u) \in Seq(T) /\ Len(Tail(u)) = Len(b)
    BY <2>1, FromRoot DEF u, b, T
  <2> QED BY <2>1, <2>2, Zenon
<1>4. undosify_path(p) = u
  <2>1. r # 0
    BY <1>2
  <2> QED BY <1>1, <1>2, <2>1, Zenon DEF undosify_path, Slash
<1>5. Below(p) = b
  BY <1>1, <1>2, Zenon DEF Below, From
<1>6. Tail(u) = Slashed(Below(p))
  BY <1>3, <1>5, Zenon DEF Slashed, Slash
<1>7. u[1] = "/"
  BY <1>1, <1>3, Zenon DEF Slash
<1> HIDE DEF u, T, b
<1>8. path_with_volume(v, <<>>, u) = (v \o d \o <<>>) \o Shorter(Tail(u), PATHLEN - Len(v \o d \o <<>>))
  BY <1>3, <1>7, Zenon DEF path_with_volume
<1> HIDE DEF d
<1>9. PICK D : d \in Seq(D) /\ Len(d) = 1
  <2>1. d \in Seq({"/"}) /\ Len(d) = 1
    BY DEF d
  <2> QED BY <2>1
<1>10. v \o d \o <<>> = v \o d /\ Len(v \o d) = Len(v) + 1
  <2>1. v \in Seq(S \cup D) /\ d \in Seq(S \cup D)
    BY <1>9, SeqWider
  <2>2. v \o d \in Seq(S \cup D) /\ Len(v \o d) = Len(v) + Len(d)
    BY <2>1, ConcatProperties
  <2> QED BY <1>9, <2>2, NothingMore
<1>11. Shorter(Tail(u), PATHLEN - Len(v \o d)) = Tail(u)
  <2>1. PICK m \in Nat : m = Len(Tail(u))
    BY <1>3, LenProperties
  <2>2. PICK k \in Nat : k = Len(v)
    BY LenProperties
  <2>3. PATHLEN - Len(v \o d) = m + j
    <3>1. k + 1 + m + j = PATHLEN
      BY <1>3, <1>5, <2>1, <2>2, Zenon
    <3>2. PATHLEN - (k + 1) = m + j
      BY <3>1, Sizes
    <3> QED BY <1>10, <2>2, <3>2, Zenon
  <2>4. Shorter(Tail(u), m + j) = Tail(u)
    BY <1>3, <2>1, ShorterIs
  <2> QED BY <2>3, <2>4, Zenon
<1> QED BY <1>4, <1>6, <1>8, <1>10, <1>11, Zenon DEF d

\* A field of a record, the L characters from N on, that holds m characters of a name and
\* otherwise blanks: what is in front of the first blank is those characters.
LEMMA FieldBack ==
  ASSUME NEW S, NEW f \in Seq(S), NEW e \in Seq(S), NEW c, NEW N \in Nat, NEW L \in Nat,
         NEW z \in Nat, Len(f) = N + L + z, NEW o \in Nat, NEW m \in Nat, NEW k \in Nat, L = m + k,
         \A i \in 1..m : f[N + i] = e[o + i] /\ e[o + i] # c,
         k # 0 => f[N + (m + 1)] = c
  PROVE  IsSlice(UpTo(SubSeq(f, N + 1, N + L), c), e, S, o, m)
<1> DEFINE s == SubSeq(f, N + 1, N + L)
           t == UpTo(s, c)
<1>1. IsSlice(s, f, S, N, L)
  BY IsSliceOf
<1> HIDE DEF s
<1>2. s \in Seq(S) /\ Len(s) = m + k /\ \A i \in 1..m + k : s[i] = f[N + i]
  BY <1>1 DEF IsSlice
<1>3. \A i \in 1..m : s[i] # c
  <2> TAKE i \in 1..m
  <2>1. i \in 1..m + k
    OBVIOUS
  <2> QED BY <1>2, <2>1, Zenon
<1>4. k # 0 => s[m + 1] = c
  <2>1. k # 0 => m + 1 \in 1..m + k
    OBVIOUS
  <2> QED BY <1>2, <2>1, Zenon
<1>5. IsSlice(t, s, S, 0, m)
  BY <1>2, <1>3, <1>4, UpToIs
<1> HIDE DEF t
<1>6. \A i \in 1..m : t[i] = e[o + i]
  <2> TAKE i \in 1..m
  <2>1. i \in 1..m + k /\ 0 + i = i
    OBVIOUS
  <2>2. t[i] = s[0 + i]
    BY <1>5, Zenon DEF IsSlice
  <2> QED BY <1>2, <2>1, <2>2, Zenon
<1>7. IsSlice(t, e, S, o, m)
  BY <1>5, <1>6, Zenon DEF IsSlice
<1> QED BY <1>7, Zenon DEF t, s

\* A name is what is before its dot, the dot and what is behind it.
Joins(a, c, b, e) == a \o <<c>> \o b = e

LEMMA DotJoins ==
  ASSUME NEW S, NEW e \in Seq(S), NEW c \in S, NEW m \in Nat, NEW x \in Nat, Len(e) = m + 1 + x,
         e[m + 1] = c, NEW a, NEW b, IsSlice(a, e, S, 0, m), IsSlice(b, e, S, m + 1, x)
  PROVE  Joins(a, c, b, e)
<1> DEFINE d == <<c>>
           u == a \o d
           w == u \o b
<1>1. d \in Seq(S) /\ Len(d) = 1 /\ d[1] = c
  OBVIOUS
<1> HIDE DEF d
<1>2. a \in Seq(S) /\ Len(a) = m /\ b \in Seq(S) /\ Len(b) = x
  BY Zenon DEF IsSlice
<1>3. \A i \in 1..m : a[i] = e[0 + i]
  BY Zenon DEF IsSlice
<1>4. \A i \in 1..x : b[i] = e[m + 1 + i]
  BY Zenon DEF IsSlice
<1>5. IsJoin(u, a, d, S, m, 1)
  BY <1>1, <1>2, IsJoinOf
<1> HIDE DEF u
<1>6. u \in Seq(S) /\ Len(u) = m + 1 /\ \A i \in 1..m + 1 : u[i] = IF i <= m THEN a[i] ELSE d[i - m]
  BY <1>5, Zenon DEF IsJoin
<1>7. IsJoin(w, u, b, S, m + 1, x)
  <2>1. m + 1 \in Nat
    OBVIOUS
  <2> QED BY <1>2, <1>6, <2>1, IsJoinOf, Zenon
<1> HIDE DEF w
<1>8. /\ w \in Seq(S) /\ Len(w) = m + 1 + x
      /\ \A i \in 1..m + 1 + x : w[i] = IF i <= m + 1 THEN u[i] ELSE b[i - (m + 1)]
  BY <1>7, Zenon DEF IsJoin
<1>9. ASSUME NEW i \in 1..m + 1 + x PROVE w[i] = e[i]
  <2>1. CASE i <= m
    <3>1. i \in 1..m /\ i \in 1..m + 1 /\ i <= m + 1 /\ 0 + i = i
      BY <2>1
    <3> QED BY <1>3, <1>6, <1>8, <2>1, <3>1, Zenon
  <2>2. CASE i = m + 1
    <3>1. i \in 1..m + 1 /\ ~(i <= m) /\ i <= m + 1 /\ i - m = 1
      BY <2>2
    <3>2. w[i] = d[1]
      BY <1>6, <1>8, <3>1, Zenon
    <3> QED BY <1>1, <2>2, <3>2, Zenon
  <2>3. CASE ~(i <= m + 1)
    <3>1. i - (m + 1) \in 1..x /\ m + 1 + (i - (m + 1)) = i
      BY <2>3
    <3> QED BY <1>4, <1>8, <2>3, <3>1, Zenon
  <2> QED BY <2>1, <2>2, <2>3
<1>10. w = e
  BY <1>8, <1>9, SeqEqual
<1> QED BY <1>10, Zenon DEF w, u, d, Joins

\* No character of a name is a blank.
NoBlank(e) == \A i \in 1..Len(e) : e[i] # " "

\* The name that fcb_to_path makes of the record of a name is the name.
LEMMA NameBack ==
  ASSUME NEW S, NEW e, NEW m, NEW x, Dotted(e, S, m, x), Position(e, ".") = m + 1, NoBlank(e),
         NEW path
  PROVE  fcb_to_path(path, fcbitize(e)) = SubSeq(path, 1, LastPosition(path, "\\")) \o e
<1> DEFINE f == Record(e, m, x)
<1>1. fcbitize(e) = f
  BY FcbitizeIs
<1>2. /\ e \in Seq(S) /\ HasBlank(S) /\ Len(e) = m + 1 + x /\ m \in 1..NameLen /\ x \in 1..ExtLen
  BY Zenon DEF Dotted
<1>3. PICK j \in Nat, l \in Nat : NameLen = m + j /\ ExtLen = x + l /\ m \in Nat /\ x \in Nat /\ m # 0
  <2>1. /\ NameLen - m \in Nat /\ ExtLen - x \in Nat /\ NameLen = m + (NameLen - m)
        /\ ExtLen = x + (ExtLen - x) /\ m \in Nat /\ x \in Nat /\ m # 0
    BY <1>2, Sizes
  <2> QED BY <2>1
<1>4. PICK b : b = " "
  OBVIOUS
<1>5. \A i \in 1..m + 1 + x : e[i] \in S /\ e[i] # b
  <2>1. \A i \in 1..Len(e) : e[i] \in S
    BY <1>2, ElementOfSeq
  <2> QED BY <1>2, <1>4, <2>1, Zenon DEF NoBlank
<1>6. b \in S
  BY <1>2, <1>4, Zenon DEF HasBlank
<1>7. f = [i \in 1..m + j + (x + l) |->
             IF i <= m THEN e[i]
             ELSE IF m + j < i /\ i <= m + j + x THEN e[m + 1 + (i - (m + j))]
             ELSE b]
  BY <1>3, <1>4, Sizes, Zenon DEF Record
<1> HIDE DEF f
<1>8. \A i \in 1..m + j + (x + l) : f[i] \in S
  <2> TAKE i \in 1..m + j + (x + l)
  <2>1. f[i] = IF i <= m THEN e[i]
               ELSE IF m + j < i /\ i <= m + j + x THEN e[m + 1 + (i - (m + j))]
               ELSE b
    BY <1>7, Zenon
  <2>2. CASE i <= m
    <3>1. i \in 1..m + 1 + x
      BY <1>3, <2>2
    <3> QED BY <1>5, <2>1, <2>2, <3>1, Zenon
  <2>3. CASE ~(i <= m) /\ m + j < i /\ i <= m + j + x
    <3>1. m + 1 + (i - (m + j)) \in 1..m + 1 + x
      BY <1>3, <2>3
    <3> QED BY <1>5, <2>1, <2>3, <3>1, Zenon
  <2>4. CASE ~(i <= m) /\ ~(m + j < i /\ i <= m + j + x)
    BY <1>6, <2>1, <2>4, Zenon
  <2> QED BY <2>2, <2>3, <2>4
<1>9. f \in Seq(S) /\ Len(f) = m + j + (x + l)
  <2>1. m + j + (x + l) \in Nat
    BY <1>3
  <2>2. f = [i \in 1..m + j + (x + l) |-> f[i]]
    BY <1>7
  <2>3. \A n \in Nat : (\A i \in 1..n : f[i] \in S) => [i \in 1..n |-> f[i]] \in Seq(S) /\ Len([i \in 1..n |-> f[i]]) = n
    OBVIOUS
  <2> QED BY <1>8, <2>1, <2>2, <2>3, Zenon
<1>10. \A i \in 1..m : f[0 + i] = e[0 + i] /\ e[0 + i] # b
  <2> TAKE i \in 1..m
  <2>1. i \in 1..m + j + (x + l) /\ i <= m /\ i \in 1..m + 1 + x /\ 0 + i = i
    BY <1>3
  <2> QED BY <1>5, <1>7, <2>1, Zenon
<1>11. j # 0 => f[0 + (m + 1)] = b
  <2>1. j # 0 => /\ 0 + (m + 1) \in 1..m + j + (x + l) /\ ~(0 + (m + 1) <= m)
                 /\ ~(m + j < 0 + (m + 1))
    BY <1>3
  <2> QED BY <1>7, <2>1, Zenon
<1>12. \A i \in 1..x : f[m + j + i] = e[m + 1 + i] /\ e[m + 1 + i] # b
  <2> TAKE i \in 1..x
  <2>1. PICK q \in 1..m + j + (x + l) :
          /\ q = m + j + i /\ ~(q <= m) /\ m + j < q /\ q <= m + j + x
          /\ m + 1 + i \in 1..m + 1 + x /\ m + 1 + (q - (m + j)) = m + 1 + i
    BY <1>3
  <2>2. f[q] = e[m + 1 + (q - (m + j))]
    BY <1>7, <2>1, Zenon
  <2> QED BY <1>5, <2>1, <2>2, Zenon
<1>13. l # 0 => f[m + j + (x + 1)] = b
  <2>1. l # 0 => /\ m + j + (x + 1) \in 1..m + j + (x + l) /\ ~(m + j + (x + 1) <= m)
                 /\ ~(m + j + (x + 1) <= m + j + x)
    BY <1>3
  <2> QED BY <1>7, <2>1, Zenon
<1>14. IsSlice(UpTo(SubSeq(f, 1, NameLen), " "), e, S, 0, m)
  <2>1. Len(f) = 0 + (m + j) + (x + l) /\ m + j \in Nat /\ x + l \in Nat /\ 0 \in Nat
    BY <1>3, <1>9
  <2>2. IsSlice(UpTo(SubSeq(f, 0 + 1, 0 + (m + j)), b), e, S, 0, m)
    BY <1>2, <1>3, <1>9, <1>10, <1>11, <2>1, FieldBack, Zenon
  <2>3. 0 + 1 = 1 /\ 0 + (m + j) = NameLen
    BY <1>3
  <2> QED BY <1>4, <2>2, <2>3, Zenon
<1>15. IsSlice(UpTo(From(f, NameLen + 1), " "), e, S, m + 1, x)
  <2>1. Len(f) = m + j + (x + l) + 0 /\ m + j \in Nat /\ x + l \in Nat /\ 0 \in Nat /\ m + 1 \in Nat
    BY <1>3, <1>9
  <2>2. IsSlice(UpTo(SubSeq(f, m + j + 1, m + j + (x + l)), b), e, S, m + 1, x)
    BY <1>2, <1>3, <1>9, <1>12, <1>13, <2>1, FieldBack, Zenon
  <2>3. From(f, NameLen + 1) = SubSeq(f, m + j + 1, m + j + (x + l))
    BY <1>3, <1>9, Zenon DEF From
  <2> QED BY <1>4, <2>2, <2>3, Zenon
<1>16. PICK d : d = "." /\ e[m + 1] = d /\ d \in S
  <2>1. e[m + 1] = "."
    BY Zenon DEF Dotted
  <2>2. m + 1 \in 1..m + 1 + x
    BY <1>3
  <2> QED BY <1>5, <2>1, <2>2, Zenon
<1>17. UpTo(SubSeq(f, 1, NameLen), " ") \o <<".">> \o UpTo(From(f, NameLen + 1), " ") = e
  <2>1. UpTo(SubSeq(f, 1, NameLen), " ") \o <<d>> \o UpTo(From(f, NameLen + 1), " ") = e
    <3>1. PICK a, c : /\ a = UpTo(SubSeq(f, 1, NameLen), " ") /\ c = UpTo(From(f, NameLen + 1), " ")
                      /\ IsSlice(a, e, S, 0, m) /\ IsSlice(c, e, S, m + 1, x)
      BY <1>14, <1>15, Zenon
    <3>2. d \in S /\ e[m + 1] = d
      BY <1>16
    <3>3. m \in Nat /\ x \in Nat
      BY <1>3
    <3>4. e \in Seq(S) /\ Len(e) = m + 1 + x
      BY <1>2
    <3>5. Joins(a, d, c, e)
      BY <3>1, <3>2, <3>3, <3>4, DotJoins
    <3> QED BY <3>1, <3>5, Zenon DEF Joins
  <2> QED BY <1>16, <2>1, Zenon
<1>18. f[1] # " "
  <2>1. 1 \in 1..m /\ 0 + 1 = 1
    BY <1>3
  <2>2. f[0 + 1] # b
    BY <1>10, <2>1, Zenon
  <2> QED BY <1>4, <2>1, <2>2, Zenon
<1>19. fcb_to_path(path, f) = SubSeq(path, 1, LastPosition(path, "\\")) \o
         (UpTo(SubSeq(f, 1, NameLen), " ") \o <<".">> \o UpTo(From(f, NameLen + 1), " "))
  BY <1>18, Zenon DEF fcb_to_path
<1> QED BY <1>1, <1>17, <1>19, Zenon

\* Room that is left.
LEMMA Slack ==
  ASSUME NEW a \in Nat, NEW b \in Nat, NEW c \in Nat, a + 1 + b <= c
  PROVE  \E j \in Nat : a + 1 + b + j = c
<1>1. c - (a + 1 + b) \in Nat /\ a + 1 + b + (c - (a + 1 + b)) = c
  OBVIOUS
<1> QED BY <1>1

\* The texts of the model are sequences of characters.
LEMMA VolumeIsText ==
  ASSUME NEW url \in Shares
  PROVE  Volume(url) \in Seq(ToSet(url))
<1>1. url \in Seq(ToSet(url)) /\ url # <<>>
  BY PathsAssumption, Zenon DEF IsText
<1>2. Front(url) \in Seq(ToSet(url))
  BY <1>1 DEF Front
<1> QED BY <1>1, <1>2, Zenon DEF Volume

LEMMA BelowIsText ==
  ASSUME NEW S, NEW p \in Seq(S)
  PROVE  Below(p) \in Seq(S) /\ Directory(p) \in Seq(S)
<1>1. Below(p) \in Seq(S)
  <2>1. Position(p, "\\") \in 0..Len(p)
    BY PositionIs
  <2> QED BY <2>1, DropType, Zenon DEF Below, From
<1>2. LastPosition(Below(p), "\\") \in 0..Len(Below(p))
  BY <1>1, LastPositionIs
<1>3. Directory(p) \in Seq(S)
  BY <1>1, <1>2, TakeType, Zenon DEF Directory
<1> QED BY <1>1, <1>3

\* A path of DOS reaches the server under the volume's name.
LEMMA PathIsSent ==
  ASSUME NEW url \in Shares, NEW path \in DosPaths
  PROVE  path_with_volume(Volume(url), <<>>, undosify_path(path)) =
           Volume(url) \o <<"/">> \o Slashed(Below(path))
<1>1. /\ path \in Seq(ToSet(path)) /\ Position(path, "\\") # 0
      /\ Len(Volume(url)) + 1 + Len(Below(path)) <= PATHLEN
  BY PathsAssumption, Zenon DEF IsText
<1> DEFINE S == ToSet(url) \cup ToSet(path)
<1>2. Volume(url) \in Seq(S) /\ path \in Seq(S)
  <2>1. ToSet(url) \subseteq S /\ ToSet(path) \subseteq S
    BY Zenon
  <2> HIDE DEF S
  <2> QED BY <1>1, <2>1, VolumeIsText, SeqWider, Zenon
<1> HIDE DEF S
<1>3. Len(Volume(url)) \in Nat /\ Len(Below(path)) \in Nat
  BY <1>2, BelowIsText, LenProperties
<1>4. PICK j \in Nat : Len(Volume(url)) + 1 + Len(Below(path)) + j = PATHLEN
  <2>1. PICK v \in Nat, b \in Nat : v = Len(Volume(url)) /\ b = Len(Below(path))
    BY <1>3
  <2>2. v + 1 + b <= PATHLEN
    BY <1>1, <2>1, Zenon
  <2>3. PICK j \in Nat : v + 1 + b + j = PATHLEN
    BY <2>2, Sizes, Slack
  <2> QED BY <2>1, <2>3, Zenon
<1> QED BY <1>1, <1>2, <1>4, RemoteIs, Zenon

\* The name of a file that is to be deleted is made of its record in DOS's form, and reaches
\* the server as it was listed.
LEMMA NameIsSent ==
  ASSUME NEW url \in Shares, NEW path \in DosPaths, NEW e \in Listing, FitsRecord(e)
  PROVE  path_with_volume(Volume(url), <<>>, undosify_path(fcb_to_path(path, fcbitize(e)))) =
           Volume(url) \o <<"/">> \o Slashed(Directory(path) \o e)
<1>1. /\ path \in Seq(ToSet(path)) /\ Position(path, "\\") # 0
      /\ Len(Volume(url)) + 1 + (Len(Directory(path)) + FcbLen + 1) <= PATHLEN
  BY PathsAssumption, Zenon DEF IsText
<1>2. e \in Seq(ToSet(e)) /\ " " \notin ToSet(e)
  BY ListingAssumption, Zenon DEF IsText
<1> DEFINE S == ToSet(url) \cup ToSet(path) \cup ToSet(e) \cup {" "}
           t == fcb_to_path(path, fcbitize(e))
<1>3. Volume(url) \in Seq(S) /\ path \in Seq(S) /\ e \in Seq(S) /\ HasBlank(S)
  <2>1. ToSet(url) \subseteq S /\ ToSet(path) \subseteq S /\ ToSet(e) \subseteq S /\ HasBlank(S)
    BY Zenon DEF HasBlank
  <2> HIDE DEF S
  <2> QED BY <1>1, <1>2, <2>1, VolumeIsText, SeqWider, Zenon
<1>4. NoBlank(e)
  <2>1. \A i \in 1..Len(e) : e[i] \in ToSet(e)
    BY <1>2, ElementOfSeq
  <2> QED BY <1>2, <2>1, Zenon DEF NoBlank
<1> HIDE DEF S, t
<1>5. PICK m, x : Dotted(e, S, m, x) /\ Position(e, ".") = m + 1
  BY <1>3, FitsIsDotted
<1>6. t = SubSeq(path, 1, LastPosition(path, "\\")) \o e
  BY <1>4, <1>5, NameBack, Zenon DEF t
<1>7. PICK c : c = "\\"
  OBVIOUS
<1>8. InPlace(t, path, e, c, S)
  <2>1. Position(path, c) # 0 /\ t = SubSeq(path, 1, LastPosition(path, c)) \o e
    BY <1>1, <1>6, <1>7, Zenon
  <2> QED BY <1>3, <2>1, NameInPlace
<1>9. /\ t \in Seq(S) /\ Position(t, "\\") # 0
      /\ Below(t) = Directory(path) \o e
  BY <1>1, <1>7, <1>8, Zenon DEF InPlace, Behind, Below, Directory, From
<1>10. PICK j \in Nat : Len(Volume(url)) + 1 + Len(Below(t)) + j = PATHLEN
  <2>1. PICK v \in Nat, d \in Nat, k \in Nat :
          v = Len(Volume(url)) /\ d = Len(Directory(path)) /\ k = Len(e)
    BY <1>3, BelowIsText, LenProperties
  <2>2. Len(Below(t)) = d + k
    <3>1. Directory(path) \in Seq(S)
      BY <1>3, BelowIsText
    <3>2. Len(Directory(path) \o e) = Len(Directory(path)) + Len(e)
      BY <1>3, <3>1, ConcatProperties
    <3> QED BY <1>9, <2>1, <3>2, Zenon
  <2>3. k = m + 1 + x /\ m \in 1..NameLen /\ x \in 1..ExtLen
    BY <1>5, <2>1, Zenon DEF Dotted
  <2>4. v + 1 + (d + FcbLen + 1) <= PATHLEN
    BY <1>1, <2>1, Zenon
  <2>5. v + 1 + (d + k) <= PATHLEN /\ d + k \in Nat
    BY <2>3, <2>4, Sizes
  <2>6. PICK j \in Nat : v + 1 + (d + k) + j = PATHLEN
    BY <2>5, Sizes, Slack
  <2> QED BY <2>1, <2>2, <2>6, Zenon
<1>11. path_with_volume(Volume(url), <<>>, undosify_path(t)) =
         Volume(url) \o <<"/">> \o Slashed(Below(t))
  BY <1>3, <1>9, <1>10, RemoteIs, Zenon
<1> QED BY <1>9, <1>11, Zenon DEF t

\* Every copy that is or was there has the name of a share.
Mapped == \A n \in Copies : memory[n] # "none" => \E url \in Shares : copy[n].volume = Volume(url)

LEMMA UrlIs ==
  ASSUME NEW n \in Copies, NEW url \in Shares, copy[n].volume = Volume(url)
  PROVE  UrlOf(n) = Volume(url)
<1>1. copy[n].volume \in {Volume(u) : u \in Shares}
  BY Zenon
<1> QED BY <1>1, Zenon DEF UrlOf

LEMMA SameMapped == Mapped /\ UNCHANGED <<memory, copy>> => Mapped'
BY Zenon DEF Mapped

LEMMA NextMapped == Inv /\ Mapped /\ [Next]_vars => Mapped'
<1> SUFFICES ASSUME Inv, Mapped, [Next]_vars PROVE Mapped'
  OBVIOUS
<1>0. Types
  BY DEF Inv
<1>1. ASSUME NEW d, NEW url \in Shares, set_up_cds(d, url) PROVE Mapped'
  <2>1. PICK n \in Copies : /\ memory' = [memory EXCEPT ![n] = "loading"]
                            /\ copy' = [copy EXCEPT ![n] = [drive |-> d, volume |-> Volume(url)]]
    BY <1>1, Zenon DEF set_up_cds
  <2>2. ASSUME NEW k \in Copies, memory'[k] # "none"
        PROVE  \E u \in Shares : copy'[k].volume = Volume(u)
    <3>1. CASE k = n
      <4>1. copy'[k] = [drive |-> d, volume |-> Volume(url)]
        BY <1>0, <2>1, <3>1 DEF Types
      <4>2. copy'[k].volume = Volume(url)
        BY <4>1
      <4> QED BY <4>2
    <3>2. CASE k # n
      <4>1. copy'[k] = copy[k] /\ memory'[k] = memory[k]
        BY <1>0, <2>1, <3>2 DEF Types, Handlers
      <4> QED BY <2>2, <4>1 DEF Mapped
    <3> QED BY <3>1, <3>2
  <2> QED BY <2>2, Zenon DEF Mapped
<1>2. ASSUME NEW h, NEW s, s # "none", h \in Handlers => memory[h] # "none" \/ h \notin Copies,
             memory' = [memory EXCEPT ![h] = s], UNCHANGED copy
      PROVE  Mapped'
  <2> SUFFICES ASSUME NEW k \in Copies, memory'[k] # "none"
               PROVE  \E u \in Shares : copy'[k].volume = Volume(u)
    BY Zenon DEF Mapped
  <2>1. memory[k] # "none"
    BY <1>0, <1>2 DEF Types, Handlers
  <2> QED BY <1>2, <2>1 DEF Mapped
<1>3. ASSUME NEW n \in Copies, Break(n) \/ tsr(n) PROVE Mapped'
  <2>1. /\ n \in Handlers /\ memory[n] # "none" /\ UNCHANGED copy
        /\ memory' = [memory EXCEPT ![n] = "gone"] \/ memory' = [memory EXCEPT ![n] = "loaded"]
    BY <1>3 DEF Break, tsr, Loading, Handlers
  <2> QED BY <1>2, <2>1
<1>4. CASE unload_latest
  <2>1. PICK n : UNCHANGED copy /\ memory' = [memory EXCEPT ![n] = "gone"] /\ vect2f = n /\ n \in Copies
    <3>1. Signed # {}
      BY <1>4 DEF unload_latest
    <3>2. Highest(Signed) \in Signed
      BY <3>1, HighestIsThere DEF Signed
    <3> QED BY <1>4, <3>2 DEF unload_latest, OnTop, Signed
  <2>2. memory[n] # "none"
    BY <2>1 DEF Inv, ChainResident, Resident, Copies, DOS
  <2> QED BY <1>2, <2>1, <2>2
<1>5. ASSUME NEW o \in Others, HookOther(o) \/ UnhookOther(o) PROVE Mapped'
  <2>1. o \notin Copies
    BY HandlersAreNot
  <2>2. UNCHANGED copy /\ (memory' = [memory EXCEPT ![o] = "gone"] \/ memory' = [memory EXCEPT ![o] = "loaded"])
    BY <1>5 DEF HookOther, UnhookOther
  <2> QED BY <1>2, <2>1, <2>2
<1>6. ASSUME UNCHANGED <<memory, copy>> PROVE Mapped'
  BY <1>6, SameMapped
<1>7. CASE Call \/ Return \/ UNCHANGED vars \/ \E i \in UserInts : UserIntOfOther(i)
  <2>1. UNCHANGED <<memory, copy>>
    BY <1>7, CallChangesNone DEF UserIntOfOther, vars, Return, chainVars
  <2> QED BY <1>6, <2>1
<1> QED BY <1>1, <1>3, <1>4, <1>5, <1>7 DEF Next, Step

\* The server hears the directory that was mapped and behind a slash the path below the root, in
\* small letters and with slashes, and a file that delete_files finds by its name in DOS's
\* records is deleted by its own name: no copy is resident without the volume of a share, the
\* path is never cut off, and fcb_to_path undoes what fcbitize did (redir.c:98-176, 621-645).
THEOREM PathGoesToShareHolds == Spec => []PathGoesToShare
<1>1. Init => Mapped /\ PathGoesToShare
  <2> SUFFICES ASSUME Init PROVE Mapped /\ PathGoesToShare
    OBVIOUS
  <2>1. \A n \in Copies : memory[n] = "none"
    BY DEF Init
  <2>2. answer.by = DOS
    BY DEF Init, NoAnswer
  <2> QED BY <2>1, <2>2, Zenon DEF Mapped, PathGoesToShare
<1>2. Inv /\ LinkInv /\ Mapped /\ PathGoesToShare /\ [Next]_vars => PathGoesToShare'
  <2> SUFFICES ASSUME Inv, LinkInv, Mapped, PathGoesToShare, [Next]_vars PROVE PathGoesToShare'
    OBVIOUS
  <2>1. ASSUME UNCHANGED <<answer, copy>> PROVE PathGoesToShare'
    BY <2>1, Zenon DEF PathGoesToShare, UrlOf
  <2>2. ASSUME answer'.by = DOS PROVE PathGoesToShare'
    BY <2>2, Zenon DEF PathGoesToShare
  <2>3. ASSUME answer'.fn \notin {SUBF.OPENEXTENDED, SUBF.CHDIR, SUBF.DELETE} PROVE PathGoesToShare'
    BY <2>3, Zenon DEF PathGoesToShare
  <2>4. SUBF.DELETE \notin {SUBF.OPENEXTENDED, SUBF.CHDIR}
    BY DEF SUBF
  <2>5. CASE UNCHANGED vars
    BY <2>1, <2>5 DEF vars
  <2>6. ASSUME NEW d, NEW url, set_up_cds(d, url) PROVE PathGoesToShare'
    <3>1. answer'.by = DOS
      BY <2>6 DEF set_up_cds, AtPrompt, NoAnswer
    <3> QED BY <2>2, <3>1
  <2>7. CASE Step /\ UNCHANGED copy
    BY <2>1, <2>7 DEF Step, set_up_cds, Break, tsr, unload_latest, HookOther, UnhookOther,
                      UserIntOfOther
  <2>8. Step => UNCHANGED copy \/ \E d, url : set_up_cds(d, url)
    BY DEF Step, Break, tsr, unload_latest, HookOther, UnhookOther, UserIntOfOther
  <2>9. CASE Return
    <3>1. answer'.by = DOS
      BY <2>9 DEF Return, NoAnswer
    <3> QED BY <2>2, <3>1
  <2>10. CASE Inquiry \/ FindNext
    <3>1. answer'.fn \in {SUBF.INQUIRY, SUBF.FINDNEXT}
      BY <2>10 DEF Inquiry, FindNext, Answer
    <3>2. {SUBF.INQUIRY, SUBF.FINDNEXT} \cap {SUBF.OPENEXTENDED, SUBF.CHDIR, SUBF.DELETE} = {}
      BY DEF SUBF
    <3> QED BY <2>3, <3>1, <3>2
  <2>11. ASSUME NEW d, NEW path, NEW label, FindFirst(d, path, label) PROVE PathGoesToShare'
    <3>1. answer'.fn = SUBF.FINDFIRST
      BY <2>11 DEF FindFirst, Answer
    <3>2. SUBF.FINDFIRST \notin {SUBF.OPENEXTENDED, SUBF.CHDIR, SUBF.DELETE}
      BY DEF SUBF
    <3> QED BY <2>3, <3>1, <3>2
  <2>12. ASSUME NEW fn \in FileCalls, NEW s \in Sfts, ByHandle(fn, s) PROVE PathGoesToShare'
    <3>1. answer'.fn = fn
      BY <2>12 DEF ByHandle, Answer
    <3>2. FileCalls \cap {SUBF.OPENEXTENDED, SUBF.CHDIR, SUBF.DELETE} = {}
      BY DEF SUBF, FileCalls
    <3> QED BY <2>3, <3>1, <3>2
  <2>13. ASSUME NEW path \in DosPaths, NEW fn, NEW n, NEW due, NEW seen, UNCHANGED copy,
                fn \in {SUBF.OPENEXTENDED, SUBF.CHDIR}, n # DOS => n \in Copies /\ memory[n] # "none",
                Answer(fn, due, n, path, Remote(n, path), seen)
         PROVE  PathGoesToShare'
    <3>1. CASE n = DOS
      BY <2>2, <2>13, <3>1 DEF Answer
    <3>2. CASE n # DOS
      <4>1. PICK url \in Shares : copy[n].volume = Volume(url)
        BY <2>13, <3>2 DEF Mapped
      <4>2. UrlOf(n) = Volume(url)
        BY <2>13, <3>2, <4>1, UrlIs
      <4>3. Remote(n, path) = Volume(url) \o <<"/">> \o Slashed(Below(path))
        BY <3>2, <4>1, PathIsSent, Zenon DEF Remote
      <4>4. answer'.fn = fn /\ answer'.by = n /\ answer'.asked = path /\ answer'.sent = Remote(n, path)
        BY <2>13, Zenon DEF Answer
      <4>5. UrlOf(n)' = UrlOf(n)
        BY <2>13, Zenon DEF UrlOf
      <4>6. fn # SUBF.DELETE
        BY <2>4, <2>13
      <4> QED BY <4>2, <4>3, <4>4, <4>5, <4>6, Zenon DEF PathGoesToShare, UrlOf
    <3> QED BY <3>1, <3>2
  <2>14. ASSUME NEW d, NEW path \in DosPaths, NEW fn \in PathCalls, ByPath(fn, d, path)
         PROVE  PathGoesToShare'
    <3>0. PICK n : n = redirector(fn, d, 0)
      OBVIOUS
    <3>1. n # DOS => n \in Copies /\ memory[n] # "none"
      <4>1. n # DOS => n \in Copies /\ memory[n] = "loaded"
        BY <3>0, TakerWas, Zenon
      <4> QED BY <4>1
    <3>2. UNCHANGED copy
      BY <2>14 DEF ByPath, Calls, chainVars
    <3>3. CASE fn = SUBF.CHDIR
      <4>1. Answer(fn, ForDrive(d), n, path, Remote(n, path), <<>>)
        BY <2>14, <3>0, <3>3, Zenon DEF ByPath
      <4>2. fn \in {SUBF.OPENEXTENDED, SUBF.CHDIR}
        BY <3>3
      <4> QED BY <2>13, <3>1, <3>2, <4>1, <4>2
    <3>4. CASE fn # SUBF.CHDIR
      <4>1. answer'.fn = fn
        BY <2>14, <3>4 DEF ByPath, Answer
      <4>2. fn \notin {SUBF.OPENEXTENDED, SUBF.CHDIR, SUBF.DELETE}
        BY <3>4 DEF PathCalls, SUBF
      <4> QED BY <2>3, <4>1, <4>2
    <3> QED BY <3>3, <3>4
  <2>15. ASSUME NEW s, NEW d, NEW path \in DosPaths, Open(s, d, path) PROVE PathGoesToShare'
    <3>0. PICK n : n = redirector(SUBF.OPENEXTENDED, d, 0)
      OBVIOUS
    <3>1. n # DOS => n \in Copies /\ memory[n] # "none"
      <4>1. n # DOS => n \in Copies /\ memory[n] = "loaded"
        BY <3>0, TakerWas, Zenon
      <4> QED BY <4>1
    <3>2. UNCHANGED copy
      BY <2>15 DEF Open, Calls, chainVars
    <3>3. Answer(SUBF.OPENEXTENDED, ForDrive(d), n, path, Remote(n, path), <<>>)
      BY <2>15, <3>0, Zenon DEF Open
    <3>4. SUBF.OPENEXTENDED \in {SUBF.OPENEXTENDED, SUBF.CHDIR}
      OBVIOUS
    <3> QED BY <2>13, <3>1, <3>2, <3>3, <3>4
  <2>16. ASSUME NEW d, NEW path \in DosPaths, Delete(d, path) PROVE PathGoesToShare'
    <3>0. PICK n : n = redirector(SUBF.DELETE, d, 0)
      OBVIOUS
    <3>1. n # DOS => n \in Copies /\ memory[n] # "none"
      <4>1. n # DOS => n \in Copies /\ memory[n] = "loaded"
        BY <3>0, TakerWas, Zenon
      <4> QED BY <4>1
    <3>2. UNCHANGED copy
      BY <2>16 DEF Delete, Calls, chainVars
    <3>3. CASE n = DOS
      <4>1. answer'.by = DOS
        BY <2>16, <3>0, <3>3 DEF Delete, Answer
      <4> QED BY <2>2, <4>1
    <3>4. CASE n # DOS
      <4>1. PICK e \in Listing :
              Answer(SUBF.DELETE, ForDrive(d), n, <<e, path>>,
                     Remote(n, fcb_to_path(path, fcbitize(e))), <<>>)
        BY <2>16, <3>0, <3>4, Zenon DEF Delete
      <4>2. PICK url \in Shares : copy[n].volume = Volume(url)
        BY <3>1, <3>4 DEF Mapped
      <4>3. UrlOf(n) = Volume(url)
        BY <3>1, <3>4, <4>2, UrlIs
      <4>4. FitsRecord(e) => Remote(n, fcb_to_path(path, fcbitize(e))) =
                               Volume(url) \o <<"/">> \o Slashed(Directory(path) \o e)
        BY <3>4, <4>2, NameIsSent, Zenon DEF Remote
      <4>5. /\ answer'.fn = SUBF.DELETE /\ answer'.by = n /\ answer'.asked = <<e, path>>
            /\ answer'.sent = Remote(n, fcb_to_path(path, fcbitize(e)))
        BY <4>1, Zenon DEF Answer
      <4>6. answer'.asked[1] = e /\ answer'.asked[2] = path
        BY <4>5
      <4>7. UrlOf(n)' = UrlOf(n)
        BY <3>2, Zenon DEF UrlOf
      <4> QED BY <2>4, <4>3, <4>4, <4>5, <4>6, <4>7, Zenon DEF PathGoesToShare, UrlOf
    <3> QED BY <3>3, <3>4
  <2>17. CASE Step
    BY <2>6, <2>7, <2>8, <2>17, Zenon
  <2> QED BY <2>5, <2>9, <2>10, <2>11, <2>12, <2>14, <2>15, <2>16, <2>17 DEF Next, Call
<1>3. Inv /\ Mapped /\ [Next]_vars => Mapped'
  BY NextMapped
<1> QED BY <1>1, <1>2, <1>3, SpecLink, PTL DEF Spec
=============================================================================
