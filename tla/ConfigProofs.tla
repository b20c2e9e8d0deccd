----------------------------- MODULE ConfigProofs -----------------------------
(***************************************************************************)
(* Proofs about the configuration store under ConfigService, for every set *)
(* of configurations and every generation counter that satisfy the         *)
(* assumptions on the constants.                                           *)
(***************************************************************************)
EXTENDS ConfigService, TLAPS

(* Generations: arithmetic modulo GenMod.                                  *)

\* What % means, in a form that needs no further reasoning about division.
LEMMA ModOf ==
  ASSUME NEW m \in Nat \ {0}, NEW q \in Int, NEW r \in 0..(m - 1)
  PROVE  (m * q + r) % m = r
<1> DEFINE n == m * q + r
<1>1. n \in Int
  OBVIOUS
<1>2. n = m * (n \div m) + (n % m) /\ n % m \in 0..(m - 1) /\ n \div m \in Int
  BY <1>1, Z3
<1>3. m * (q - n \div m) = (n % m) - r
  BY <1>2
<1>4. q - n \div m = 0
  <2> DEFINE k == q - n \div m
  <2>1. k \in Int /\ m * k = (n % m) - r
    BY <1>2, <1>3
  <2> HIDE DEF k, n
  <2>2. ASSUME k >= 1 PROVE FALSE
    <3>1. m * k >= m * 1
      BY <2>1, <2>2
    <3>2. QED
      BY <1>2, <2>1, <3>1
  <2>3. ASSUME k <= -1 PROVE FALSE
    <3>1. m * k <= m * (-1)
      BY <2>1, <2>3
    <3>2. QED
      BY <1>2, <2>1, <3>1
  <2>4. QED
    BY <2>1, <2>2, <2>3 DEF k
<1> QED
  BY <1>2, <1>4

\* The generation that follows g.
Succ(g) == IF g + 1 = GenMod THEN 0 ELSE g + 1

\* NextGeneration of ConfigStore is that.
LEMMA NextIsSucc ==
  ASSUME generation \in Generations
  PROVE  NextGeneration = Succ(generation) /\ NextGeneration \in Generations
<1>1. GenMod \in Nat \ {0} /\ generation \in 0..(GenMod - 1) /\ GenMod >= 4
  BY StoreAssumption DEF Generations
<1>2. CASE generation + 1 = GenMod
  <2>1. (GenMod * 1 + 0) % GenMod = 0
    BY <1>1, ModOf
  <2>2. QED
    BY <1>1, <1>2, <2>1 DEF NextGeneration, Succ, Generations
<1>3. CASE generation + 1 # GenMod
  <2>1. generation + 1 \in 0..(GenMod - 1)
    BY <1>1, <1>3
  <2>2. (GenMod * 0 + (generation + 1)) % GenMod = generation + 1
    BY <1>1, <2>1, ModOf
  <2>3. QED
    BY <1>1, <1>3, <2>1, <2>2 DEF NextGeneration, Succ, Generations
<1> QED
  BY <1>2, <1>3

\* Of two consecutive generations the wrapping comparison finds the newer,
\* across the wrap as well.
LEMMA SuccIsNewer ==
  ASSUME NEW g \in Generations
  PROVE  /\ Succ(g) \in Generations /\ Succ(Succ(g)) # g /\ Succ(g) # g
         /\ (Succ(g) - g) % GenMod = 1
         /\ (g - Succ(g)) % GenMod = GenMod - 1
         /\ IsNewer(Succ(g), g) /\ ~IsNewer(g, Succ(g))
<1>1. GenMod \in Nat \ {0} /\ g \in 0..(GenMod - 1) /\ GenMod >= 4
  BY StoreAssumption DEF Generations
<1>2. Succ(g) \in Generations /\ Succ(Succ(g)) # g /\ Succ(g) # g
  BY <1>1 DEF Succ, Generations
<1>3. (Succ(g) - g) % GenMod = 1
  <2>1. CASE g + 1 = GenMod
    <3>1. (GenMod * (-1) + 1) % GenMod = 1
      BY <1>1, ModOf
    <3>2. Succ(g) - g = GenMod * (-1) + 1
      BY <1>1, <2>1 DEF Succ
    <3>3. QED
      BY <3>1, <3>2
  <2>2. CASE g + 1 # GenMod
    <3>1. (GenMod * 0 + 1) % GenMod = 1
      BY <1>1, ModOf
    <3>2. Succ(g) - g = GenMod * 0 + 1
      BY <1>1, <2>2 DEF Succ
    <3>3. QED
      BY <3>1, <3>2
  <2>3. QED
    BY <2>1, <2>2
<1>4. (g - Succ(g)) % GenMod = GenMod - 1
  <2>1. CASE g + 1 = GenMod
    <3>1. (GenMod * 0 + (GenMod - 1)) % GenMod = GenMod - 1
      BY <1>1, ModOf
    <3>2. g - Succ(g) = GenMod * 0 + (GenMod - 1)
      BY <1>1, <2>1 DEF Succ
    <3>3. QED
      BY <3>1, <3>2
  <2>2. CASE g + 1 # GenMod
    <3>1. (GenMod * (-1) + (GenMod - 1)) % GenMod = GenMod - 1
      BY <1>1, ModOf
    <3>2. g - Succ(g) = GenMod * (-1) + (GenMod - 1)
      BY <1>1, <2>2 DEF Succ
    <3>3. QED
      BY <3>1, <3>2
  <2>3. QED
    BY <2>1, <2>2
<1>5. 1 <= GenMod \div 2 - 1 /\ GenMod - 1 > GenMod \div 2 - 1 /\ GenMod \div 2 \in Int
  BY <1>1
<1>6. IsNewer(Succ(g), g)
  BY <1>3, <1>5 DEF IsNewer
<1>7. ~IsNewer(g, Succ(g))
  BY <1>1, <1>4, <1>5 DEF IsNewer
<1> QED
  BY <1>2, <1>3, <1>4, <1>6, <1>7

-------------------------------------------------------------------------------
(* The invariant of the store.                                             *)

\* What the status in RAM knows of the page the configuration came from.
OwnSlot ==
  /\ source = "DEFAULTS" => ~slots["B"].valid /\ generation = 0 /\ settled = Defaults
  /\ source \in SlotNames /\ slots[source].valid
       => slots[source].generation = generation /\ slots[source].config = settled
  /\ source \in SlotNames /\ ~slots[source].valid
       => previous \in promised /\ Defaults \in promised

\* The other page is one generation ahead, left there by a save that was
\* never acknowledged, or one behind.
OtherSlot ==
  slots[Target].valid
    => \/ /\ slots[Target].generation = Succ(generation)
          /\ slots[Target].config \in promised
       \/ /\ source # "DEFAULTS" /\ generation = Succ(slots[Target].generation)
          /\ slots[Target].config \in {previous, settled}

\* How far the save or the reset that is under way has come.
Progress ==
  /\ storePC \in {"program", "commit"} => ~slots[Target].valid
  /\ storePC \in {"erase", "program", "commit", "adopt"} => job \in promised
  /\ storePC = "adopt" => /\ slots[Target].valid /\ slots[Target].config = job
                          /\ slots[Target].generation = Succ(generation)
  /\ storePC \in {"resetA", "resetB"} => previous \in promised /\ Defaults \in promised
  /\ storePC = "resetB" => ~slots["A"].valid

\* What both slots and the step under way keep to each other.
StoreInv ==
  StoreTypeOK /\ settled \in promised /\ OwnSlot /\ OtherSlot /\ Progress

\* The target is one page, and the source, if any, the other.
LEMMA TargetIsOther ==
  ASSUME StoreTypeOK
  PROVE  /\ Target \in SlotNames
         /\ \/ source = "A" /\ Target = "B"
            \/ source = "B" /\ Target = "A"
            \/ source = "DEFAULTS" /\ Target = "A"
         /\ slots["A"] \in Records /\ slots["B"] \in Records
         /\ DOMAIN slots = SlotNames
BY DEF StoreTypeOK, Target, SlotNames

\* What is durable was promised, and two valid records are consecutive.
LEMMA StoreInvImplies ==
  ASSUME StoreInv
  PROVE  /\ NewestIsUnambiguous
         /\ LoadedConfig \in promised
         /\ LoadedConfig \in Configs /\ LoadedGeneration \in Generations
         /\ slots["A"].valid /\ slots["B"].valid
              => \/ Selected = "A" /\ slots["A"].generation = Succ(slots["B"].generation)
                 \/ Selected = "B" /\ slots["B"].generation = Succ(slots["A"].generation)
         /\ Selected = "A" => slots["A"].valid
         /\ Selected = "B" => slots["B"].valid
         /\ Selected = "DEFAULTS" => ~slots["A"].valid /\ ~slots["B"].valid
         /\ Selected \in {"A", "B", "DEFAULTS"}
<1> DEFINE a == slots["A"]  b == slots["B"]
<1>1. /\ a.valid \in BOOLEAN /\ b.valid \in BOOLEAN
      /\ a.generation \in Generations /\ b.generation \in Generations
      /\ a.config \in Configs /\ b.config \in Configs
      /\ generation \in Generations
  BY TargetIsOther DEF StoreInv, StoreTypeOK, Records
<1>2. a.valid /\ b.valid => a.generation = Succ(b.generation) \/ b.generation = Succ(a.generation)
  BY TargetIsOther DEF StoreInv, OwnSlot, OtherSlot, SlotNames
<1>3. NewestIsUnambiguous
  BY <1>1, <1>2, SuccIsNewer DEF NewestIsUnambiguous
<1>4. a.valid /\ b.valid
        => \/ Selected = "A" /\ a.generation = Succ(b.generation)
           \/ Selected = "B" /\ b.generation = Succ(a.generation)
  BY <1>1, <1>2, SuccIsNewer DEF Selected
<1>5. /\ Selected = "A" => a.valid
      /\ Selected = "B" => b.valid
      /\ Selected = "DEFAULTS" => ~a.valid /\ ~b.valid
      /\ Selected \in {"A", "B", "DEFAULTS"}
  BY <1>1 DEF Selected
<1>6. LoadedConfig \in Configs /\ LoadedGeneration \in Generations
  BY <1>1, <1>5, StoreAssumption DEF LoadedConfig, LoadedGeneration, Generations
<1>7. LoadedConfig \in promised
  <2>1. CASE Selected = "DEFAULTS"
    BY <1>5, <2>1 DEF LoadedConfig, StoreInv, StoreTypeOK, OwnSlot, SlotNames
  <2>2. CASE Selected \in SlotNames /\ Selected = source
    BY <1>5, <2>2 DEF LoadedConfig, StoreInv, OwnSlot, SlotNames
  <2>3. CASE Selected \in SlotNames /\ Selected # source
    <3>1. Selected = Target /\ slots[Target].valid
      BY <1>5, <2>3, TargetIsOther DEF StoreInv, OwnSlot, SlotNames
    <3>2. CASE slots[Target].config \in promised
      BY <2>3, <3>1, <3>2 DEF LoadedConfig, SlotNames
    <3>3. CASE /\ source # "DEFAULTS" /\ generation = Succ(slots[Target].generation)
               /\ slots[Target].config \in {previous, settled}
      <4>1. source \in SlotNames
        BY <3>3 DEF StoreInv, StoreTypeOK
      <4>2. CASE slots[source].valid
        <5>1. slots[source].generation = generation /\ a.valid /\ b.valid
          BY <3>1, <4>1, <4>2, TargetIsOther DEF StoreInv, OwnSlot, SlotNames
        <5>2. FALSE
          BY <1>1, <1>4, <3>1, <3>3, <4>1, <5>1, SuccIsNewer, TargetIsOther
             DEF StoreInv, SlotNames
        <5>3. QED
          BY <5>2
      <4>3. CASE ~slots[source].valid
        BY <2>3, <3>1, <3>3, <4>1, <4>3 DEF LoadedConfig, StoreInv, OwnSlot, SlotNames
      <4>4. QED
        BY <4>2, <4>3
    <3>4. QED
      BY <3>1, <3>2, <3>3 DEF StoreInv, OtherSlot
  <2>4. QED
    BY <1>5, <2>1, <2>2, <2>3 DEF SlotNames
<1> QED
  BY <1>3, <1>4, <1>5, <1>6, <1>7

\* The durable configuration is among the promised ones.
DurableIsPromised == LoadedConfig \in promised

\* What a boot would load is always among what was promised.
LEMMA DurableHolds == StoreInv => DurableIsPromised
BY StoreInvImplies DEF DurableIsPromised

\* The same after a step.
LEMMA StoreInvImpliesPrime == StoreInv' => LoadedConfig' \in promised'
<1>1. StoreInv' => DurableIsPromised'
  BY DurableHolds, PTL
<1> QED
  BY <1>1 DEF DurableIsPromised

\* Before the first boot nothing is stored and the defaults are in force.
LEMMA StoreInitInv == StoreInit => StoreInv
<1> SUFFICES ASSUME StoreInit PROVE StoreInv
  OBVIOUS
<1>1. Defaults \in Configs /\ 0 \in Generations
  BY StoreAssumption DEF Generations
<1>2. Invalid \in Records /\ Invalid.valid = FALSE
  BY <1>1 DEF Invalid, Records
<1>3. StoreTypeOK
  BY <1>1, <1>2 DEF StoreInit, StoreTypeOK, SlotNames
<1>4. slots["A"].valid = FALSE /\ slots["B"].valid = FALSE /\ Target = "A"
  BY <1>2 DEF StoreInit, SlotNames, Target
<1> QED
  BY <1>3, <1>4 DEF StoreInit, StoreInv, OwnSlot, OtherSlot, Progress, SlotNames

\* A boot or a load takes over what the two pages hold.
LEMMA TakeSelectedKeepsInv ==
  ASSUME StoreInv, TakeSelected, storePC' = "idle", job' \in Configs
  PROVE  StoreInv'
<1> DEFINE a == slots["A"]  b == slots["B"]
<1>1. /\ slots' = slots /\ source' = Selected /\ generation' = LoadedGeneration
      /\ dirty' = FALSE /\ promised' = {LoadedConfig} /\ settled' = LoadedConfig
      /\ previous' = IF LoadedConfig = settled THEN previous ELSE settled
  BY DEF TakeSelected, HistoryObserves
<1>2. /\ LoadedConfig \in Configs /\ LoadedGeneration \in Generations
      /\ a.valid /\ b.valid
           => \/ Selected = "A" /\ a.generation = Succ(b.generation)
              \/ Selected = "B" /\ b.generation = Succ(a.generation)
      /\ Selected = "A" => a.valid
      /\ Selected = "B" => b.valid
      /\ Selected = "DEFAULTS" => ~a.valid /\ ~b.valid
      /\ Selected \in {"A", "B", "DEFAULTS"}
  BY StoreInvImplies
<1>3. /\ a.generation \in Generations /\ b.generation \in Generations
      /\ generation \in Generations
  BY TargetIsOther DEF StoreInv, StoreTypeOK, Records
<1>4. StoreTypeOK'
  BY <1>1, <1>2 DEF StoreInv, StoreTypeOK, SlotNames
<1>5. OwnSlot'
  BY <1>1, <1>2 DEF OwnSlot, SlotNames, LoadedConfig, LoadedGeneration
<1>6. a.valid /\ b.valid => source \in SlotNames
  BY DEF StoreInv, StoreTypeOK, OwnSlot
<1>7. CASE Selected = "A" /\ b.valid
  <2>1. Target' = "B" /\ slots'["B"] = b /\ LoadedConfig = a.config
        /\ LoadedGeneration = a.generation
    BY <1>1, <1>7 DEF Target, LoadedConfig, LoadedGeneration
  <2>2. a.generation = Succ(b.generation) /\ b.generation # Succ(a.generation)
    BY <1>2, <1>3, <1>7, SuccIsNewer
  <2>3. b.config \in {previous', settled'}
    <3>1. CASE source = "A"
      <4>1. Target = "B" /\ a.config = settled /\ a.generation = generation
        BY <1>2, <1>7, <3>1 DEF StoreInv, OwnSlot, SlotNames, Target
      <4>2. b.config \in {previous, settled}
        BY <1>7, <2>2, <4>1 DEF StoreInv, OtherSlot
      <4>3. QED
        BY <1>1, <2>1, <4>1, <4>2
    <3>2. CASE source = "B"
      <4>1. b.config = settled
        BY <1>7, <3>2 DEF StoreInv, OwnSlot, SlotNames
      <4>2. QED
        BY <1>1, <4>1
    <3>3. QED
      BY <1>2, <1>6, <1>7, <3>1, <3>2 DEF SlotNames
  <2>4. OtherSlot'
    BY <1>1, <1>7, <2>1, <2>2, <2>3 DEF OtherSlot
  <2>5. QED
    BY <1>1, <1>4, <1>5, <2>4 DEF StoreInv, Progress
<1>8. CASE Selected = "B" /\ a.valid
  <2>1. Target' = "A" /\ slots'["A"] = a /\ LoadedConfig = b.config
        /\ LoadedGeneration = b.generation
    BY <1>1, <1>8 DEF Target, LoadedConfig, LoadedGeneration
  <2>2. b.generation = Succ(a.generation) /\ a.generation # Succ(b.generation)
    BY <1>2, <1>3, <1>8, SuccIsNewer
  <2>3. a.config \in {previous', settled'}
    <3>1. CASE source = "B"
      <4>1. Target = "A" /\ b.config = settled /\ b.generation = generation
        BY <1>2, <1>8, <3>1 DEF StoreInv, OwnSlot, SlotNames, Target
      <4>2. a.config \in {previous, settled}
        BY <1>8, <2>2, <4>1 DEF StoreInv, OtherSlot
      <4>3. QED
        BY <1>1, <2>1, <4>1, <4>2
    <3>2. CASE source = "A"
      <4>1. a.config = settled
        BY <1>8, <3>2 DEF StoreInv, OwnSlot, SlotNames
      <4>2. QED
        BY <1>1, <4>1
    <3>3. QED
      BY <1>2, <1>6, <1>8, <3>1, <3>2 DEF SlotNames
  <2>4. OtherSlot'
    BY <1>1, <1>8, <2>1, <2>2, <2>3 DEF OtherSlot
  <2>5. QED
    BY <1>1, <1>4, <1>5, <2>4 DEF StoreInv, Progress
<1>9. CASE ~(Selected = "A" /\ b.valid) /\ ~(Selected = "B" /\ a.valid)
  <2>1. ~slots'[Target'].valid
    BY <1>1, <1>2, <1>9 DEF Target
  <2>2. OtherSlot'
    BY <2>1 DEF OtherSlot
  <2>3. QED
    BY <1>1, <1>4, <1>5, <2>2 DEF StoreInv, Progress
<1> QED
  BY <1>7, <1>8, <1>9

\* Nothing but the dirty flag changes.
LEMMA MarkDirtyKeepsInv ==
  ASSUME StoreInv, MarkDirty
  PROVE  StoreInv'
BY DEF StoreInv, StoreTypeOK, OwnSlot, OtherSlot, Progress, Target, MarkDirty,
       historyVars

\* From here on the new configuration may be found.
LEMMA StartSaveKeepsInv ==
  ASSUME StoreInv, NEW c \in Configs, StartSave(c)
  PROVE  StoreInv'
BY DEF StoreInv, StoreTypeOK, OwnSlot, OtherSlot, Progress, Target, StartSave, ramVars

\* From here on the defaults or the configuration before may be found.
LEMMA StartResetKeepsInv ==
  ASSUME StoreInv, StartReset
  PROVE  StoreInv'
<1>1. /\ storePC' = "resetA" /\ promised' = promised \union {previous, Defaults}
      /\ UNCHANGED <<slots, job, source, generation, dirty, settled, previous>>
  BY DEF StartReset, ramVars
<1>2. StoreTypeOK'
  BY <1>1, StoreAssumption DEF StoreInv, StoreTypeOK
<1> QED
  BY <1>1, <1>2 DEF StoreInv, OwnSlot, OtherSlot, Progress, Target

\* Erasing a page, as part of an operation that ends or goes on, keeps what is
\* known of the other one.
LEMMA EraseKeepsInv ==
  ASSUME StoreInv, NEW s \in SlotNames, slots' \in EraseResults(s),
         UNCHANGED <<ramVars, historyVars>>, job' \in Configs,
         storePC' \in {"idle", "program", "resetB"},
         storePC' = "program" => ~slots'[Target].valid /\ job' \in promised,
         storePC' = "resetB" => ~slots'["A"].valid,
         storePC' = "resetB" => previous \in promised /\ Defaults \in promised,
         s = Target \/ (previous \in promised /\ Defaults \in promised)
  PROVE  StoreInv'
<1>1. UNCHANGED <<source, generation, dirty, promised, settled, previous>> /\ Target' = Target
  BY DEF ramVars, historyVars, Target
<1>2. Invalid \in Records /\ ~Invalid.valid
  BY StoreAssumption DEF Invalid, Records, Generations
<1>3. slots' = slots \/ slots' = [slots EXCEPT ![s] = Invalid]
  BY DEF EraseResults
<1>4. /\ slots' \in [SlotNames -> Records]
      /\ \A t \in SlotNames : slots'[t] = slots[t] \/ (t = s /\ ~slots'[t].valid)
  BY <1>2, <1>3 DEF StoreInv, StoreTypeOK
<1>5. StoreTypeOK'
  BY <1>1, <1>4 DEF StoreInv, StoreTypeOK
<1>6. OwnSlot'
  <2>1. slots'["B"].valid => slots["B"].valid
    BY <1>4 DEF SlotNames
  <2>2. source \in SlotNames => slots'[source] = slots[source] \/ (source = s /\ ~slots'[source].valid)
    BY <1>4
  <2>3. source = s => previous \in promised /\ Defaults \in promised
    BY DEF Target, SlotNames
  <2>4. QED
    BY <1>1, <2>1, <2>2, <2>3 DEF OwnSlot, StoreInv
<1>7. OtherSlot'
  <2>1. slots'[Target] = slots[Target] \/ ~slots'[Target].valid
    BY <1>4, TargetIsOther DEF StoreInv
  <2>2. QED
    BY <1>1, <2>1 DEF OtherSlot, StoreInv
<1>8. Progress'
  BY <1>1 DEF Progress, StoreInv
<1> QED
  BY <1>1, <1>5, <1>6, <1>7, <1>8 DEF StoreInv

\* The steps of a save up to its commit.
LEMMA SaveStepsKeepInv ==
  ASSUME StoreInv, Erase \/ Program \/ Commit
  PROVE  StoreInv'
<1>0. Defaults \in Configs /\ Target \in SlotNames /\ job \in Configs
  BY StoreAssumption, TargetIsOther DEF StoreInv, StoreTypeOK
<1>1. CASE Erase
  <2>1. /\ slots' \in EraseResults(Target)
        /\ UNCHANGED <<ramVars, historyVars>>
        /\ job \in promised
        /\ \/ slots' = [slots EXCEPT ![Target] = Invalid] /\ storePC' = "program" /\ job' = job
           \/ storePC' = "idle" /\ job' = Defaults
    BY <1>1 DEF Erase, EraseResults, Fails, StoreInv, Progress
  <2>2. ASSUME storePC' = "program" PROVE ~slots'[Target].valid /\ job' \in promised
    BY <1>0, <2>1, <2>2 DEF StoreInv, StoreTypeOK, Invalid
  <2>3. job' \in Configs /\ storePC' \in {"idle", "program", "resetB"} /\ storePC' # "resetB"
    BY <1>0, <2>1
  <2>4. /\ storePC' = "program" => ~slots'[Target].valid /\ job' \in promised
        /\ storePC' # "resetB"
    BY <2>2, <2>3
  <2>5. QED
    BY <1>0, <2>1, <2>3, <2>4, EraseKeepsInv
<1>2. CASE Program
  <2>1. /\ UNCHANGED <<slots, source, generation, dirty, promised, settled, previous>>
        /\ Target' = Target /\ ~slots[Target].valid /\ job \in promised
        /\ \/ storePC' = "commit" /\ job' = job
           \/ storePC' = "idle" /\ job' = Defaults
    BY <1>2 DEF Program, ramVars, historyVars, Fails, StoreInv, Progress, Target
  <2>2. QED
    BY <1>0, <2>1 DEF StoreInv, StoreTypeOK, OwnSlot, OtherSlot, Progress
<1>3. CASE Commit
  <2>1. /\ UNCHANGED <<source, generation, dirty, promised, settled, previous>>
        /\ Target' = Target /\ ~slots[Target].valid /\ job \in promised
        /\ \/ slots' = Committed /\ storePC' = "adopt" /\ job' = job
           \/ slots' \in {slots, Committed} /\ storePC' = "idle" /\ job' = Defaults
    BY <1>3 DEF Commit, ramVars, historyVars, Fails, StoreInv, Progress, Target
  <2>2. CASE slots' = slots
    <3>1. storePC' = "idle" \/ slots = Committed
      BY <2>1, <2>2
    <3>2. slots # Committed
      BY <1>0, <2>1 DEF Committed, StoreInv, StoreTypeOK
    <3>3. QED
      BY <1>0, <2>1, <2>2, <3>1, <3>2
         DEF StoreInv, StoreTypeOK, OwnSlot, OtherSlot, Progress
  <2>3. CASE slots' = Committed
    <3> DEFINE new == [valid |-> TRUE, config |-> job, generation |-> NextGeneration]
    <3>1. NextGeneration = Succ(generation) /\ NextGeneration \in Generations
      BY NextIsSucc DEF StoreInv, StoreTypeOK
    <3>2. new \in Records
      BY <1>0, <3>1 DEF Records
    <3>3. slots' = [slots EXCEPT ![Target] = new]
      BY <2>3 DEF Committed
    <3>4. slots' \in [SlotNames -> Records] /\ slots'[Target] = new
          /\ \A t \in SlotNames : t # Target => slots'[t] = slots[t]
      BY <1>0, <3>2, <3>3 DEF StoreInv, StoreTypeOK
    <3>5. new.valid = TRUE /\ new.config = job /\ new.generation = Succ(generation)
      BY <3>1
    <3> HIDE DEF new
    <3>6. StoreTypeOK'
      BY <1>0, <2>1, <3>4 DEF StoreInv, StoreTypeOK
    <3>7. OwnSlot'
      <4>1. source = "DEFAULTS" => slots'["B"] = slots["B"]
        BY <3>4 DEF Target, SlotNames
      <4>2. source \in SlotNames => slots'[source] = slots[source]
        BY <3>4 DEF Target, SlotNames
      <4>3. QED
        BY <2>1, <4>1, <4>2 DEF StoreInv, OwnSlot
    <3>8. OtherSlot'
      BY <2>1, <3>4, <3>5 DEF OtherSlot
    <3>9. Progress'
      BY <2>1, <3>4, <3>5 DEF Progress
    <3>10. QED
      BY <2>1, <3>6, <3>7, <3>8, <3>9 DEF StoreInv
  <2>4. QED
    BY <2>1, <2>2, <2>3
<1> QED
  BY <1>1, <1>2, <1>3

\* The status follows: the page just committed is the source now.
LEMMA AdoptKeepsInv ==
  ASSUME StoreInv, Adopt
  PROVE  StoreInv' /\ LoadedConfig' = job /\ LoadedConfig = job
<1>1. /\ slots' = slots /\ storePC' = "idle" /\ job' = Defaults
      /\ source' = Target /\ generation' = Succ(generation) /\ dirty' = FALSE
      /\ promised' = {job} /\ settled' = job /\ previous' = settled
      /\ generation \in Generations /\ generation' \in Generations
      /\ job \in Configs /\ Defaults \in Configs
  BY StoreAssumption, NextIsSucc
     DEF Adopt, HistoryAcknowledges, StoreInv, StoreTypeOK
<1>2. slots[Target].valid /\ slots[Target].config = job
      /\ slots[Target].generation = Succ(generation)
  BY DEF Adopt, StoreInv, Progress
<1>3. \/ source = "A" /\ Target = "B"
      \/ source = "B" /\ Target = "A"
      \/ source = "DEFAULTS" /\ Target = "A"
  BY TargetIsOther DEF StoreInv
<1>4. StoreTypeOK'
  BY <1>1, <1>3 DEF StoreInv, StoreTypeOK, SlotNames
<1>5. OwnSlot'
  BY <1>1, <1>2, <1>3 DEF OwnSlot, SlotNames
<1>6. OtherSlot'
  <2>1. CASE source = "DEFAULTS"
    BY <1>1, <1>3, <2>1 DEF OtherSlot, Target, StoreInv, OwnSlot
  <2>2. CASE source \in SlotNames
    <3>1. Target' = source /\ source' # "DEFAULTS"
      BY <1>1, <1>3, <2>2 DEF Target, SlotNames
    <3>2. slots[source].valid
            => slots[source].generation = generation /\ slots[source].config = settled
      BY <2>2 DEF StoreInv, OwnSlot
    <3>3. QED
      BY <1>1, <3>1, <3>2 DEF OtherSlot
  <2>3. QED
    BY <1>3, <2>1, <2>2 DEF SlotNames
<1>7. StoreInv'
  BY <1>1, <1>4, <1>5, <1>6 DEF StoreInv, Progress
<1>8. LoadedConfig = job
  <2>1. CASE ~slots["A"].valid \/ ~slots["B"].valid
    BY <1>2, <1>3, <2>1 DEF LoadedConfig, Selected
  <2>2. CASE slots["A"].valid /\ slots["B"].valid
    <3>1. source \in SlotNames
      BY <1>3, <2>2 DEF StoreInv, OwnSlot, SlotNames
    <3>2. slots[source].generation = generation
      BY <2>2, <3>1 DEF StoreInv, OwnSlot, SlotNames
    <3>3. /\ IsNewer(slots[Target].generation, slots[source].generation)
          /\ ~IsNewer(slots[source].generation, slots[Target].generation)
      BY <1>1, <1>2, <3>2, SuccIsNewer
    <3>4. Selected = Target
      BY <1>3, <2>2, <3>1, <3>3 DEF Selected, SlotNames
    <3>5. QED
      BY <1>2, <1>3, <3>4 DEF LoadedConfig
  <2>3. QED
    BY <2>1, <2>2
<1>9. LoadedConfig' = LoadedConfig
  BY <1>1 DEF LoadedConfig, Selected
<1> QED
  BY <1>7, <1>8, <1>9

\* The erasures of a reset that is not through yet.
LEMMA ResetStepsKeepInv ==
  ASSUME StoreInv, ResetA \/ ResetBFails
  PROVE  StoreInv'
<1>0. Defaults \in Configs /\ "A" \in SlotNames /\ "B" \in SlotNames /\ job \in Configs
      /\ previous \in promised /\ Defaults \in promised
  BY StoreAssumption DEF StoreInv, StoreTypeOK, SlotNames, ResetA, ResetBFails, Progress
<1>1. CASE ResetA
  <2>1. /\ slots' \in EraseResults("A")
        /\ UNCHANGED <<ramVars, historyVars>>
        /\ \/ slots' = [slots EXCEPT !["A"] = Invalid] /\ storePC' = "resetB" /\ job' = job
           \/ storePC' = "idle" /\ job' = Defaults
    BY <1>1 DEF ResetA, EraseResults, Fails
  <2>2. ASSUME storePC' = "resetB" PROVE ~slots'["A"].valid
    BY <1>0, <2>1, <2>2 DEF StoreInv, StoreTypeOK, Invalid
  <2>3. job' \in Configs /\ storePC' \in {"idle", "program", "resetB"} /\ storePC' # "program"
    BY <1>0, <2>1
  <2>4. QED
    BY <1>0, <2>1, <2>2, <2>3, EraseKeepsInv
<1>2. CASE ResetBFails
  <2>1. /\ slots' \in EraseResults("B") /\ UNCHANGED <<ramVars, historyVars>>
        /\ storePC' = "idle" /\ job' = Defaults
    BY <1>2 DEF ResetBFails, Fails
  <2>2. QED
    BY <1>0, <2>1, EraseKeepsInv
<1> QED
  BY <1>1, <1>2

\* The second page is erased too: the defaults are what is stored.
LEMMA ResetBKeepsInv ==
  ASSUME StoreInv, ResetB
  PROVE  StoreInv' /\ LoadedConfig' = Defaults
<1>1. /\ storePC' = "idle" /\ slots' = [slots EXCEPT !["B"] = Invalid]
      /\ source' = "DEFAULTS" /\ generation' = 0 /\ dirty' = FALSE
      /\ promised' = {Defaults} /\ settled' = Defaults /\ previous' = settled
      /\ job' = job
  BY DEF ResetB, HistoryAcknowledges
<1>2. Invalid \in Records /\ ~Invalid.valid /\ Defaults \in Configs /\ 0 \in Generations
  BY StoreAssumption DEF Invalid, Records, Generations
<1>3. slots' \in [SlotNames -> Records] /\ ~slots'["A"].valid /\ ~slots'["B"].valid
  <2>1. ~slots["A"].valid
    BY DEF ResetB, StoreInv, Progress
  <2>2. QED
    BY <1>1, <1>2, <2>1 DEF StoreInv, StoreTypeOK, SlotNames
<1>4. StoreTypeOK'
  BY <1>1, <1>2, <1>3 DEF StoreInv, StoreTypeOK
<1>5. OwnSlot' /\ OtherSlot' /\ Progress'
  BY <1>1, <1>3 DEF OwnSlot, OtherSlot, Progress, Target, SlotNames
<1>6. LoadedConfig' = Defaults
  BY <1>3 DEF LoadedConfig, Selected
<1> QED
  BY <1>1, <1>4, <1>5, <1>6 DEF StoreInv

-------------------------------------------------------------------------------
(* The configuration service on top of the store.                          *)

\* What the store may do in one step.
StoreStep ==
  \/ StoreBoot \/ StoreLoad \/ MarkDirty \/ StartReset
  \/ Erase \/ Program \/ Commit \/ Adopt \/ ResetA \/ ResetBFails \/ ResetB
  \/ \E c \in Configs : StartSave(c)

\* Every operation of the store keeps its invariant and is a step of the
\* persistent cell, or invisible in it.
LEMMA StoreStepKeepsInv ==
  ASSUME StoreInv, StoreStep \/ UNCHANGED storeVars
  PROVE  StoreInv' /\ [Cell!CellNext]_(Cell!cellVars)
<1>1. CASE StoreBoot \/ StoreLoad
  <2>1. TakeSelected /\ storePC' = "idle" /\ job' \in Configs
    BY <1>1, StoreAssumption DEF StoreBoot, StoreLoad, StoreInv, StoreTypeOK
  <2>2. StoreInv'
    BY <2>1, TakeSelectedKeepsInv
  <2>3. LoadedConfig' = LoadedConfig
    BY <2>1 DEF TakeSelected, LoadedConfig, Selected
  <2>4. Cell!Observe
    BY <2>1, <2>3 DEF TakeSelected, HistoryObserves, Cell!Observe
  <2>5. QED
    BY <2>2, <2>4 DEF Cell!CellNext
<1>2. CASE MarkDirty
  <2>1. StoreInv'
    BY <1>2, MarkDirtyKeepsInv
  <2>2. LoadedConfig' = LoadedConfig
    BY <1>2 DEF MarkDirty, LoadedConfig, Selected
  <2>3. QED
    BY <1>2, <2>1, <2>2 DEF MarkDirty, historyVars, Cell!cellVars
<1>3. CASE StartReset
  <2>1. StoreInv'
    BY <1>3, StartResetKeepsInv
  <2>2. LoadedConfig' \in promised'
    BY <2>1, StoreInvImpliesPrime
  <2>3. Cell!TryReset
    BY <1>3, <2>2 DEF StartReset, Cell!TryReset
  <2>4. QED
    BY <2>1, <2>3 DEF Cell!CellNext
<1>4. CASE Erase \/ Program \/ Commit \/ ResetA \/ ResetBFails
  <2>1. StoreInv'
    BY <1>4, SaveStepsKeepInv, ResetStepsKeepInv
  <2>2. LoadedConfig' \in promised'
    BY <2>1, StoreInvImpliesPrime
  <2>3. UNCHANGED historyVars
    BY <1>4 DEF Erase, Program, Commit, ResetA, ResetBFails
  <2>4. Cell!Drift
    BY <2>2, <2>3 DEF historyVars, Cell!Drift
  <2>5. QED
    BY <2>1, <2>4 DEF Cell!CellNext
<1>5. CASE Adopt
  <2>1. StoreInv' /\ LoadedConfig' = job
    BY <1>5, AdoptKeepsInv
  <2>2. Cell!Acknowledge(job) /\ job \in Configs
    BY <1>5, <2>1
       DEF Adopt, HistoryAcknowledges, Cell!Acknowledge, StoreInv, StoreTypeOK
  <2>3. QED
    BY <2>1, <2>2 DEF Cell!CellNext
<1>6. CASE ResetB
  <2>1. StoreInv' /\ LoadedConfig' = Defaults
    BY <1>6, ResetBKeepsInv
  <2>2. Cell!Acknowledge(Defaults) /\ Defaults \in Configs
    BY <1>6, <2>1, StoreAssumption DEF ResetB, HistoryAcknowledges, Cell!Acknowledge
  <2>3. QED
    BY <2>1, <2>2 DEF Cell!CellNext
<1>7. ASSUME NEW c \in Configs, StartSave(c)
      PROVE  StoreInv' /\ [Cell!CellNext]_(Cell!cellVars)
  <2>1. StoreInv'
    BY <1>7, StartSaveKeepsInv
  <2>2. LoadedConfig' \in promised'
    BY <2>1, StoreInvImpliesPrime
  <2>3. Cell!TrySave(c)
    BY <1>7, <2>2 DEF StartSave, Cell!TrySave
  <2>4. QED
    BY <2>1, <2>3 DEF Cell!CellNext
<1>8. CASE UNCHANGED storeVars
  <2>1. StoreInv'
    BY <1>8 DEF storeVars, StoreInv, StoreTypeOK, OwnSlot, OtherSlot, Progress, Target
  <2>2. LoadedConfig' = LoadedConfig
    BY <1>8 DEF storeVars, LoadedConfig, Selected
  <2>3. QED
    BY <1>8, <2>1, <2>2 DEF storeVars, Cell!cellVars
<1> QED
  BY <1>1, <1>2, <1>3, <1>4, <1>5, <1>6, <1>7, <1>8 DEF StoreStep

\* Where the store is inside a save, and inside a factory reset.
Saving == {"erase", "program", "commit", "adopt"}
Resetting == {"resetA", "resetB"}

\* What ConfigPersistence_Save captures.
Captured ==
  [period |-> runtime.period, stream |-> runtime.stream, axis |-> axis,
   tuning |-> Rounded[tuning]]

\* Nothing comes between the steps of a save or a reset.
Undisturbed ==
  /\ storePC \in Saving => job = Captured /\ tuning \in Storable
  /\ storePC \in Resetting => output = "off"

\* The types of the service's own variables.
ServiceTypeOK ==
  /\ runtime \in Settings /\ appliedPeriod \in Periods
  /\ axis \in Axes /\ leak \in Leaks /\ tuning \in Tunings
  /\ mode \in {"PROTOCOL", "DEVELOPMENT"}
  /\ output \in {"off", "armed", "held"} /\ answer \in {"OK", "FAILED"}
  /\ refused \in BOOLEAN /\ reloaded \in BOOLEAN /\ turned \in BOOLEAN

\* How the command under way, the dirty flag and the mode fit the store.
ServiceInv ==
  /\ ServiceTypeOK /\ Undisturbed
  /\ ModeFollowsStream /\ PartialOnlyWhenRefused /\ CleanMeansStored

\* The inductive invariant.
ConfigInv == StoreInv /\ ServiceInv

\* A configuration is a settings record and a storable tuning.
LEMMA ConfigParts ==
  /\ \A c \in Configs : /\ SettingsOf(c) \in Settings /\ c.period \in Periods
                        /\ c.stream \in BOOLEAN /\ c.axis \in Axes
                        /\ c.tuning \in Tunings
  /\ \A r \in Settings, a \in Axes, t \in Storable :
       LET c == [period |-> r.period, stream |-> r.stream, axis |-> a, tuning |-> Rounded[t]]
       IN  c \in Configs /\ SettingsOf(c) = r
BY ConfigAssumption DEF SettingsOf, Settings

\* A step of the service is at most one step of the store.
LEMMA ServiceMovesStore ==
  ASSUME ConfigInv, [ConfigNext]_configVars
  PROVE  StoreStep \/ UNCHANGED storeVars
<1>1. ASSUME NEW r \in Settings, SetConfig(r) PROVE StoreStep \/ UNCHANGED storeVars
  BY <1>1 DEF SetConfig, StoreStep
<1>2. ASSUME NEW on \in BOOLEAN, SetStream(on) PROVE StoreStep \/ UNCHANGED storeVars
  BY <1>2 DEF SetStream, SetConfig, StoreStep
<1>3. ASSUME SaveCommand PROVE StoreStep
  <2>1. runtime \in Settings /\ axis \in Axes /\ tuning \in Storable
    BY <1>3 DEF SaveCommand, ConfigInv, ServiceInv, ServiceTypeOK
  <2>2. Captured \in Configs /\ StartSave(Captured)
    BY <1>3, <2>1, ConfigParts DEF SaveCommand, Captured
  <2>3. QED
    BY <2>2 DEF StoreStep
<1>4. QED
  BY <1>1, <1>2, <1>3
     DEF ConfigNext, SetTuning, SetAxis, SaveStep, LoadCommand, ResetCommand, ResetStep,
         OutputCommand, EnableOn, PowerCycle, StoreStep, configVars

\* A configuration applied whole is in force; of one that is refused only the
\* sampling period is applied, and nothing is in force.
LEMMA ApplyEffect ==
  ASSUME NEW c \in Configs, NEW locked \in BOOLEAN, output = "off", ServiceTypeOK,
         Apply(c, locked)
  PROVE  /\ runtime' \in Settings /\ appliedPeriod' \in Periods
         /\ axis' \in Axes /\ leak' \in Leaks /\ tuning' \in Tunings
         /\ answer' \in {"OK", "FAILED"} /\ refused' \in BOOLEAN
         /\ turned' \in BOOLEAN
         /\ ~refused' => appliedPeriod' = runtime'.period
         /\ \/ /\ runtime' = SettingsOf(c) /\ appliedPeriod' = c.period
               /\ axis' = c.axis /\ tuning' = c.tuning
            \/ /\ answer' # "OK" /\ refused'
               /\ runtime' = runtime /\ axis' = axis /\ tuning' = tuning
<1>1. /\ SettingsOf(c) \in Settings /\ c.period \in Periods /\ c.axis \in Axes
      /\ c.tuning \in Tunings /\ SettingsOf(c).period = c.period
  BY ConfigParts DEF SettingsOf
<1>2. /\ appliedPeriod' = SettingsOf(c).period /\ leak' = leak
      /\ runtime' = IF locked THEN SettingsOf(c) ELSE runtime
      /\ refused' = ~locked
      /\ \/ /\ locked /\ answer' = "OK"
            /\ axis' = c.axis /\ tuning' = c.tuning /\ turned' = FALSE
         \/ ~locked /\ answer' = "FAILED" /\ UNCHANGED <<axis, tuning, turned>>
  BY DEF Apply, SetRuntime
<1>3. /\ runtime \in Settings /\ axis \in Axes /\ leak \in Leaks /\ tuning \in Tunings
      /\ turned \in BOOLEAN
  BY DEF ServiceTypeOK
<1> QED
  BY <1>1, <1>2, <1>3

\* Everything the service keeps is in place after boot.
LEMMA ConfigInitInv == ConfigInit => ConfigInv
<1> SUFFICES ASSUME ConfigInit PROVE ConfigInv
  OBVIOUS
<1>1. StoreInv
  BY StoreInitInv DEF ConfigInit
<1>2. /\ runtime = SettingsOf(Defaults) /\ appliedPeriod = Defaults.period
      /\ axis = Defaults.axis /\ tuning = Defaults.tuning /\ leak = BootLeak
      /\ mode = ModeOf(Defaults.stream) /\ output = "off" /\ answer = "OK"
      /\ refused = FALSE /\ reloaded = FALSE /\ turned = FALSE
      /\ storePC = "idle"
  BY DEF ConfigInit, StoreInit
<1>3. /\ SettingsOf(Defaults) \in Settings /\ Defaults.period \in Periods
      /\ Defaults.stream \in BOOLEAN /\ Defaults.axis \in Axes
      /\ Defaults.tuning \in Tunings /\ BootLeak \in Leaks
  BY ConfigParts, StoreAssumption, ConfigAssumption
<1>4. ServiceTypeOK
  BY <1>2, <1>3 DEF ServiceTypeOK, ModeOf
<1>5. Undisturbed
  BY <1>2 DEF Undisturbed, Saving, Resetting
<1>6. ModeFollowsStream /\ PartialOnlyWhenRefused
  BY <1>2 DEF ModeFollowsStream, PartialOnlyWhenRefused, SettingsOf
<1>7. LoadedConfig = Defaults
  <2>1. slots["A"].valid = FALSE /\ slots["B"].valid = FALSE
    BY DEF ConfigInit, StoreInit, SlotNames, Invalid
  <2>2. QED
    BY <2>1 DEF LoadedConfig, Selected
<1>8. CleanMeansStored
  BY <1>2, <1>7 DEF CleanMeansStored, InForceIsStored
<1> QED
  BY <1>1, <1>4, <1>5, <1>6, <1>8 DEF ConfigInv, ServiceInv

\* Every operation of the service keeps what the service relies on.
LEMMA ServiceStepKeepsInv ==
  ASSUME ConfigInv, [ConfigNext]_configVars
  PROVE  ServiceInv'
<1> DEFINE Kept == UNCHANGED serviceVars
<1>0. /\ ServiceTypeOK /\ Undisturbed /\ ModeFollowsStream /\ PartialOnlyWhenRefused
      /\ CleanMeansStored
      /\ StoreInv /\ LoadedConfig \in Configs /\ Defaults \in Configs
  BY StoreInvImplies, StoreAssumption DEF ConfigInv, ServiceInv
<1>1. ASSUME NEW r \in Settings, SetConfig(r)
      PROVE  ServiceInv'
  <2>1. PICK locked \in BOOLEAN :
          /\ SetRuntime(r, locked)
          /\ \/ locked /\ MarkDirty /\ mode' = ModeOf(r.stream) /\ reloaded' = FALSE
             \/ ~locked /\ UNCHANGED <<storeVars, mode, reloaded>>
    BY <1>1 DEF SetConfig
  <2>2. /\ appliedPeriod' = r.period /\ refused' = ~locked
        /\ runtime' = IF locked THEN r ELSE runtime
        /\ UNCHANGED <<axis, leak, tuning, turned, output, answer>>
        /\ storePC = "idle" /\ storePC' = "idle"
    BY <1>1, <2>1 DEF SetRuntime, SetConfig, MarkDirty, storeVars, controlVars
  <2>3. r.period \in Periods /\ r.stream \in BOOLEAN
    BY DEF Settings
  <2>4. ServiceTypeOK'
    BY <1>0, <2>1, <2>2, <2>3 DEF ServiceTypeOK, ModeOf
  <2>5. Undisturbed'
    BY <2>2 DEF Undisturbed, Saving, Resetting
  <2>6. PartialOnlyWhenRefused'
    BY <2>2 DEF PartialOnlyWhenRefused
  <2>7. ModeFollowsStream'
    BY <1>0, <2>1, <2>2 DEF ModeFollowsStream
  <2>8. CleanMeansStored'
    <3>1. CASE locked
      BY <2>1, <3>1 DEF MarkDirty, CleanMeansStored
    <3>2. CASE ~locked
      <4>1. LoadedConfig' = LoadedConfig /\ dirty' = dirty /\ refused' = TRUE
            /\ runtime' = runtime
        BY <2>1, <2>2, <3>2 DEF LoadedConfig, Selected, storeVars
      <4>2. QED
        BY <1>0, <2>2, <4>1 DEF CleanMeansStored, InForceIsStored
    <3>3. QED
      BY <3>1, <3>2
  <2>9. QED
    BY <2>4, <2>5, <2>6, <2>7, <2>8 DEF ServiceInv
<1>2. ASSUME NEW on \in BOOLEAN, SetStream(on)
      PROVE  ServiceInv'
  <2>1. [runtime EXCEPT !.stream = on] \in Settings
    BY <1>0 DEF ServiceTypeOK, Settings
  <2>2. QED
    BY <1>1, <1>2, <2>1 DEF SetStream
<1>3. ASSUME \/ \E t \in Tunings, l \in Leaks : SetTuning(t, l)
             \/ \E a \in Axes : SetAxis(a)
      PROVE  ServiceInv'
  <2>1. /\ tuning' \in Tunings /\ leak' \in Leaks /\ axis' \in Axes /\ turned' \in BOOLEAN
        /\ dirty' = TRUE /\ storePC' = "idle"
        /\ UNCHANGED <<runtime, appliedPeriod, mode, output, answer, refused, reloaded>>
    BY <1>0, <1>3 DEF SetTuning, SetAxis, MarkDirty, ServiceTypeOK
  <2>2. QED
    BY <1>0, <2>1
       DEF ServiceInv, ServiceTypeOK, Undisturbed, Saving, Resetting, ModeFollowsStream,
           PartialOnlyWhenRefused, CleanMeansStored
<1>4. ASSUME SaveCommand
      PROVE  ServiceInv'
  <2>1. /\ Kept /\ storePC' = "erase" /\ job' = Captured /\ tuning \in Storable
    BY <1>4 DEF SaveCommand, StartSave, serviceVars, Captured
  <2>2. QED
    BY <1>0, <2>1
       DEF serviceVars, ServiceInv, ServiceTypeOK, Undisturbed, Saving, Resetting, ModeFollowsStream,
           PartialOnlyWhenRefused, CleanMeansStored, Captured
<1>5. ASSUME SaveStep
      PROVE  ServiceInv'
  <2>1. /\ UNCHANGED <<runtime, appliedPeriod, axis, leak, tuning, mode, output, refused,
                         reloaded>>
        /\ turned' = (turned /\ answer' # "OK")
        /\ answer' = IF storePC' # "idle" THEN answer
                     ELSE IF storePC = "adopt" THEN "OK" ELSE "FAILED"
        /\ storePC \in Saving /\ job = Captured /\ tuning \in Storable
        /\ \/ storePC' \in Saving /\ job' = job
           \/ storePC' = "idle"
    BY <1>0, <1>5
       DEF SaveStep, Erase, Program, Commit, Adopt, Fails, Saving, Undisturbed
  <2>2. CleanMeansStored'
    <3>1. SUFFICES ASSUME storePC' = "idle" /\ answer' = "OK"
                   PROVE  InForceIsStored' /\ (refused' \/ appliedPeriod' = LoadedConfig'.period)
      BY DEF CleanMeansStored
    <3>2. Adopt
      BY <1>5, <2>1, <3>1 DEF SaveStep, Erase, Program, Commit
    <3>3. LoadedConfig' = Captured
      BY <1>0, <2>1, <3>2, AdoptKeepsInv
    <3>4. /\ SettingsOf(Captured) = runtime /\ Captured.tuning = Rounded[tuning]
          /\ Captured.axis = axis /\ Captured.period = runtime.period
      BY <1>0, <2>1, ConfigParts DEF ServiceTypeOK, Captured
    <3>5. QED
      BY <1>0, <2>1, <3>3, <3>4 DEF InForceIsStored, PartialOnlyWhenRefused
  <2>3. ServiceTypeOK'
    BY <1>0, <2>1 DEF ServiceTypeOK
  <2>4. Undisturbed'
    BY <2>1 DEF Undisturbed, Saving, Resetting, Captured
  <2>5. QED
    BY <1>0, <2>1, <2>2, <2>3, <2>4 DEF ServiceInv, ModeFollowsStream, PartialOnlyWhenRefused
<1>6. ASSUME LoadCommand
      PROVE  ServiceInv'
  <2>1. PICK locked \in BOOLEAN : Apply(LoadedConfig, locked)
    BY <1>6 DEF LoadCommand
  <2>2. /\ output = "off" /\ UNCHANGED <<mode, output>> /\ reloaded' = TRUE
        /\ storePC' = "idle" /\ LoadedConfig' = LoadedConfig
    BY <1>6 DEF LoadCommand, Safe, StoreLoad, TakeSelected, LoadedConfig, Selected
  <2>3. /\ runtime' \in Settings /\ appliedPeriod' \in Periods
        /\ axis' \in Axes /\ leak' \in Leaks /\ tuning' \in Tunings
        /\ answer' \in {"OK", "FAILED"} /\ refused' \in BOOLEAN
        /\ turned' \in BOOLEAN
        /\ ~refused' => appliedPeriod' = runtime'.period
        /\ \/ /\ runtime' = SettingsOf(LoadedConfig) /\ appliedPeriod' = LoadedConfig.period
              /\ axis' = LoadedConfig.axis /\ tuning' = LoadedConfig.tuning
           \/ /\ answer' # "OK" /\ refused'
              /\ runtime' = runtime /\ axis' = axis /\ tuning' = tuning
    BY <1>0, <2>1, <2>2, ApplyEffect
  <2>4. QED
    BY <1>0, <2>2, <2>3
       DEF ServiceInv, ServiceTypeOK, Undisturbed, Saving, Resetting, ModeFollowsStream,
           PartialOnlyWhenRefused, CleanMeansStored, InForceIsStored
<1>7. ASSUME ResetCommand
      PROVE  ServiceInv'
  <2>1. Kept /\ storePC' = "resetA" /\ output = "off"
    BY <1>7 DEF ResetCommand, Safe, StartReset
  <2>2. QED
    BY <1>0, <2>1
       DEF serviceVars, ServiceInv, ServiceTypeOK, Undisturbed, Saving, Resetting, ModeFollowsStream,
           PartialOnlyWhenRefused, CleanMeansStored
<1>8. ASSUME ResetStep
      PROVE  ServiceInv'
  <2>1. output = "off"
    BY <1>0, <1>8 DEF ResetStep, ResetA, ResetBFails, ResetB, Undisturbed, Resetting
  <2>2. CASE /\ ResetA \/ ResetBFails
             /\ answer' = IF storePC' = "idle" THEN "FAILED" ELSE answer
             /\ UNCHANGED <<runtime, appliedPeriod, controlVars, mode, output, refused,
                            reloaded>>
    <3>1. storePC' \in {"idle", "resetB"}
      BY <2>2 DEF ResetA, ResetBFails, Fails
    <3>2. QED
      BY <1>0, <2>1, <2>2, <3>1
         DEF controlVars, ServiceInv, ServiceTypeOK, Undisturbed, Saving, Resetting, ModeFollowsStream,
             PartialOnlyWhenRefused, CleanMeansStored
  <2>3. CASE /\ ResetB
             /\ \E locked \in BOOLEAN : Apply(Defaults, locked)
             /\ reloaded' = TRUE
             /\ UNCHANGED <<mode, output>>
    <3>1. LoadedConfig' = Defaults /\ storePC' = "idle"
      BY <1>0, <2>3, ResetBKeepsInv DEF ResetB
    <3>2. /\ runtime' \in Settings /\ appliedPeriod' \in Periods
          /\ axis' \in Axes /\ leak' \in Leaks /\ tuning' \in Tunings
          /\ answer' \in {"OK", "FAILED"} /\ refused' \in BOOLEAN
          /\ turned' \in BOOLEAN
          /\ ~refused' => appliedPeriod' = runtime'.period
          /\ \/ /\ runtime' = SettingsOf(Defaults) /\ appliedPeriod' = Defaults.period
                /\ axis' = Defaults.axis /\ tuning' = Defaults.tuning
             \/ /\ answer' # "OK" /\ refused'
                /\ runtime' = runtime /\ axis' = axis /\ tuning' = tuning
      BY <1>0, <2>1, <2>3, ApplyEffect
    <3>3. QED
      BY <1>0, <2>3, <3>1, <3>2
         DEF ServiceInv, ServiceTypeOK, Undisturbed, Saving, Resetting, ModeFollowsStream,
             PartialOnlyWhenRefused, CleanMeansStored, InForceIsStored
  <2>4. QED
    BY <1>8, <2>2, <2>3 DEF ResetStep
<1>9. ASSUME OutputCommand \/ \E a \in Axes : EnableOn(a)
      PROVE  ServiceInv'
  <2>1. /\ storePC = "idle" /\ storePC' = "idle" /\ dirty' = dirty
        /\ output' \in {"off", "armed", "held"} /\ axis' \in Axes
        /\ turned' \in BOOLEAN /\ (turned' \/ (axis' = axis /\ ~turned))
        /\ UNCHANGED <<runtime, appliedPeriod, leak, tuning, mode, answer, refused, reloaded>>
        /\ LoadedConfig' = LoadedConfig
    <3>1. CASE OutputCommand
      BY <1>0, <3>1
         DEF OutputCommand, controlVars, storeVars, LoadedConfig, Selected, ServiceTypeOK
    <3>2. CASE \E a \in Axes : EnableOn(a)
      BY <1>0, <3>2 DEF EnableOn, storeVars, LoadedConfig, Selected, ServiceTypeOK
    <3>3. QED
      BY <1>9, <3>1, <3>2
  <2>2. QED
    BY <1>0, <2>1
       DEF ServiceInv, ServiceTypeOK, Undisturbed, Saving, Resetting, ModeFollowsStream,
           PartialOnlyWhenRefused, CleanMeansStored, InForceIsStored
<1>10. ASSUME PowerCycle
       PROVE  ServiceInv'
  <2>1. /\ LoadedConfig' = LoadedConfig /\ storePC' = "idle"
        /\ runtime' = SettingsOf(LoadedConfig) /\ appliedPeriod' = LoadedConfig.period
        /\ axis' = LoadedConfig.axis /\ tuning' = LoadedConfig.tuning /\ leak' = BootLeak
        /\ mode' = ModeOf(LoadedConfig.stream) /\ output' = "off" /\ answer' = "OK"
        /\ refused' = FALSE /\ reloaded' = FALSE /\ turned' = FALSE
    BY <1>10 DEF PowerCycle, StoreBoot, TakeSelected, LoadedConfig, Selected, BootMode
  <2>2. /\ SettingsOf(LoadedConfig) \in Settings /\ LoadedConfig.period \in Periods
        /\ LoadedConfig.stream \in BOOLEAN /\ LoadedConfig.axis \in Axes
        /\ LoadedConfig.tuning \in Tunings /\ BootLeak \in Leaks
    BY <1>0, ConfigParts, ConfigAssumption
  <2>3. ServiceTypeOK'
    BY <2>1, <2>2 DEF ServiceTypeOK, ModeOf
  <2>4. ModeFollowsStream' /\ PartialOnlyWhenRefused'
    BY <2>1 DEF ModeFollowsStream, PartialOnlyWhenRefused, SettingsOf
  <2>5. CleanMeansStored' /\ Undisturbed'
    BY <2>1 DEF CleanMeansStored, InForceIsStored, Undisturbed, Saving, Resetting
  <2>6. QED
    BY <2>3, <2>4, <2>5 DEF ServiceInv
<1>11. ASSUME UNCHANGED configVars
       PROVE  ServiceInv'
  BY <1>0, <1>11
     DEF configVars, storeVars, serviceVars, ServiceInv, ServiceTypeOK, Undisturbed,
         ModeFollowsStream, PartialOnlyWhenRefused, CleanMeansStored, InForceIsStored,
         Captured, LoadedConfig, Selected
<1> QED
  BY <1>1, <1>2, <1>3, <1>4, <1>5, <1>6, <1>7, <1>8, <1>9, <1>10, <1>11 DEF ConfigNext

\* Both halves together, and the step of the persistent cell.
LEMMA ConfigStepKeepsInv ==
  ASSUME ConfigInv, [ConfigNext]_configVars
  PROVE  ConfigInv' /\ [Cell!CellNext]_(Cell!cellVars)
<1>1. StoreInv' /\ [Cell!CellNext]_(Cell!cellVars)
  BY ServiceMovesStore, StoreStepKeepsInv DEF ConfigInv
<1>2. ServiceInv'
  BY ServiceStepKeepsInv
<1> QED
  BY <1>1, <1>2 DEF ConfigInv

-------------------------------------------------------------------------------
(* The theorems.                                                           *)

\* ConfigInv holds in every state of every behaviour of the service.
THEOREM ConfigInvHolds == ConfigSpec => []ConfigInv
BY ConfigInitInv, ConfigStepKeepsInv, PTL DEF ConfigSpec

\* Every variable of the store and of the service keeps its type.
THEOREM ConfigTypeCorrect == ConfigSpec => []ConfigTypeOK
<1>1. ConfigInv => ConfigTypeOK
  BY DEF ConfigInv, StoreInv, ServiceInv, ServiceTypeOK, ConfigTypeOK
<1> QED
  BY <1>1, ConfigInvHolds, PTL

\* Two valid records are one generation apart, so that the wrapping comparison
\* always finds the newer one, whatever the width of the counter.
THEOREM NewestIsFound == ConfigSpec => []NewestIsUnambiguous
<1>1. ConfigInv => NewestIsUnambiguous
  BY StoreInvImplies DEF ConfigInv
<1> QED
  BY <1>1, ConfigInvHolds, PTL

\* The dual-slot store implements the persistent cell: power cuts and failed
\* flash operations at any point never lose an acknowledged configuration.
THEOREM StoreImplementsCell == ConfigSpec => ImplementsCell
<1>1. ConfigInit => Cell!CellInit
  <2>1. ASSUME StoreInit PROVE LoadedConfig = Defaults
    <3>1. slots["A"].valid = FALSE /\ slots["B"].valid = FALSE
      BY <2>1 DEF StoreInit, SlotNames, Invalid
    <3>2. QED
      BY <3>1 DEF LoadedConfig, Selected
  <2>2. QED
    BY <2>1 DEF ConfigInit, StoreInit, Cell!CellInit
<1> QED
  BY <1>1, ConfigStepKeepsInv, ConfigInvHolds, PTL
     DEF ConfigSpec, ImplementsCell, Cell!CellSpec

\* While the status is clean and the last answer OK, what is in force is what
\* the next boot restores.
THEOREM CleanIsStored == ConfigSpec => []CleanMeansStored
<1>1. ConfigInv => CleanMeansStored
  BY DEF ConfigInv, ServiceInv
<1> QED
  BY <1>1, ConfigInvHolds, PTL

\* The protocol mode follows the streaming flag up to the next LOAD or RESET.
THEOREM ModeAgrees == ConfigSpec => []ModeFollowsStream
<1>1. ConfigInv => ModeFollowsStream
  BY DEF ConfigInv, ServiceInv
<1> QED
  BY <1>1, ConfigInvHolds, PTL

\* The sampling period differs from the configuration shown only after a
\* request that the logger's lock refused half way.
THEOREM PartialIsRefused == ConfigSpec => []PartialOnlyWhenRefused
<1>1. ConfigInv => PartialOnlyWhenRefused
  BY DEF ConfigInv, ServiceInv
<1> QED
  BY <1>1, ConfigInvHolds, PTL

\* A step that changes what is in force or applied and leaves it clean restores
\* the whole stored configuration, unless the logger's lock refused it or
\* CONTROL_ENABLE chose the axis.
THEOREM RestoredWhole == ConfigSpec => RestoreIsWhole
<1> DEFINE Whole == /\ runtime' = SettingsOf(LoadedConfig')
                    /\ appliedPeriod' = LoadedConfig'.period
                    /\ axis' = LoadedConfig'.axis /\ tuning' = LoadedConfig'.tuning
           LoadRefused == refused' /\ answer' # "OK" /\ UNCHANGED InForce
           SetRefused == refused' /\ UNCHANGED <<storeVars, InForce, answer>>
           Enabled == /\ output = "armed" /\ output' = "held"
                      /\ UNCHANGED <<storeVars, runtime, appliedPeriod, tuning>>
<1>1. ASSUME ConfigInv, [ConfigNext]_configVars,
             ~dirty', <<InForce, appliedPeriod>>' # <<InForce, appliedPeriod>>
      PROVE  Whole \/ LoadRefused \/ SetRefused \/ Enabled
  <2>1. StoreInv /\ ServiceTypeOK /\ LoadedConfig \in Configs /\ Defaults \in Configs
        /\ Undisturbed
    BY <1>1, StoreInvImplies, StoreAssumption DEF ConfigInv, ServiceInv
  <2>2. ASSUME NEW r \in Settings, SetConfig(r) PROVE SetRefused
    BY <1>1, <2>2 DEF SetConfig, SetRuntime, MarkDirty, controlVars, InForce
  <2>3. ASSUME NEW on \in BOOLEAN, SetStream(on) PROVE SetRefused
    BY <1>1, <2>3 DEF SetStream, SetConfig, SetRuntime, MarkDirty, controlVars, InForce
  <2>4. ASSUME \/ \E t \in Tunings, l \in Leaks : SetTuning(t, l)
               \/ \E a \in Axes : SetAxis(a)
        PROVE  FALSE
    BY <1>1, <2>4 DEF SetTuning, SetAxis, MarkDirty
  <2>5. ASSUME SaveCommand \/ SaveStep \/ ResetCommand \/ OutputCommand
               \/ UNCHANGED configVars
        PROVE  FALSE
    BY <1>1, <2>5
       DEF SaveCommand, SaveStep, ResetCommand, OutputCommand, configVars, serviceVars,
           controlVars, InForce
  <2>6. ASSUME NEW a \in Axes, EnableOn(a) PROVE Enabled
    BY <2>6 DEF EnableOn
  <2>7. CASE LoadCommand
    <3>1. LoadedConfig' = LoadedConfig /\ output = "off"
      BY <2>7 DEF LoadCommand, Safe, StoreLoad, TakeSelected, LoadedConfig, Selected
    <3>2. PICK locked \in BOOLEAN : Apply(LoadedConfig, locked)
      BY <2>7 DEF LoadCommand
    <3>3. QED
      BY <2>1, <3>1, <3>2, ApplyEffect DEF InForce
  <2>8. CASE ResetStep
    <3>1. ResetB /\ \E locked \in BOOLEAN : Apply(Defaults, locked)
      BY <1>1, <2>8 DEF ResetStep, controlVars, InForce
    <3>2. LoadedConfig' = Defaults /\ output = "off"
      BY <2>1, <3>1, ResetBKeepsInv DEF ResetB, Undisturbed, Resetting
    <3>3. QED
      BY <2>1, <3>1, <3>2, ApplyEffect DEF InForce
  <2>9. CASE PowerCycle
    BY <2>9 DEF PowerCycle, StoreBoot, TakeSelected, LoadedConfig, Selected
  <2>10. QED
    BY <1>1, <2>2, <2>3, <2>4, <2>5, <2>6, <2>7, <2>8, <2>9 DEF ConfigNext
<1> QED
  BY <1>1, ConfigInvHolds, PTL DEF ConfigSpec, RestoreIsWhole
===============================================================================
