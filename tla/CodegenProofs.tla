--------------------------- MODULE CodegenProofs ---------------------------
(***************************************************************************)
(* Proofs about Codegen: the allocator's invariants for every number of      *)
(* variables, every registerCount from 1 to 10, every number of slots that a *)
(* displacement reaches and every argument list.                             *)
(*                                                                          *)
(* The operations of codegen.c are operators on the record c, so each gets   *)
(* a lemma that says what it does to an arbitrary c; the steps of the        *)
(* specification then follow from the lemmas.                                *)
(***************************************************************************)
EXTENDS Codegen, TLAPS

-----------------------------------------------------------------------------
\* The LRU list as a set without repetitions.

Members(s) == {s[i] : i \in 1..Len(s)}
NoRepeat(s) == \A i, j \in 1..Len(s) : s[i] = s[j] => i = j

\* list_deattach takes one variable off the list and keeps the others.
LEMMA DeattachLemma ==
    ASSUME NEW s \in Seq(Vars), NoRepeat(s), NEW v \in Members(s)
    PROVE  /\ list_deattach(s, v) \in Seq(Vars)
           /\ NoRepeat(list_deattach(s, v))
           /\ Members(list_deattach(s, v)) = Members(s) \ {v}
<1> DEFINE p == Position(s, v)
           t == list_deattach(s, v)
<1>1. p \in 1..Len(s) /\ s[p] = v
  BY DEF Members, Position
<1>2. t \in Seq(Vars) /\ Len(t) = Len(s) - 1
  <2>1. Len(s) \in Nat /\ Len(s) >= 1
    BY <1>1
  <2>2. \A i \in 1..(Len(s) - 1) : (IF i < p THEN s[i] ELSE s[i + 1]) \in Vars
    BY <1>1, <2>1
  <2>3. t \in [1..(Len(s) - 1) -> Vars]
    BY <2>2 DEF list_deattach
  <2> QED BY <2>1, <2>3
<1>3. \A i \in 1..Len(t) : t[i] = IF i < p THEN s[i] ELSE s[i + 1]
  BY <1>2 DEF list_deattach
<1> HIDE DEF t, p
<1>4. NoRepeat(t)
  <2> SUFFICES ASSUME NEW i \in 1..Len(t), NEW j \in 1..Len(t), t[i] = t[j]
               PROVE  i = j
    BY DEF NoRepeat
  <2>1. /\ Len(s) \in Nat
        /\ i \in 1..Len(s) /\ i + 1 \in 1..Len(s)
        /\ j \in 1..Len(s) /\ j + 1 \in 1..Len(s)
    BY <1>2
  <2>2. /\ t[i] = IF i < p THEN s[i] ELSE s[i + 1]
        /\ t[j] = IF j < p THEN s[j] ELSE s[j + 1]
    BY <1>3
  <2>3. \A a, b \in 1..Len(s) : s[a] = s[b] => a = b
    BY DEF NoRepeat
  <2>4. p \in Int /\ i \in Int /\ j \in Int
    BY <1>1, <2>1
  <2>5. CASE i < p /\ j < p
    BY <2>1, <2>2, <2>3, <2>5
  <2>6. CASE i < p /\ ~(j < p)
    <3>1. s[i] = s[j + 1] 
      BY <2>2, <2>6
    <3> QED BY <2>1, <2>3, <2>4, <2>6, <3>1
  <2>7. CASE ~(i < p) /\ j < p
    <3>1. s[i + 1] = s[j]
      BY <2>2, <2>7
    <3> QED BY <2>1, <2>3, <2>4, <2>7, <3>1
  <2>8. CASE ~(i < p) /\ ~(j < p)
    <3>1. s[i + 1] = s[j + 1]
      BY <2>2, <2>8
    <3>2. i + 1 = j + 1
      BY <2>1, <2>3, <3>1
    <3> QED BY <2>4, <3>2
  <2> QED BY <2>5, <2>6, <2>7, <2>8
<1>5. Members(t) \subseteq Members(s) \ {v}
  BY <1>1, <1>2, <1>3 DEF NoRepeat, Members
<1>6. Members(s) \ {v} \subseteq Members(t)
  <2> SUFFICES ASSUME NEW i \in 1..Len(s), s[i] # v
               PROVE  \E j \in 1..Len(t) : t[j] = s[i]
    BY DEF Members
  <2>1. CASE i < p
    BY <2>1, <1>1, <1>2, <1>3
  <2>2. CASE i > p
    <3>1. i - 1 \in 1..Len(t) /\ t[i - 1] = s[i]
      BY <2>2, <1>1, <1>2, <1>3
    <3> QED BY <3>1
  <2> QED BY <2>1, <2>2, <1>1
<1> QED BY <1>2, <1>4, <1>5, <1>6 DEF t

\* list_add puts a variable that is not on the list at its end.
LEMMA AddLemma ==
    ASSUME NEW s \in Seq(Vars), NoRepeat(s), NEW v \in Vars, v \notin Members(s)
    PROVE  /\ list_add(s, v) \in Seq(Vars)
           /\ NoRepeat(list_add(s, v))
           /\ Members(list_add(s, v)) = Members(s) \cup {v}
<1> DEFINE t == Append(s, v)
<1>1. t \in Seq(Vars) /\ Len(t) = Len(s) + 1 /\ t[Len(s) + 1] = v
      /\ \A i \in 1..Len(s) : t[i] = s[i]
  OBVIOUS
<1> HIDE DEF t
<1>2. NoRepeat(t)
  BY <1>1 DEF NoRepeat, Members
<1>3. Members(t) \subseteq Members(s) \cup {v}
  BY <1>1 DEF Members
<1>4. Members(s) \cup {v} \subseteq Members(t)
  <2>1. \A i \in 1..Len(s) : i \in 1..Len(t)
    BY <1>1
  <2>2. Len(s) + 1 \in 1..Len(t)
    BY <1>1
  <2> QED BY <1>1, <2>1, <2>2 DEF Members
<1> QED BY <1>1, <1>2, <1>3, <1>4 DEF t, list_add

-----------------------------------------------------------------------------
\* What holds of the allocator whenever no call is being emitted.

Owners(c) == {v \in Vars : c.reg[v] >= 0}

Registers(c) ==
    /\ \A r \in Regs : c.registerStatus[r] # NoVar => c.reg[c.registerStatus[r]] = r
    /\ \A v \in Vars : c.reg[v] >= 0 => c.registerStatus[c.reg[v]] = v

Slots(c) ==
    /\ \A v \in Vars : c.stackPos[v] = -1 \/ c.stackPos[v] \in 1..c.frameSize
    /\ \A u, v \in Vars : (c.stackPos[u] = c.stackPos[v] /\ c.stackPos[u] # -1) => u = v
    /\ \A d \in Disps : (d >= 0 /\ c.mem[d] # NoVar) => c.frameSize > SlotReach

Good(c) ==
    /\ c \in CodegenType
    /\ Registers(c)
    /\ Slots(c)
    /\ NoRepeat(c.lru)
    /\ Members(c.lru) = Owners(c)

\* Slots that an 8-bit displacement reaches have the displacement meant.
LEMMA DispLemma ==
    /\ \A p \in Int : Disp(p) \in Disps
    /\ \A p \in 1..SlotReach : Disp(p) = -p
<1> DEFINE span == 2 * SlotReach
<1>1. SlotReach \in Nat \ {0} /\ span \in Nat \ {0}
  BY SlotReachAssumption
<1>2. ASSUME NEW p \in Int PROVE Disp(p) \in Disps
  <2>1. \A a \in Int, b \in Nat \ {0} : a % b \in 0..(b - 1)
    OBVIOUS
  <2>2. (SlotReach - p) % span \in 0..(span - 1)
    BY <1>1, <2>1
  <2> QED BY <1>1, <2>2 DEF Disp, Disps
<1>3. ASSUME NEW p \in 1..SlotReach PROVE Disp(p) = -p
  <2>1. \A b \in Nat \ {0} : \A a \in 0..(b - 1) : a % b = a
    OBVIOUS
  <2>2. span \in Nat \ {0} /\ SlotReach - p \in 0..(span - 1)
    BY <1>1
  <2>3. (SlotReach - p) % span = SlotReach - p
    BY <2>1, <2>2
  <2> QED BY <1>1, <2>3 DEF Disp
<1> QED BY <1>2, <1>3

\* The types of the fields of struct variable, one by one.
LEMMA FieldLemma ==
    ASSUME NEW c \in CodegenType, NEW v \in Vars
    PROVE  /\ c.frameSize \in Nat
           /\ c.stackPos[v] \in Int
           /\ Disp(c.stackPos[v]) \in Disps
           /\ c.reg[v] \in Int
           /\ c.reg[v] >= 0 => c.reg[v] \in Regs
           /\ ~(c.reg[v] >= 0) => c.reg[v] = -1
<1>1. c.frameSize \in Nat /\ c.stackPos[v] \in Int /\ c.reg[v] \in Regs \cup {-1}
  BY DEF CodegenType
<1>2. Disp(c.stackPos[v]) \in Disps
  BY <1>1, DispLemma
<1> QED BY <1>1, <1>2, RegisterCountAssumption DEF Regs

\* Up to SlotReach slots the char displacement reaches the slot it stands for (arch_store,
\* arch_loadReg).
LEMMA ReachLemma ==
    ASSUME NEW c \in CodegenType, Slots(c), c.frameSize <= SlotReach,
           NEW v \in Vars, c.stackPos[v] > 0
    PROVE  Disp(c.stackPos[v]) = -c.stackPos[v]
<1>1. c.frameSize \in Nat /\ c.stackPos[v] \in Int
  BY FieldLemma
<1>2. c.stackPos[v] \in 1..c.frameSize
  BY <1>1 DEF Slots
<1>3. c.stackPos[v] \in 1..SlotReach
  BY <1>1, <1>2, SlotReachAssumption
<1> QED BY <1>3, DispLemma

\* A slot for v: nothing else changes, and the frame only grows.
LEMMA SlotLemma ==
    ASSUME NEW c, Good(c), NEW v \in Vars
    PROVE  LET d == AllocateSlot(c, v)
           IN  /\ Good(d)
               /\ d.stackPos[v] > 0
               /\ d.frameSize >= c.frameSize
               /\ \A u \in Vars : c.stackPos[u] > 0 \/ u # v => d.stackPos[u] = c.stackPos[u]
               /\ d.registerStatus = c.registerStatus /\ d.lru = c.lru /\ d.reg = c.reg
               /\ d.regs = c.regs /\ d.mem = c.mem /\ d.highLoad = c.highLoad
<1> DEFINE d == AllocateSlot(c, v)
<1>1. c \in CodegenType /\ Slots(c)
  BY DEF Good
<1>2. CASE c.stackPos[v] < 0
  <2>1. d = [c EXCEPT !.frameSize = c.frameSize + 1, !.stackPos = [c.stackPos EXCEPT ![v] = c.frameSize + 1]]
    BY <1>2 DEF AllocateSlot
  <2> HIDE DEF d
  <2>2. /\ d.registerStatus = c.registerStatus /\ d.lru = c.lru /\ d.reg = c.reg
        /\ d.regs = c.regs /\ d.mem = c.mem /\ d.highLoad = c.highLoad
        /\ d.frameSize = c.frameSize + 1
        /\ d.stackPos = [c.stackPos EXCEPT ![v] = c.frameSize + 1]
    BY <1>1, <2>1 DEF CodegenType
  <2>3. d \in CodegenType
    <3>1. c.frameSize + 1 \in Nat /\ [c.stackPos EXCEPT ![v] = c.frameSize + 1] \in [Vars -> Int]
      BY <1>1 DEF CodegenType
    <3> QED BY <1>1, <2>1, <3>1 DEF CodegenType
  <2>4. Slots(d)
    <3>1. c.frameSize \in Nat /\ c.stackPos \in [Vars -> Int]
      BY <1>1 DEF CodegenType
    <3>2. ASSUME NEW u \in Vars
          PROVE  d.stackPos[u] = -1 \/ d.stackPos[u] \in 1..d.frameSize
      <4>1. c.stackPos[u] = -1 \/ c.stackPos[u] \in 1..c.frameSize
        BY <1>1 DEF Slots
      <4>2. d.stackPos[u] = IF u = v THEN c.frameSize + 1 ELSE c.stackPos[u]
        BY <2>2, <3>1
      <4> QED BY <2>2, <3>1, <4>1, <4>2
    <3>3. \A u, w \in Vars :
             (d.stackPos[u] = d.stackPos[w] /\ d.stackPos[u] # -1) => u = w
      BY <1>1, <2>2, <3>1 DEF Slots
    <3>4. ASSUME NEW x \in Disps, x >= 0, d.mem[x] # NoVar
          PROVE  d.frameSize > SlotReach
      <4>1. c.frameSize > SlotReach
        BY <1>1, <2>2, <3>4 DEF Slots
      <4> QED BY <2>2, <3>1, <4>1, SlotReachAssumption
    <3> QED BY <3>2, <3>3, <3>4 DEF Slots
  <2>5. Good(d)
    BY <2>2, <2>3, <2>4 DEF Good, Registers, Owners
  <2> QED BY <1>1, <1>2, <2>2, <2>5 DEF CodegenType, d
<1>3. CASE ~(c.stackPos[v] < 0)
  <2>1. d = c
    BY <1>3 DEF AllocateSlot
  <2> QED BY <1>1, <1>3, <2>1 DEF CodegenType, Slots
<1> QED BY <1>2, <1>3

\* variable_ref of a variable that owns a register only reorders the LRU list.
LEMMA BumpLemma ==
    ASSUME NEW c, Good(c), NEW v \in Vars, c.reg[v] >= 0
    PROVE  LET d == _lruBump(c, v)
           IN  /\ Good(d)
               /\ d.registerStatus = c.registerStatus /\ d.reg = c.reg
               /\ d.stackPos = c.stackPos /\ d.frameSize = c.frameSize
               /\ d.regs = c.regs /\ d.mem = c.mem /\ d.highLoad = c.highLoad
<1> DEFINE t == list_deattach(c.lru, v)
           d == _lruBump(c, v)
<1>1. c \in CodegenType /\ c.lru \in Seq(Vars) /\ NoRepeat(c.lru) /\ v \in Members(c.lru)
  BY DEF Good, Owners, CodegenType
<1>2. t \in Seq(Vars) /\ NoRepeat(t) /\ Members(t) = Members(c.lru) \ {v}
  BY <1>1, DeattachLemma
<1> HIDE DEF t
<1>3. /\ list_add(t, v) \in Seq(Vars)
      /\ NoRepeat(list_add(t, v))
      /\ Members(list_add(t, v)) = Members(t) \cup {v}
  BY <1>2, AddLemma
<1>4. d = [c EXCEPT !.lru = list_add(t, v)]
  BY DEF _lruBump, t
<1> HIDE DEF d
<1>5. /\ d.registerStatus = c.registerStatus /\ d.reg = c.reg
      /\ d.stackPos = c.stackPos /\ d.frameSize = c.frameSize
      /\ d.regs = c.regs /\ d.mem = c.mem /\ d.highLoad = c.highLoad
      /\ d.lru = list_add(t, v)
  BY <1>1, <1>4 DEF CodegenType
<1>6. d \in CodegenType
  BY <1>1, <1>3, <1>4 DEF CodegenType
<1>7. Members(d.lru) = Members(c.lru)
  BY <1>1, <1>2, <1>3, <1>5
<1>8. Good(d)
  BY <1>3, <1>5, <1>6, <1>7 DEF Good, Registers, Slots, Owners
<1> QED BY <1>5, <1>8 DEF d

-----------------------------------------------------------------------------
\* Spilling.

\* The store to the slot and the release of the register, in variable_store.
LEMMA ReleaseLemma ==
    ASSUME NEW c, Good(c), NEW v \in Vars, c.reg[v] >= 0, c.stackPos[v] > 0
    PROVE  LET d == Release(EmitStore(c, v), v)
           IN  /\ Good(d)
               /\ d.reg = [c.reg EXCEPT ![v] = -1]
               /\ d.registerStatus = [c.registerStatus EXCEPT ![c.reg[v]] = NoVar]
               /\ d.stackPos = c.stackPos /\ d.frameSize = c.frameSize
               /\ d.regs = c.regs /\ d.highLoad = c.highLoad
               /\ InPlace(c, v) /\ d.frameSize <= SlotReach =>
                     \A u \in Vars : InPlace(c, u) => InPlace(d, u)
<1> DEFINE p == Disp(c.stackPos[v])
           e == EmitStore(c, v)
           t == list_deattach(c.lru, v)
           d == Release(e, v)
<1>1. /\ c \in CodegenType /\ Registers(c) /\ Slots(c)
      /\ c.lru \in Seq(Vars) /\ NoRepeat(c.lru) /\ v \in Members(c.lru)
  BY DEF Good, Owners, CodegenType
<1>2. t \in Seq(Vars) /\ NoRepeat(t) /\ Members(t) = Members(c.lru) \ {v}
  BY <1>1, DeattachLemma
<1>3. p \in Disps /\ c.reg[v] \in Regs
  BY <1>1, FieldLemma
<1> HIDE DEF t, p
<1>4. e = [c EXCEPT !.mem = [c.mem EXCEPT ![p] = c.regs[c.reg[v]]]]
  BY DEF EmitStore, p
<1>5. /\ e.lru = c.lru /\ e.registerStatus = c.registerStatus /\ e.reg = c.reg
      /\ e \in CodegenType
  <2>1. [c.mem EXCEPT ![p] = c.regs[c.reg[v]]] \in [Disps -> Vars \cup {NoVar}]
    BY <1>1, <1>3 DEF CodegenType
  <2> QED BY <1>1, <1>4, <2>1 DEF CodegenType
<1>6. d = [e EXCEPT !.lru = t,
                    !.registerStatus = [c.registerStatus EXCEPT ![c.reg[v]] = NoVar],
                    !.reg = [c.reg EXCEPT ![v] = -1]]
  BY <1>5 DEF Release, t
<1> HIDE DEF d
<1>7. /\ d.lru = t
      /\ d.registerStatus = [c.registerStatus EXCEPT ![c.reg[v]] = NoVar]
      /\ d.reg = [c.reg EXCEPT ![v] = -1]
      /\ d.stackPos = c.stackPos /\ d.frameSize = c.frameSize
      /\ d.regs = c.regs /\ d.highLoad = c.highLoad
      /\ d.mem = [c.mem EXCEPT ![p] = c.regs[c.reg[v]]]
  BY <1>1, <1>4, <1>5, <1>6 DEF CodegenType
<1>8. d \in CodegenType
  <2>1. [c.registerStatus EXCEPT ![c.reg[v]] = NoVar] \in [Regs -> Vars \cup {NoVar}]
    BY <1>1, <1>3 DEF CodegenType
  <2>2. [c.reg EXCEPT ![v] = -1] \in [Vars -> Regs \cup {-1}]
    BY <1>1 DEF CodegenType
  <2> HIDE DEF e
  <2> QED BY <1>2, <1>5, <1>6, <2>1, <2>2 DEF CodegenType
<1>9. Registers(d)
  <2>1. ASSUME NEW r \in Regs, d.registerStatus[r] # NoVar
        PROVE  d.reg[d.registerStatus[r]] = r
    BY <1>1, <1>3, <1>7, <2>1 DEF Registers, CodegenType
  <2>2. ASSUME NEW u \in Vars, d.reg[u] >= 0
        PROVE  d.registerStatus[d.reg[u]] = u
    BY <1>1, <1>3, <1>7, <2>2 DEF Registers, CodegenType, Regs
  <2> QED BY <2>1, <2>2 DEF Registers
<1>10. Members(d.lru) = Owners(d)
  BY <1>1, <1>2, <1>3, <1>7 DEF Good, Owners, CodegenType
<1>11. Good(d)
  <2>1. ASSUME NEW x \in Disps, x >= 0, d.mem[x] # NoVar
        PROVE  d.frameSize > SlotReach
    <3>1. c.frameSize \in Nat /\ c.stackPos[v] \in Int /\ SlotReach \in Nat
      BY <1>1, FieldLemma, SlotReachAssumption
    <3>2. CASE c.frameSize <= SlotReach
      <4>1. p = -c.stackPos[v]
        BY <1>1, <3>2, ReachLemma DEF p
      <4>2. p # x
        BY <2>1, <3>1, <4>1
      <4>3. d.mem[x] = c.mem[x]
        BY <1>1, <1>7, <4>2 DEF CodegenType
      <4> QED BY <1>1, <1>7, <2>1, <4>3 DEF Slots
    <3>3. CASE ~(c.frameSize <= SlotReach)
      BY <1>7, <3>1, <3>3
    <3> QED BY <3>2, <3>3
  <2>2. Slots(d)
    BY <1>1, <1>7, <2>1 DEF Slots
  <2> QED BY <1>2, <1>7, <1>8, <1>9, <1>10, <2>2 DEF Good
<1>12. ASSUME InPlace(c, v), d.frameSize <= SlotReach, NEW u \in Vars, InPlace(c, u)
       PROVE  InPlace(d, u)
  <2>0. c.frameSize <= SlotReach
    BY <1>7, <1>12
  <2>1. p = -c.stackPos[v] /\ d.mem[p] = v
    <3>1. p = -c.stackPos[v]
      BY <1>1, <2>0, ReachLemma DEF p
    <3>2. c.mem \in [Disps -> Vars \cup {NoVar}] /\ c.regs[c.reg[v]] = v
      BY <1>1, <1>12 DEF InPlace, CodegenType
    <3> QED BY <1>3, <1>7, <3>1, <3>2
  <2>2. CASE u = v
    BY <1>1, <1>3, <1>7, <2>1, <2>2 DEF InPlace, CodegenType, p
  <2>3. CASE u # v /\ c.reg[u] >= 0
    BY <1>1, <1>7, <1>12, <2>3 DEF InPlace, CodegenType
  <2>4. CASE u # v /\ ~(c.reg[u] >= 0)
    <3>1. Disp(c.stackPos[u]) = -c.stackPos[u] /\ Disp(c.stackPos[u]) \in Disps
      BY <1>1, <1>12, <2>0, <2>4, ReachLemma, FieldLemma DEF InPlace
    <3>2. c.stackPos[u] # c.stackPos[v]
      BY <1>1, <2>4 DEF Slots, CodegenType
    <3>3. Disp(c.stackPos[u]) # p
      BY <1>1, <2>1, <3>1, <3>2 DEF CodegenType
    <3> QED BY <1>1, <1>3, <1>7, <1>12, <2>4, <3>1, <3>3 DEF InPlace, CodegenType
  <2> QED BY <2>2, <2>3, <2>4
<1> QED BY <1>7, <1>11, <1>12 DEF d

\* variable_store of a variable that owns a register.
LEMMA StoreHeldLemma ==
    ASSUME NEW c, Good(c), NEW v \in Vars, c.reg[v] >= 0
    PROVE  LET d == StoreHeld(c, v)
           IN  /\ Good(d)
               /\ d.reg = [c.reg EXCEPT ![v] = -1]
               /\ d.registerStatus = [c.registerStatus EXCEPT ![c.reg[v]] = NoVar]
               /\ d.frameSize >= c.frameSize /\ d.highLoad = c.highLoad
               /\ \A u \in Vars : u # v => d.stackPos[u] = c.stackPos[u]
               /\ InPlace(c, v) /\ d.frameSize <= SlotReach =>
                     \A u \in Vars : InPlace(c, u) => InPlace(d, u)
<1> DEFINE a == AllocateSlot(c, v)
           b == _lruBump(a, v)
           d == Release(EmitStore(b, v), v)
<1>1. /\ Good(a) /\ a.stackPos[v] > 0 /\ a.frameSize >= c.frameSize
      /\ \A u \in Vars : c.stackPos[u] > 0 \/ u # v => a.stackPos[u] = c.stackPos[u]
      /\ a.registerStatus = c.registerStatus /\ a.reg = c.reg
      /\ a.regs = c.regs /\ a.mem = c.mem /\ a.highLoad = c.highLoad
  BY SlotLemma
<1> HIDE DEF a
<1>2. /\ Good(b)
      /\ b.registerStatus = a.registerStatus /\ b.reg = a.reg
      /\ b.stackPos = a.stackPos /\ b.frameSize = a.frameSize
      /\ b.regs = a.regs /\ b.mem = a.mem /\ b.highLoad = a.highLoad
  BY <1>1, BumpLemma
<1> HIDE DEF b
<1>3. /\ Good(d)
      /\ d.reg = [b.reg EXCEPT ![v] = -1]
      /\ d.registerStatus = [b.registerStatus EXCEPT ![b.reg[v]] = NoVar]
      /\ d.stackPos = b.stackPos /\ d.frameSize = b.frameSize
      /\ d.regs = b.regs /\ d.highLoad = b.highLoad
      /\ InPlace(b, v) /\ d.frameSize <= SlotReach =>
            \A u \in Vars : InPlace(b, u) => InPlace(d, u)
  BY <1>1, <1>2, ReleaseLemma
<1>4. d = StoreHeld(c, v)
  BY DEF StoreHeld, a, b
<1> HIDE DEF d
<1>5. \A u \in Vars : InPlace(c, u) => InPlace(b, u)
  BY <1>1, <1>2 DEF InPlace
<1> QED BY <1>1, <1>2, <1>3, <1>4, <1>5

-----------------------------------------------------------------------------
\* Registers.

\* The loop of codegen_allocateReg finds the smallest of the free registers.
LEMMA SmallestLemma ==
    ASSUME NEW F, F \subseteq 0..9, F # {}
    PROVE  \E r \in F : \A q \in F : r <= q
<1>1. CASE 0 \in F \/ 1 \in F \/ 2 \in F \/ 3 \in F \/ 4 \in F
  BY <1>1
<1>2. CASE /\ ~(0 \in F \/ 1 \in F \/ 2 \in F \/ 3 \in F \/ 4 \in F)
           /\ 5 \in F \/ 6 \in F \/ 7 \in F \/ 8 \in F
  <2>1. F \subseteq 5..9
    BY <1>2
  <2> QED BY <1>2, <2>1
<1>3. CASE ~(\/ 0 \in F \/ 1 \in F \/ 2 \in F \/ 3 \in F \/ 4 \in F
             \/ 5 \in F \/ 6 \in F \/ 7 \in F \/ 8 \in F)
  <2>1. \A q \in F : q = 9
    BY <1>3
  <2>2. PICK q \in F : TRUE
    OBVIOUS
  <2> QED BY <2>1, <2>2
<1> QED BY <1>1, <1>2, <1>3

\* codegen_allocateReg returns a register without an owner.  It may spill one
\* variable, which keeps its value.
LEMMA AllocateLemma ==
    ASSUME NEW c, Good(c)
    PROVE  LET d == codegen_allocateReg(c)
               r == AllocatedReg(c)
           IN  /\ Good(d)
               /\ r \in Regs /\ d.registerStatus[r] = NoVar
               /\ d.frameSize >= c.frameSize /\ d.highLoad = c.highLoad
               /\ \A u \in Vars : c.reg[u] = -1 => d.reg[u] = -1 /\ d.stackPos[u] = c.stackPos[u]
               /\ (d.frameSize <= SlotReach /\ \A u \in Owners(c) : InPlace(c, u)) =>
                     \A u \in Vars : InPlace(c, u) => InPlace(d, u)
<1>1. c \in CodegenType /\ c.frameSize \in Nat
  BY DEF Good, CodegenType
<1>2. CASE Free(c) # {}
  <2>1. Free(c) \subseteq 0..9
    BY RegisterCountAssumption DEF Free, Regs
  <2>2. \E r \in Free(c) : \A q \in Free(c) : r <= q
    BY <1>2, <2>1, SmallestLemma
  <2>3. AllocatedReg(c) \in Free(c)
    BY <1>2, <2>2 DEF AllocatedReg
  <2>4. codegen_allocateReg(c) = c
    BY <1>2 DEF codegen_allocateReg
  <2> QED BY <1>1, <2>3, <2>4 DEF Free
<1>3. CASE Free(c) = {}
  <2> DEFINE h == Head(c.lru)
  <2>1. 0 \in Regs /\ \A r \in Regs : c.registerStatus[r] # NoVar
    BY <1>3, RegisterCountAssumption DEF Free, Regs
  <2>2. c.registerStatus[0] \in Members(c.lru)
    BY <1>1, <2>1 DEF Good, Registers, Owners, CodegenType
  <2>3. h \in Vars /\ h \in Members(c.lru)
    BY <1>1, <2>2 DEF Members, CodegenType
  <2>4. h \in Vars /\ h \in Owners(c) /\ c.reg[h] >= 0
    BY <2>3 DEF Good, Owners
  <2>5. codegen_allocateReg(c) = StoreHeld(c, h) /\ AllocatedReg(c) = c.reg[h]
    BY <1>3 DEF codegen_allocateReg, AllocatedReg
  <2> HIDE DEF h
  <2>6. c.reg[h] \in Regs
    BY <1>1, <2>4, FieldLemma
  <2> DEFINE d == StoreHeld(c, h)
  <2>7. /\ Good(d)
        /\ d.reg = [c.reg EXCEPT ![h] = -1]
        /\ d.registerStatus = [c.registerStatus EXCEPT ![c.reg[h]] = NoVar]
        /\ d.frameSize >= c.frameSize /\ d.highLoad = c.highLoad
        /\ \A u \in Vars : u # h => d.stackPos[u] = c.stackPos[u]
        /\ InPlace(c, h) /\ d.frameSize <= SlotReach =>
              \A u \in Vars : InPlace(c, u) => InPlace(d, u)
    BY <2>4, StoreHeldLemma
  <2> HIDE DEF d
  <2>8. d.registerStatus[c.reg[h]] = NoVar
    BY <1>1, <2>6, <2>7 DEF CodegenType
  <2>9. \A u \in Vars : c.reg[u] = -1 => d.reg[u] = -1 /\ d.stackPos[u] = c.stackPos[u]
    BY <1>1, <2>4, <2>7 DEF CodegenType
  <2> QED BY <2>4, <2>5, <2>6, <2>7, <2>8, <2>9 DEF d
<1> QED BY <1>2, <1>3

\* A variable outside the registers enters a register without an owner.
LEMMA OccupyLemma ==
    ASSUME NEW c, Good(c), NEW v \in Vars, c.reg[v] = -1,
           NEW r \in Regs, c.registerStatus[r] = NoVar
    PROVE  LET d == Occupy(c, v, r)
           IN  /\ Good(d)
               /\ d.reg = [c.reg EXCEPT ![v] = r]
               /\ d.registerStatus = [c.registerStatus EXCEPT ![r] = v]
               /\ d.stackPos = c.stackPos /\ d.frameSize = c.frameSize
               /\ d.regs = c.regs /\ d.mem = c.mem /\ d.highLoad = c.highLoad
               /\ \A u \in Vars : u # v => d.reg[u] # r
<1> DEFINE t == list_add(c.lru, v)
           d == Occupy(c, v, r)
<1>1. /\ c \in CodegenType /\ Registers(c) /\ Slots(c)
      /\ c.lru \in Seq(Vars) /\ NoRepeat(c.lru) /\ Members(c.lru) = Owners(c)
      /\ c.reg \in [Vars -> Regs \cup {-1}]
      /\ c.registerStatus \in [Regs -> Vars \cup {NoVar}]
  BY DEF Good, CodegenType
<1>2. r \in Int /\ r >= 0
  BY RegisterCountAssumption DEF Regs
<1>3. v \notin Members(c.lru)
  BY <1>1 DEF Owners
<1>4. t \in Seq(Vars) /\ NoRepeat(t) /\ Members(t) = Members(c.lru) \cup {v}
  BY <1>1, <1>3, AddLemma
<1>5. d = [c EXCEPT !.reg = [c.reg EXCEPT ![v] = r],
                    !.registerStatus = [c.registerStatus EXCEPT ![r] = v],
                    !.lru = t]
  BY DEF Occupy
<1> HIDE DEF t, d
<1>6. /\ d.reg = [c.reg EXCEPT ![v] = r]
      /\ d.registerStatus = [c.registerStatus EXCEPT ![r] = v]
      /\ d.stackPos = c.stackPos /\ d.frameSize = c.frameSize
      /\ d.regs = c.regs /\ d.mem = c.mem /\ d.highLoad = c.highLoad
      /\ d.lru = t
  BY <1>1, <1>5 DEF CodegenType
<1>7. d \in CodegenType
  <2>1. [c.reg EXCEPT ![v] = r] \in [Vars -> Regs \cup {-1}]
    BY <1>1
  <2>2. [c.registerStatus EXCEPT ![r] = v] \in [Regs -> Vars \cup {NoVar}]
    BY <1>1
  <2> QED BY <1>1, <1>4, <1>5, <2>1, <2>2 DEF CodegenType
<1>8. \A u \in Vars : c.reg[u] # r
  BY <1>1, <1>2, NoVarAssumption DEF Registers
<1>9. \A u \in Vars : u # v => d.reg[u] # r
  BY <1>1, <1>6, <1>8
<1>10. Registers(d)
  <2>1. ASSUME NEW q \in Regs, d.registerStatus[q] # NoVar
        PROVE  d.reg[d.registerStatus[q]] = q
    <3>1. CASE q = r
      BY <1>1, <1>6, <3>1
    <3>2. CASE q # r
      <4>1. d.registerStatus[q] = c.registerStatus[q]
        BY <1>1, <1>6, <3>2
      <4>2. c.registerStatus[q] \in Vars /\ c.reg[c.registerStatus[q]] = q
        BY <1>1, <2>1, <4>1 DEF Registers
      <4>3. c.registerStatus[q] # v
        BY <4>2, RegisterCountAssumption DEF Regs
      <4> QED BY <1>1, <1>6, <4>1, <4>2, <4>3
    <3> QED BY <3>1, <3>2
  <2>2. ASSUME NEW u \in Vars, d.reg[u] >= 0
        PROVE  d.registerStatus[d.reg[u]] = u
    <3>1. CASE u = v
      BY <1>1, <1>6, <3>1
    <3>2. CASE u # v
      <4>1. d.reg[u] = c.reg[u] /\ c.reg[u] # r /\ c.reg[u] >= 0
        BY <1>1, <1>6, <1>8, <2>2, <3>2
      <4>2. c.reg[u] \in Regs
        BY <1>1, <4>1, FieldLemma
      <4> QED BY <1>1, <1>6, <4>1, <4>2 DEF Registers
    <3> QED BY <3>1, <3>2
  <2> QED BY <2>1, <2>2 DEF Registers
<1>11. Members(d.lru) = Owners(d)
  BY <1>1, <1>2, <1>4, <1>6 DEF Owners
<1>12. Good(d)
  BY <1>1, <1>4, <1>6, <1>7, <1>10, <1>11 DEF Good, Slots
<1> QED BY <1>6, <1>9, <1>12 DEF d

\* codegen_newVarReg: the new variable owns r and r holds its value.
LEMMA NewVarLemma ==
    ASSUME NEW c, Good(c), NEW v \in Vars, c.reg[v] = -1,
           NEW r \in Regs, c.registerStatus[r] = NoVar
    PROVE  LET d == codegen_newVarReg(c, v, r)
           IN  /\ Good(d)
               /\ d.reg = [c.reg EXCEPT ![v] = r]
               /\ d.registerStatus = [c.registerStatus EXCEPT ![r] = v]
               /\ d.frameSize = c.frameSize /\ d.highLoad = c.highLoad
               /\ InPlace(d, v)
               /\ \A u \in Vars : InPlace(c, u) => InPlace(d, u)
<1> DEFINE o == Occupy(c, v, r)
           d == codegen_newVarReg(c, v, r)
<1>1. /\ Good(o)
      /\ o.reg = [c.reg EXCEPT ![v] = r]
      /\ o.registerStatus = [c.registerStatus EXCEPT ![r] = v]
      /\ o.stackPos = c.stackPos /\ o.frameSize = c.frameSize
      /\ o.regs = c.regs /\ o.mem = c.mem /\ o.highLoad = c.highLoad
      /\ \A u \in Vars : u # v => o.reg[u] # r
  BY OccupyLemma
<1>2. d = [o EXCEPT !.regs = [o.regs EXCEPT ![r] = v]]
  BY DEF codegen_newVarReg
<1> HIDE DEF o, d
<1>3. o \in CodegenType /\ c \in CodegenType
  BY <1>1 DEF Good
<1>4. /\ d.reg = o.reg /\ d.registerStatus = o.registerStatus /\ d.lru = o.lru
      /\ d.stackPos = o.stackPos /\ d.frameSize = o.frameSize
      /\ d.regs = [o.regs EXCEPT ![r] = v] /\ d.mem = o.mem /\ d.highLoad = o.highLoad
  BY <1>2, <1>3 DEF CodegenType
<1>5. d \in CodegenType
  <2>1. [o.regs EXCEPT ![r] = v] \in [Regs -> Vars \cup {NoVar}]
    BY <1>3 DEF CodegenType
  <2> QED BY <1>2, <1>3, <2>1 DEF CodegenType
<1>6. Good(d)
  BY <1>1, <1>4, <1>5 DEF Good, Registers, Slots, Owners
<1>7. InPlace(d, v)
  <2>1. d.reg[v] = r /\ r >= 0
    BY <1>1, <1>3, <1>4, RegisterCountAssumption DEF CodegenType, Regs
  <2> QED BY <1>3, <1>4, <2>1 DEF InPlace, CodegenType
<1>8. ASSUME NEW u \in Vars, u # v, InPlace(c, u)
      PROVE  InPlace(d, u)
  <2>1. d.reg[u] = c.reg[u] /\ d.reg[u] # r
    BY <1>1, <1>3, <1>4, <1>8 DEF CodegenType
  <2>2. d.reg[u] >= 0 => d.regs[d.reg[u]] = c.regs[d.reg[u]]
    BY <1>1, <1>3, <1>4, <1>5, <2>1, FieldLemma DEF CodegenType
  <2> QED BY <1>1, <1>4, <1>8, <2>1, <2>2 DEF InPlace
<1> QED BY <1>1, <1>4, <1>6, <1>7, <1>8 DEF d

\* emit_loadRegRBP64 changes what registers hold and nothing of the allocator;
\* when the register can be encoded it changes that register alone.
LEMMA LoadLemma ==
    ASSUME NEW c \in CodegenType, NEW v \in Vars, c.reg[v] >= 0
    PROVE  LET d == EmitLoad(c, v)
           IN  /\ d \in CodegenType
               /\ d.reg = c.reg /\ d.registerStatus = c.registerStatus /\ d.lru = c.lru
               /\ d.stackPos = c.stackPos /\ d.frameSize = c.frameSize /\ d.mem = c.mem
               /\ ~d.highLoad => /\ ~c.highLoad
                                 /\ d.regs = [c.regs EXCEPT ![c.reg[v]] = c.mem[Disp(c.stackPos[v])]]
<1> DEFINE d == EmitLoad(c, v)
           r == c.reg[v]
<1>1. r \in Regs /\ r \in Int /\ Disp(c.stackPos[v]) \in Disps
  BY FieldLemma
<1>2. CASE r <= 4
  <2>1. d = [c EXCEPT !.regs = [c.regs EXCEPT ![r] = c.mem[Disp(c.stackPos[v])]]]
    BY <1>2 DEF EmitLoad
  <2>2. [c.regs EXCEPT ![r] = c.mem[Disp(c.stackPos[v])]] \in [Regs -> Vars \cup {NoVar}]
    BY <1>1 DEF CodegenType
  <2> HIDE DEF d
  <2>3. d \in CodegenType
    BY <2>1, <2>2 DEF CodegenType
  <2>4. /\ d.reg = c.reg /\ d.registerStatus = c.registerStatus /\ d.lru = c.lru
        /\ d.stackPos = c.stackPos /\ d.frameSize = c.frameSize /\ d.mem = c.mem
        /\ d.highLoad = c.highLoad
        /\ d.regs = [c.regs EXCEPT ![r] = c.mem[Disp(c.stackPos[v])]]
    BY <2>1 DEF CodegenType
  <2> QED BY <2>3, <2>4 DEF d
<1>3. CASE ~(r <= 4)
  <2> DEFINE g == [q \in Regs |-> IF _getRealReg(q) = _getRealReg(r) - 8 THEN NoVar ELSE c.regs[q]]
  <2>1. d = [c EXCEPT !.highLoad = TRUE, !.regs = g]
    BY <1>3 DEF EmitLoad
  <2>2. g \in [Regs -> Vars \cup {NoVar}]
    BY DEF CodegenType
  <2> HIDE DEF d, g
  <2>3. d \in CodegenType
    BY <2>1, <2>2 DEF CodegenType
  <2>4. /\ d.reg = c.reg /\ d.registerStatus = c.registerStatus /\ d.lru = c.lru
        /\ d.stackPos = c.stackPos /\ d.frameSize = c.frameSize /\ d.mem = c.mem
        /\ d.highLoad
    BY <2>1 DEF CodegenType
  <2> QED BY <2>3, <2>4 DEF d
<1> QED BY <1>2, <1>3

\* What the operations on existing variables keep: the values of all variables,
\* and the place of the variables outside the registers.
Keeps(c, d, v) ==
    /\ d.frameSize >= c.frameSize
    /\ ~d.highLoad => ~c.highLoad
    /\ \A u \in Vars : c.reg[u] = -1 /\ u # v => d.reg[u] = -1
    /\ (Encodable(d) /\ InPlace(c, v) /\ \A u \in Owners(c) : InPlace(c, u)) =>
          \A u \in Vars : InPlace(c, u) => InPlace(d, u)

\* variable_ref puts v in a register.
LEMMA RefLemma ==
    ASSUME NEW c, Good(c), NEW v \in Vars
    PROVE  LET d == variable_ref(c, v)
           IN  /\ Good(d)
               /\ d.reg[v] >= 0
               /\ Keeps(c, d, v)
               /\ c.stackPos[v] > 0 => d.stackPos[v] > 0
<1> DEFINE d == variable_ref(c, v)
<1>1. c \in CodegenType /\ c.frameSize \in Nat
  BY DEF Good, CodegenType
<1>2. CASE c.reg[v] >= 0
  <2>1. d = _lruBump(c, v)
    BY <1>2 DEF variable_ref
  <2> HIDE DEF d
  <2>2. /\ Good(d)
        /\ d.registerStatus = c.registerStatus /\ d.reg = c.reg
        /\ d.stackPos = c.stackPos /\ d.frameSize = c.frameSize
        /\ d.regs = c.regs /\ d.mem = c.mem /\ d.highLoad = c.highLoad
    BY <1>2, <2>1, BumpLemma
  <2>3. Keeps(c, d, v)
    BY <1>1, <2>2 DEF Keeps, InPlace
  <2> QED BY <1>2, <2>2, <2>3 DEF d
<1>3. CASE ~(c.reg[v] >= 0)
  <2> DEFINE a == codegen_allocateReg(c)
             r == AllocatedReg(c)
             o == Occupy(a, v, r)
  <2>1. c.reg[v] = -1
    BY <1>1, <1>3, FieldLemma
  <2>2. d = EmitLoad(o, v)
    BY <1>3 DEF variable_ref
  <2>3. /\ Good(a)
        /\ r \in Regs /\ a.registerStatus[r] = NoVar
        /\ a.frameSize >= c.frameSize /\ a.highLoad = c.highLoad
        /\ \A u \in Vars : c.reg[u] = -1 => a.reg[u] = -1 /\ a.stackPos[u] = c.stackPos[u]
        /\ (a.frameSize <= SlotReach /\ \A u \in Owners(c) : InPlace(c, u)) =>
              \A u \in Vars : InPlace(c, u) => InPlace(a, u)
    BY AllocateLemma
  <2> HIDE DEF a, r, d
  <2>4. a.reg[v] = -1 /\ a.stackPos[v] = c.stackPos[v]
    BY <2>1, <2>3
  <2>5. /\ Good(o)
        /\ o.reg = [a.reg EXCEPT ![v] = r]
        /\ o.registerStatus = [a.registerStatus EXCEPT ![r] = v]
        /\ o.stackPos = a.stackPos /\ o.frameSize = a.frameSize
        /\ o.regs = a.regs /\ o.mem = a.mem /\ o.highLoad = a.highLoad
        /\ \A u \in Vars : u # v => o.reg[u] # r
    BY <2>3, <2>4, OccupyLemma
  <2> HIDE DEF o
  <2>6. /\ a \in CodegenType /\ o \in CodegenType
        /\ o.reg[v] = r /\ r \in Int /\ r >= 0
        /\ \A u \in Vars : u # v => o.reg[u] = a.reg[u]
    <3>1. a \in CodegenType /\ o \in CodegenType
      BY <2>3, <2>5 DEF Good
    <3>2. a.reg \in [Vars -> Regs \cup {-1}]
      BY <3>1 DEF CodegenType
    <3>3. r \in Int /\ r >= 0
      BY <2>3, RegisterCountAssumption DEF Regs
    <3> QED BY <2>5, <3>1, <3>2, <3>3
  <2>7. /\ d \in CodegenType
        /\ d.reg = o.reg /\ d.registerStatus = o.registerStatus /\ d.lru = o.lru
        /\ d.stackPos = o.stackPos /\ d.frameSize = o.frameSize /\ d.mem = o.mem
        /\ ~d.highLoad => /\ ~o.highLoad
                          /\ d.regs = [o.regs EXCEPT ![r] = o.mem[Disp(o.stackPos[v])]]
    BY <2>2, <2>6, LoadLemma
  <2>8. Good(d)
    BY <2>5, <2>7 DEF Good, Registers, Slots, Owners
  <2>9. ASSUME Encodable(d), InPlace(c, v), \A u \in Owners(c) : InPlace(c, u),
               NEW u \in Vars, InPlace(c, u)
        PROVE  InPlace(d, u)
    <3>1. InPlace(a, u) /\ InPlace(a, v)
      BY <2>3, <2>5, <2>7, <2>9 DEF Encodable
    <3>2. d.regs = [a.regs EXCEPT ![r] = a.mem[Disp(a.stackPos[v])]] /\ a.mem[Disp(a.stackPos[v])] = v
      BY <2>4, <2>5, <2>7, <2>9, <3>1 DEF Encodable, InPlace
    <3>3. CASE u = v
      BY <2>3, <2>6, <2>7, <3>2, <3>3 DEF InPlace, CodegenType
    <3>4. CASE u # v
      <4>1. d.reg[u] = a.reg[u] /\ d.reg[u] # r
        BY <2>5, <2>6, <2>7, <3>4
      <4>2. d.reg[u] >= 0 => d.regs[d.reg[u]] = a.regs[d.reg[u]]
        BY <2>6, <2>7, <3>2, <4>1, FieldLemma DEF CodegenType
      <4> QED BY <2>5, <2>7, <3>1, <4>1, <4>2 DEF InPlace
    <3> QED BY <3>3, <3>4
  <2>10. \A u \in Vars : c.reg[u] = -1 /\ u # v => d.reg[u] = -1
    BY <2>3, <2>6, <2>7
  <2>11. Keeps(c, d, v)
    BY <2>3, <2>5, <2>7, <2>9, <2>10 DEF Keeps
  <2> QED BY <2>4, <2>5, <2>6, <2>7, <2>8, <2>11 DEF d
<1> QED BY <1>2, <1>3

\* variable_store puts v in its slot and frees the register it had or took.
LEMMA StoreLemma ==
    ASSUME NEW c, Good(c), NEW v \in Vars
    PROVE  LET d == variable_store(c, v)
           IN  Good(d) /\ d.reg[v] = -1 /\ Keeps(c, d, v)
<1> DEFINE d == variable_store(c, v)
<1>1. c \in CodegenType /\ c.frameSize \in Nat
  BY DEF Good, CodegenType
<1>2. CASE c.reg[v] >= 0
  <2>1. d = StoreHeld(c, v)
    BY <1>2 DEF variable_store
  <2> HIDE DEF d
  <2>2. /\ Good(d)
        /\ d.reg = [c.reg EXCEPT ![v] = -1]
        /\ d.frameSize >= c.frameSize /\ d.highLoad = c.highLoad
        /\ InPlace(c, v) /\ d.frameSize <= SlotReach =>
              \A u \in Vars : InPlace(c, u) => InPlace(d, u)
    BY <1>2, <2>1, StoreHeldLemma
  <2>3. d.reg[v] = -1 /\ \A u \in Vars : c.reg[u] = -1 => d.reg[u] = -1
    BY <1>1, <2>2 DEF CodegenType
  <2>4. Keeps(c, d, v)
    BY <2>2, <2>3 DEF Keeps, Encodable
  <2> QED BY <2>2, <2>3, <2>4 DEF d
<1>3. CASE ~(c.reg[v] >= 0)
  <2> DEFINE a == AllocateSlot(c, v)
             b == variable_ref(a, v)
  <2>1. d = Release(EmitStore(b, v), v)
    BY <1>3 DEF variable_store
  <2>2. /\ Good(a) /\ a.stackPos[v] > 0 /\ a.frameSize >= c.frameSize
        /\ \A u \in Vars : c.stackPos[u] > 0 \/ u # v => a.stackPos[u] = c.stackPos[u]
        /\ a.registerStatus = c.registerStatus /\ a.reg = c.reg
        /\ a.regs = c.regs /\ a.mem = c.mem /\ a.highLoad = c.highLoad
    BY SlotLemma
  <2> HIDE DEF a
  <2>3. Good(b) /\ b.reg[v] >= 0 /\ Keeps(a, b, v) /\ b.stackPos[v] > 0
    BY <2>2, RefLemma
  <2> HIDE DEF b, d
  <2>4. /\ Good(d)
        /\ d.reg = [b.reg EXCEPT ![v] = -1]
        /\ d.frameSize = b.frameSize /\ d.highLoad = b.highLoad
        /\ InPlace(b, v) /\ d.frameSize <= SlotReach =>
              \A u \in Vars : InPlace(b, u) => InPlace(d, u)
    BY <2>1, <2>3, ReleaseLemma
  <2>5. /\ b \in CodegenType /\ b.reg \in [Vars -> Regs \cup {-1}]
        /\ a.frameSize \in Nat /\ b.frameSize \in Nat
    BY <2>2, <2>3 DEF Good, CodegenType
  <2>6. d.reg[v] = -1 /\ \A u \in Vars : u # v => d.reg[u] = b.reg[u]
    BY <2>4, <2>5
  <2>7. \A u \in Vars : InPlace(c, u) => InPlace(a, u)
    BY <2>2 DEF InPlace
  <2>8. Owners(a) = Owners(c)
    BY <2>2 DEF Owners
  <2>9. ASSUME Encodable(d), InPlace(c, v), \A u \in Owners(c) : InPlace(c, u)
        PROVE  \A u \in Vars : InPlace(c, u) => InPlace(d, u)
    <3>1. Encodable(b)
      BY <2>4, <2>9 DEF Encodable
    <3>2. InPlace(a, v) /\ \A u \in Owners(a) : InPlace(a, u)
      BY <2>7, <2>8, <2>9 DEF Owners
    <3>3. \A u \in Vars : InPlace(a, u) => InPlace(b, u)
      BY <2>3, <3>1, <3>2 DEF Keeps
    <3>4. InPlace(b, v) /\ d.frameSize <= SlotReach
      BY <2>9, <3>2, <3>3 DEF Encodable
    <3> QED BY <2>4, <2>7, <3>3, <3>4
  <2>10. Keeps(c, d, v)
    BY <1>1, <2>2, <2>3, <2>4, <2>5, <2>6, <2>9 DEF Keeps
  <2> QED BY <2>4, <2>6, <2>10 DEF d
<1> QED BY <1>2, <1>3

\* An instruction that writes the register of v.
LEMMA OverwriteLemma ==
    ASSUME NEW c, Good(c), NEW v \in Vars, c.reg[v] >= 0
    PROVE  LET d == Overwrite(c, v)
           IN  /\ Good(d)
               /\ d.reg = c.reg /\ d.frameSize = c.frameSize /\ d.highLoad = c.highLoad
               /\ \A u \in Vars : (u = v \/ InPlace(c, u)) => InPlace(d, u)
<1> DEFINE R == [r \in Regs |-> IF r = c.reg[v] THEN v
                                ELSE IF c.regs[r] = v THEN NoVar ELSE c.regs[r]]
           M == [x \in Disps |-> IF c.mem[x] = v THEN NoVar ELSE c.mem[x]]
           d == Overwrite(c, v)
<1>1. c \in CodegenType
  BY DEF Good
<1>2. d = [c EXCEPT !.regs = R, !.mem = M]
  BY DEF Overwrite
<1>3. R \in [Regs -> Vars \cup {NoVar}] /\ M \in [Disps -> Vars \cup {NoVar}]
  BY <1>1 DEF CodegenType
<1>4. /\ \A r \in Regs : R[r] = IF r = c.reg[v] THEN v
                                ELSE IF c.regs[r] = v THEN NoVar ELSE c.regs[r]
      /\ \A x \in Disps : M[x] = IF c.mem[x] = v THEN NoVar ELSE c.mem[x]
  OBVIOUS
<1> HIDE DEF R, M, d
<1>5. /\ d.reg = c.reg /\ d.registerStatus = c.registerStatus /\ d.lru = c.lru
      /\ d.stackPos = c.stackPos /\ d.frameSize = c.frameSize
      /\ d.regs = R /\ d.mem = M /\ d.highLoad = c.highLoad
  BY <1>1, <1>2 DEF CodegenType
<1>6. d \in CodegenType
  BY <1>1, <1>2, <1>3 DEF CodegenType
<1>7. Good(d)
  <2>1. \A x \in Disps : d.mem[x] # NoVar => c.mem[x] # NoVar
    BY <1>4, <1>5
  <2>2. Slots(d)
    BY <1>5, <2>1 DEF Good, Slots
  <2> QED BY <1>5, <1>6, <2>2 DEF Good, Registers, Owners
<1>8. c.reg[v] \in Regs
  BY <1>1, FieldLemma
<1>9. InPlace(d, v)
  BY <1>4, <1>5, <1>8 DEF InPlace
<1>10. ASSUME NEW u \in Vars, u # v, InPlace(c, u)
       PROVE  InPlace(d, u)
  <2>1. CASE c.reg[u] >= 0
    <3>1. c.reg[u] \in Regs /\ c.reg[u] # c.reg[v]
      BY <1>1, <1>10, <2>1, FieldLemma DEF Good, Registers
    <3> QED BY <1>4, <1>5, <1>10, <2>1, <3>1 DEF InPlace
  <2>2. CASE ~(c.reg[u] >= 0)
    <3>1. Disp(c.stackPos[u]) \in Disps
      BY <1>1, FieldLemma
    <3> QED BY <1>4, <1>5, <1>10, <2>2, <3>1 DEF InPlace
  <2> QED BY <2>1, <2>2
<1> QED BY <1>5, <1>7, <1>9, <1>10 DEF d

-----------------------------------------------------------------------------
\* The inductive invariant.  Good(cg) is what the operations rely on; the rest
\* says where the three loops stand.

\* The variables of the function's arguments are made one after another, in
\* registers that nobody else has.
ArgumentsState ==
    /\ NoRepeat(args)
    /\ k \in 0..Len(args)
    /\ \A i \in 1..Len(args) : i <= 6 /\ ArgRegs[i] \in Regs
    /\ created = {args[i] : i \in 1..k}
    /\ \A i \in 1..Len(args) : i > k => cg.registerStatus[ArgRegs[i]] = NoVar

\* Spilling leaves the registers below k without an owner.
SpillState ==
    /\ k \in 0..registerCount
    /\ \A r \in Regs : r < k => cg.registerStatus[r] = NoVar

\* The arguments of a call are at most six variables that exist.
CallArguments ==
    /\ registerCount >= 7
    /\ Len(args) < 7
    /\ \A i \in 1..Len(args) : args[i] \in created

\* Arguments up to k are passed: only they have a register, and every value is
\* in its slot.
CallState ==
    /\ k \in 0..Len(args)
    /\ \A r \in Regs : cg.registerStatus[r] = NoVar
    /\ Members(cg.lru) = {}
    /\ Slots(cg)
    /\ \A v \in Vars : cg.reg[v] >= 0 => \E i \in 1..k : args[i] = v /\ cg.reg[v] = ArgRegs[i]
    /\ Encodable(cg) =>
          /\ \A v \in created : cg.stackPos[v] > 0 /\ cg.mem[Disp(cg.stackPos[v])] = v
          /\ \A i \in 1..k : cg.regs[ArgRegs[i]] = args[i]

IInv ==
    /\ TypeOK
    /\ \A v \in Vars : v \notin created => cg.reg[v] = -1
    /\ phase # "call" => Good(cg) /\ ValueKept
    /\ phase = "arguments" => ArgumentsState
    /\ phase \in {"pop", "spill"} => SpillState
    /\ phase \in {"spill", "call"} => CallArguments
    /\ phase = "call" => CallState

\* codegen_init establishes the invariant.
LEMMA InitLemma == Init => IInv
<1> SUFFICES ASSUME Init PROVE IInv
  OBVIOUS
<1>1. /\ cg.registerStatus = [r \in Regs |-> NoVar] /\ cg.lru = <<>> /\ cg.frameSize = 0
      /\ cg.reg = [v \in Vars |-> -1] /\ cg.stackPos = [v \in Vars |-> -1]
      /\ cg.mem = [d \in Disps |-> NoVar]
      /\ created = {} /\ phase = "ready" /\ k = 0 /\ args = <<>>
  BY DEF Init, codegen_init
<1>2. cg \in CodegenType
  <2>1. [v \in Vars |-> -1] \in [Vars -> Regs \cup {-1}] /\ [v \in Vars |-> -1] \in [Vars -> Int]
    OBVIOUS
  <2> QED BY <2>1 DEF Init, codegen_init, CodegenType
<1>3. Good(cg)
  <2>1. Members(cg.lru) = {} /\ NoRepeat(cg.lru)
    BY <1>1 DEF Members, NoRepeat
  <2> QED BY <1>1, <1>2, <2>1 DEF Good, Registers, Slots, Owners
<1>4. TypeOK
  BY <1>1, <1>2 DEF TypeOK
<1> QED BY <1>1, <1>3, <1>4 DEF IInv, ValueKept

\* An operation that begins and ends outside the loops.
LEMMA ReadyLemma ==
    ASSUME IInv, phase = "ready", UNCHANGED <<phase, k, args>>,
           Good(cg'), created' \subseteq Vars,
           \A v \in Vars : v \notin created' => cg'.reg[v] = -1,
           Encodable(cg') => \A v \in created' : InPlace(cg', v)
    PROVE  IInv'
<1>1. TypeOK'
  BY DEF IInv, TypeOK, Good
<1>2. Good(cg)' /\ ValueKept'
  BY DEF ValueKept
<1> QED BY <1>1, <1>2 DEF IInv

\* Frames only grow and a load that cannot be encoded stays emitted, so if all
\* values had their place before an operation, they have it after.
LEMMA KeepsLemma ==
    ASSUME IInv, phase = "ready", NEW v \in created, NEW d, Good(d), Keeps(cg, d, v),
           Encodable(d)
    PROVE  \A u \in created : InPlace(d, u)
<1>1. cg \in CodegenType /\ d \in CodegenType /\ created \subseteq Vars
  BY DEF IInv, TypeOK, Good
<1>2. cg.frameSize \in Nat /\ d.frameSize \in Nat
  BY <1>1 DEF CodegenType
<1>3. Encodable(cg)
  BY <1>2, SlotReachAssumption DEF Keeps, Encodable
<1>4. \A u \in created : InPlace(cg, u)
  BY <1>3 DEF IInv, ValueKept
<1>5. Owners(cg) \subseteq created
  BY DEF IInv, Owners
<1> QED BY <1>1, <1>4, <1>5 DEF Keeps

\* codegen_newVar keeps the invariant, evicting the oldest variable if it must.
LEMMA NewVarStep ==
    ASSUME IInv, NEW v \in Vars, codegen_newVar(v)
    PROVE  IInv'
<1> DEFINE a == codegen_allocateReg(cg)
           r == AllocatedReg(cg)
<1>1. /\ Good(cg) /\ phase = "ready" /\ v \notin created /\ created \subseteq Vars
      /\ cg' = codegen_newVarReg(a, v, r) /\ created' = created \cup {v}
      /\ cg.reg[v] = -1
  BY DEF IInv, codegen_newVar, TypeOK
<1>2. /\ Good(a)
      /\ r \in Regs /\ a.registerStatus[r] = NoVar
      /\ a.frameSize >= cg.frameSize /\ a.highLoad = cg.highLoad
      /\ \A u \in Vars : cg.reg[u] = -1 => a.reg[u] = -1 /\ a.stackPos[u] = cg.stackPos[u]
      /\ (a.frameSize <= SlotReach /\ \A u \in Owners(cg) : InPlace(cg, u)) =>
            \A u \in Vars : InPlace(cg, u) => InPlace(a, u)
  BY <1>1, AllocateLemma
<1> HIDE DEF a, r
<1>3. /\ Good(cg')
      /\ cg'.reg = [a.reg EXCEPT ![v] = r]
      /\ cg'.frameSize = a.frameSize /\ cg'.highLoad = a.highLoad
      /\ InPlace(cg', v)
      /\ \A u \in Vars : InPlace(a, u) => InPlace(cg', u)
  <2>1. a.reg[v] = -1
    BY <1>1, <1>2
  <2> DEFINE n == codegen_newVarReg(a, v, r)
  <2>2. /\ Good(n)
        /\ n.reg = [a.reg EXCEPT ![v] = r]
        /\ n.registerStatus = [a.registerStatus EXCEPT ![r] = v]
        /\ n.frameSize = a.frameSize /\ n.highLoad = a.highLoad
        /\ InPlace(n, v)
        /\ \A u \in Vars : InPlace(a, u) => InPlace(n, u)
    BY <1>2, <2>1, NewVarLemma
  <2>3. cg' = n
    BY <1>1
  <2> HIDE DEF n
  <2> QED BY <2>2, <2>3
<1>4. \A u \in Vars : u \notin created' => cg'.reg[u] = -1
  <2>1. \A u \in Vars : u \notin created' => u # v /\ a.reg[u] = -1
    BY <1>1, <1>2 DEF IInv
  <2>2. a.reg \in [Vars -> Regs \cup {-1}]
    BY <1>2 DEF Good, CodegenType
  <2> QED BY <1>3, <2>1, <2>2
<1>5. ASSUME Encodable(cg') PROVE \A u \in created' : InPlace(cg', u)
  <2>1. cg.frameSize \in Nat /\ a.frameSize \in Nat
    BY <1>1, <1>2 DEF Good, CodegenType
  <2>2. Encodable(cg) /\ a.frameSize <= SlotReach
    BY <1>2, <1>3, <1>5, <2>1, SlotReachAssumption DEF Encodable
  <2>3. \A u \in created : InPlace(cg, u)
    BY <1>1, <2>2 DEF IInv, ValueKept
  <2>4. Owners(cg) \subseteq created
    BY DEF IInv, Owners
  <2>5. \A u \in created : InPlace(a, u)
    BY <1>1, <1>2, <2>2, <2>3, <2>4
  <2> QED BY <1>1, <1>3, <2>5
<1> QED BY <1>1, <1>3, <1>4, <1>5, ReadyLemma DEF codegen_newVar

\* variable_ref keeps the invariant.
LEMMA RefStep ==
    ASSUME IInv, NEW v \in Vars, Ref(v)
    PROVE  IInv'
<1>1. /\ Good(cg) /\ phase = "ready" /\ v \in created /\ created \subseteq Vars
      /\ cg' = variable_ref(cg, v) /\ created' = created
  BY DEF IInv, Ref, TypeOK
<1>2. Good(cg') /\ Keeps(cg, cg', v)
  BY <1>1, RefLemma
<1>3. \A u \in Vars : u \notin created' => cg'.reg[u] = -1
  BY <1>1, <1>2 DEF IInv, Keeps
<1>4. Encodable(cg') => \A u \in created' : InPlace(cg', u)
  BY <1>1, <1>2, KeepsLemma
<1> QED BY <1>1, <1>2, <1>3, <1>4, ReadyLemma DEF Ref

\* An instruction that writes the register variable_ref returned keeps it.
LEMMA WriteStep ==
    ASSUME IInv, NEW v \in Vars, Write(v)
    PROVE  IInv'
<1> DEFINE d == variable_ref(cg, v)
<1>1. /\ Good(cg) /\ phase = "ready" /\ v \in created /\ created \subseteq Vars
      /\ cg' = Overwrite(d, v) /\ created' = created
  BY DEF IInv, Write, TypeOK
<1>2. Good(d) /\ Keeps(cg, d, v) /\ d.reg[v] >= 0
  BY <1>1, RefLemma
<1> HIDE DEF d
<1>3. /\ Good(cg')
      /\ cg'.reg = d.reg /\ cg'.frameSize = d.frameSize /\ cg'.highLoad = d.highLoad
      /\ \A u \in Vars : (u = v \/ InPlace(d, u)) => InPlace(cg', u)
  BY <1>1, <1>2, OverwriteLemma
<1>4. \A u \in Vars : u \notin created' => cg'.reg[u] = -1
  BY <1>1, <1>2, <1>3 DEF IInv, Keeps
<1>5. Encodable(cg') => \A u \in created' : InPlace(cg', u)
  <2>1. Encodable(cg') => Encodable(d)
    BY <1>3 DEF Encodable
  <2> QED BY <1>1, <1>2, <1>3, <2>1, KeepsLemma
<1> QED BY <1>1, <1>3, <1>4, <1>5, ReadyLemma DEF Write

\* variable_store keeps the invariant, for a variable in memory too.
LEMMA StoreStep ==
    ASSUME IInv, NEW v \in Vars, Store(v)
    PROVE  IInv'
<1>1. /\ Good(cg) /\ phase = "ready" /\ v \in created /\ created \subseteq Vars
      /\ cg' = variable_store(cg, v) /\ created' = created
  BY DEF IInv, Store, TypeOK
<1>2. Good(cg') /\ Keeps(cg, cg', v)
  BY <1>1, StoreLemma
<1>3. \A u \in Vars : u \notin created' => cg'.reg[u] = -1
  BY <1>1, <1>2 DEF IInv, Keeps
<1>4. Encodable(cg') => \A u \in created' : InPlace(cg', u)
  BY <1>1, <1>2, KeepsLemma
<1> QED BY <1>1, <1>2, <1>3, <1>4, ReadyLemma DEF Store

\* codegen_initFunction.
LEMMA ArgRegsLemma ==
    /\ \A i \in 1..6 : ArgRegs[i] \in 1..6
    /\ \A i, j \in 1..6 : ArgRegs[i] = ArgRegs[j] => i = j
BY DEF ArgRegs

\* codegen_initFunction starts with all registers free.
LEMMA BeginFunctionStep ==
    ASSUME IInv, NEW vs \in ArgLists, BeginFunction(vs)
    PROVE  IInv'
<1>1. /\ Good(cg) /\ TypeOK /\ phase' = "arguments" /\ k' = 0 /\ args' = vs
      /\ cg' = cg /\ created' = created /\ created = {} /\ ValueKept
      /\ vs \in Seq(Vars)
  BY ArgListsAssumption DEF IInv, BeginFunction
<1>2. TypeOK'
  BY <1>1 DEF TypeOK
<1>3. \A r \in Regs : cg.registerStatus[r] = NoVar
  <2>1. \A v \in Vars : cg.reg[v] = -1
    BY <1>1 DEF IInv
  <2>2. \A r \in Regs : r # -1 /\ cg.registerStatus[r] \in Vars \cup {NoVar}
    BY <1>1, RegisterCountAssumption DEF Regs, Good, CodegenType
  <2> QED BY <1>1, <2>1, <2>2 DEF Good, Registers
<1>4. /\ DOMAIN vs = 1..Len(vs) /\ Len(vs) \in Nat
      /\ \A i \in 1..Len(vs) : i <= 6 /\ ArgRegs[i] \in Regs
      /\ NoRepeat(vs)
  BY <1>1 DEF BeginFunction, NoRepeat
<1>5. ArgumentsState'
  <2>1. created' = {vs[i] : i \in 1..0} /\ 0 \in 0..Len(vs)
    BY <1>1, <1>4
  <2> QED BY <1>1, <1>3, <1>4, <2>1 DEF ArgumentsState
<1>6. Good(cg)' /\ ValueKept'
  BY <1>1 DEF ValueKept
<1> QED BY <1>1, <1>2, <1>5, <1>6 DEF IInv

\* arch_initFunctionArg takes a register that no earlier argument has.
LEMMA FunctionArgStep ==
    ASSUME IInv, arch_initFunctionArg
    PROVE  IInv'
<1> DEFINE v == args[k + 1]
           r == ArgRegs[k + 1]
<1>1. /\ Good(cg) /\ TypeOK /\ ArgumentsState /\ phase = "arguments" /\ phase' = "arguments"
      /\ k' = k + 1 /\ args' = args /\ created' = created \cup {v}
      /\ cg' = codegen_newVarReg(cg, v, r)
      /\ created \subseteq Vars /\ args \in Seq(Vars) /\ k < Len(args)
  BY DEF IInv, arch_initFunctionArg, TypeOK
<1>2. /\ k \in Nat /\ Len(args) \in Nat /\ k + 1 \in 1..Len(args) /\ k + 1 \in 1..6
      /\ v \in Vars /\ r \in Regs /\ cg.registerStatus[r] = NoVar
  <2>1. k \in Nat /\ Len(args) \in Nat /\ k + 1 \in 1..Len(args)
    BY <1>1 DEF ArgumentsState
  <2> QED BY <1>1, <2>1 DEF ArgumentsState
<1>3. v \notin created
  BY <1>1, <1>2 DEF ArgumentsState, NoRepeat
<1>4. cg.reg[v] = -1
  BY <1>2, <1>3 DEF IInv
<1> HIDE DEF v, r
<1>5. /\ Good(cg')
      /\ cg'.reg = [cg.reg EXCEPT ![v] = r]
      /\ cg'.registerStatus = [cg.registerStatus EXCEPT ![r] = v]
      /\ cg'.frameSize = cg.frameSize /\ cg'.highLoad = cg.highLoad
      /\ InPlace(cg', v)
      /\ \A u \in Vars : InPlace(cg, u) => InPlace(cg', u)
  <2> DEFINE n == codegen_newVarReg(cg, v, r)
  <2>1. /\ Good(n)
        /\ n.reg = [cg.reg EXCEPT ![v] = r]
        /\ n.registerStatus = [cg.registerStatus EXCEPT ![r] = v]
        /\ n.frameSize = cg.frameSize /\ n.highLoad = cg.highLoad
        /\ InPlace(n, v)
        /\ \A u \in Vars : InPlace(cg, u) => InPlace(n, u)
    BY <1>1, <1>2, <1>4, NewVarLemma
  <2>2. cg' = n
    BY <1>1
  <2> HIDE DEF n
  <2> QED BY <2>1, <2>2
<1>6. TypeOK'
  BY <1>1, <1>2, <1>5 DEF TypeOK, Good
<1>7. \A u \in Vars : u \notin created' => cg'.reg[u] = -1
  BY <1>1, <1>5 DEF IInv, Good, CodegenType
<1>8. ValueKept'
  <2>1. Encodable(cg') => Encodable(cg)
    BY <1>5 DEF Encodable
  <2>2. Encodable(cg') => \A u \in created : InPlace(cg, u)
    BY <1>1, <2>1 DEF IInv, ValueKept
  <2> QED BY <1>1, <1>5, <2>2 DEF ValueKept
<1>9. ArgumentsState'
  <2>1. created' = {args[i] : i \in 1..(k + 1)}
    <3>1. 1..(k + 1) = (1..k) \cup {k + 1}
      BY <1>2
    <3> QED BY <1>1, <3>1 DEF ArgumentsState, v
  <2>2. ASSUME NEW i \in 1..Len(args), i > k + 1
        PROVE  cg'.registerStatus[ArgRegs[i]] = NoVar
    <3>1. i > k /\ i \in 1..6 /\ ArgRegs[i] \in Regs /\ i # k + 1
      BY <1>1, <1>2, <2>2 DEF ArgumentsState
    <3>2. cg.registerStatus[ArgRegs[i]] = NoVar /\ ArgRegs[i] # r
      BY <1>1, <1>2, <3>1, ArgRegsLemma DEF ArgumentsState, r
    <3>3. cg.registerStatus \in [Regs -> Vars \cup {NoVar}]
      BY <1>1 DEF Good, CodegenType
    <3> QED BY <1>2, <1>5, <3>1, <3>2, <3>3
  <2>3. k + 1 \in 0..Len(args)
    BY <1>2
  <2> QED BY <1>1, <2>1, <2>2, <2>3 DEF ArgumentsState
<1> QED BY <1>1, <1>5, <1>6, <1>7, <1>8, <1>9 DEF IInv

\* The steps that only move from one loop to another.
LEMMA PhaseStep ==
    ASSUME IInv, \/ EndFunctionArgs \/ codegen_popBlock \/ EndSpill
                 \/ \E vs \in ArgLists : arch_functionCall(vs)
    PROVE  IInv'
<1>1. cg' = cg /\ created' = created /\ phase # "call" /\ Good(cg) /\ TypeOK /\ ValueKept
  BY DEF IInv, EndFunctionArgs, codegen_popBlock, EndSpill, arch_functionCall
<1>2. Good(cg)' /\ ValueKept'
  BY <1>1 DEF ValueKept
<1>3. \A v \in Vars : v \notin created' => cg'.reg[v] = -1
  BY <1>1 DEF IInv
<1>4. CASE EndFunctionArgs
  <2>1. TypeOK' /\ phase' = "ready"
    BY <1>1, <1>4 DEF TypeOK, EndFunctionArgs
  <2> QED BY <1>2, <1>3, <2>1 DEF IInv
<1>5. CASE codegen_popBlock
  <2>1. TypeOK' /\ phase' = "pop" /\ k' = 0
    BY <1>1, <1>5 DEF TypeOK, codegen_popBlock
  <2>2. SpillState'
    BY <2>1, RegisterCountAssumption DEF SpillState, Regs
  <2> QED BY <1>2, <1>3, <2>1, <2>2 DEF IInv
<1>6. ASSUME NEW vs \in ArgLists, arch_functionCall(vs) PROVE IInv'
  <2>1. vs \in Seq(Vars)
    BY ArgListsAssumption
  <2>2. TypeOK' /\ phase' = "spill" /\ k' = 0 /\ args' = vs
    BY <1>1, <1>6, <2>1 DEF TypeOK, arch_functionCall
  <2>3. SpillState'
    BY <2>2, RegisterCountAssumption DEF SpillState, Regs
  <2>4. CallArguments'
    BY <1>6, <2>1, <2>2 DEF CallArguments, arch_functionCall
  <2> QED BY <1>2, <1>3, <2>2, <2>3, <2>4 DEF IInv
<1>7. CASE EndSpill
  <2>1. SpillState /\ k = registerCount /\ phase \in {"pop", "spill"} /\ args' = args /\ k' = 0
    BY <1>7 DEF IInv, EndSpill
  <2>2. \A r \in Regs : cg.registerStatus[r] = NoVar
    BY <2>1, RegisterCountAssumption DEF SpillState, Regs
  <2>3. CASE phase = "pop"
    <3>1. TypeOK' /\ phase' = "ready"
      BY <1>1, <1>7, <2>1, <2>3 DEF TypeOK, EndSpill
    <3> QED BY <1>2, <1>3, <3>1 DEF IInv
  <2>4. CASE phase = "spill"
    <3>1. TypeOK' /\ phase' = "call" /\ CallArguments
      BY <1>1, <1>7, <2>1, <2>4 DEF TypeOK, EndSpill, IInv
    <3>2. \A v \in Vars : ~(cg.reg[v] >= 0)
      <4> SUFFICES ASSUME NEW v \in Vars, cg.reg[v] >= 0 PROVE FALSE
        OBVIOUS
      <4>1. cg.reg[v] \in Regs /\ cg.registerStatus[cg.reg[v]] = v
        BY <1>1, FieldLemma DEF Good, Registers
      <4> QED BY <2>2, <4>1, NoVarAssumption
    <3>3. Members(cg.lru) = {}
      BY <1>1, <3>2 DEF Good, Owners
    <3>4. Encodable(cg) => \A v \in created : cg.stackPos[v] > 0 /\ cg.mem[Disp(cg.stackPos[v])] = v
      BY <1>1, <3>2 DEF ValueKept, InPlace, TypeOK
    <3>5. 0 \in 0..Len(args)
      BY <1>1 DEF TypeOK
    <3>6. CallState'
      BY <1>1, <2>1, <2>2, <3>2, <3>3, <3>4, <3>5 DEF CallState, Good
    <3>7. CallArguments'
      BY <1>1, <2>1, <3>1 DEF CallArguments
    <3> QED BY <1>3, <3>1, <3>6, <3>7 DEF IInv
  <2> QED BY <2>1, <2>3, <2>4
<1> QED BY <1>4, <1>5, <1>6, <1>7

\* One iteration of the loops of codegen_popBlock and arch_functionCall: the
\* registers up to this one are free afterwards.
LEMMA SpillStep ==
    ASSUME IInv, SpillRegister
    PROVE  IInv'
<1> DEFINE v == cg.registerStatus[k]
<1>1. /\ Good(cg) /\ TypeOK /\ SpillState /\ phase \in {"pop", "spill"}
      /\ phase' = phase /\ k' = k + 1 /\ args' = args /\ created' = created
      /\ created \subseteq Vars /\ k < registerCount
      /\ cg' = IF v = NoVar THEN cg ELSE variable_store(cg, v)
  BY DEF IInv, SpillRegister, TypeOK
<1>2. k \in Nat /\ k \in Regs /\ k + 1 \in 0..registerCount
  BY <1>1, RegisterCountAssumption DEF SpillState, Regs
<1>3. v \in Vars \cup {NoVar} /\ cg \in CodegenType
  BY <1>1, <1>2 DEF Good, CodegenType
<1>4. /\ Good(cg')
      /\ \A u \in Vars : u \notin created => cg'.reg[u] = -1
      /\ \A r \in Regs : r < k + 1 => cg'.registerStatus[r] = NoVar
      /\ Encodable(cg') => \A u \in created : InPlace(cg', u)
  <2>1. CASE v = NoVar
    <3>1. cg' = cg
      BY <1>1, <2>1
    <3>2. \A r \in Regs : r < k + 1 => r < k \/ r = k
      BY <1>2, RegisterCountAssumption DEF Regs
    <3>3. \A r \in Regs : r < k + 1 => cg.registerStatus[r] = NoVar
      BY <1>1, <2>1, <3>2 DEF SpillState
    <3> QED BY <1>1, <3>1, <3>3 DEF IInv, ValueKept
  <2>2. CASE v # NoVar
    <3>1. v \in Vars /\ cg.reg[v] = k /\ cg.reg[v] >= 0
      BY <1>1, <1>2, <1>3, <2>2 DEF Good, Registers
    <3>2. cg' = StoreHeld(cg, v)
      BY <1>1, <2>2, <3>1 DEF variable_store
    <3> HIDE DEF v
    <3>3. /\ Good(cg')
          /\ cg'.reg = [cg.reg EXCEPT ![v] = -1]
          /\ cg'.registerStatus = [cg.registerStatus EXCEPT ![k] = NoVar]
          /\ cg'.frameSize >= cg.frameSize /\ cg'.highLoad = cg.highLoad
          /\ InPlace(cg, v) /\ cg'.frameSize <= SlotReach =>
                \A u \in Vars : InPlace(cg, u) => InPlace(cg', u)
      BY <1>1, <3>1, <3>2, StoreHeldLemma
    <3>4. \A u \in Vars : u \notin created => cg'.reg[u] = -1
      BY <1>3, <3>3 DEF IInv, CodegenType
    <3>5. \A r \in Regs : r < k + 1 => cg'.registerStatus[r] = NoVar
      <4>1. \A r \in Regs : r < k + 1 => r < k \/ r = k
        BY <1>2, RegisterCountAssumption DEF Regs
      <4>2. cg.registerStatus \in [Regs -> Vars \cup {NoVar}]
        BY <1>3 DEF CodegenType
      <4> QED BY <1>1, <1>2, <3>3, <4>1, <4>2 DEF SpillState
    <3>6. v \in created
      BY <1>2, <3>1 DEF IInv
    <3>7. ASSUME Encodable(cg') PROVE \A u \in created : InPlace(cg', u)
      <4>1. cg.frameSize \in Nat /\ cg'.frameSize \in Nat
        BY <1>3, <3>3 DEF Good, CodegenType
      <4>2. Encodable(cg) /\ cg'.frameSize <= SlotReach
        BY <3>3, <3>7, <4>1, SlotReachAssumption DEF Encodable
      <4>3. \A u \in created : InPlace(cg, u)
        BY <1>1, <4>2 DEF IInv, ValueKept
      <4> QED BY <1>1, <3>3, <3>6, <4>2, <4>3
    <3> QED BY <3>3, <3>4, <3>5, <3>7
  <2> QED BY <2>1, <2>2
<1>5. TypeOK'
  BY <1>1, <1>2, <1>4 DEF TypeOK, Good
<1>6. SpillState'
  BY <1>1, <1>2, <1>4 DEF SpillState
<1>7. phase = "spill" => CallArguments'
  BY <1>1 DEF IInv, CallArguments
<1>8. ValueKept'
  BY <1>1, <1>4 DEF ValueKept
<1> QED BY <1>1, <1>4, <1>5, <1>6, <1>7, <1>8 DEF IInv

\* One iteration of the second loop of arch_functionCall: the arguments passed so
\* far stay in their registers.
LEMMA PassArgumentStep ==
    ASSUME IInv, PassArgument
    PROVE  IInv'
<1> DEFINE v == args[k + 1]
           r == ArgRegs[k + 1]
<1>1. /\ TypeOK /\ CallState /\ CallArguments /\ phase = "call"
      /\ phase' = "call" /\ k' = k + 1 /\ args' = args /\ created' = created
      /\ cg \in CodegenType /\ created \subseteq Vars /\ args \in Seq(Vars) /\ k < Len(args)
      /\ cg' = IF cg.reg[v] = -1 THEN EmitLoad([cg EXCEPT !.reg[v] = r], v)
               ELSE [cg EXCEPT !.regs[r] = cg.regs[cg.reg[v]]]
  BY DEF IInv, PassArgument, TypeOK
<1>2. /\ k \in Nat /\ k + 1 \in 0..Len(args) /\ k + 1 \in 1..Len(args) /\ k + 1 \in 1..6
      /\ v \in created /\ v \in Vars
  <2>1. k \in Nat /\ Len(args) \in Nat /\ k + 1 \in 0..Len(args) /\ k + 1 \in 1..Len(args)
    BY <1>1 DEF CallState
  <2> QED BY <1>1, <2>1 DEF CallArguments
<1>3. /\ \A i \in 1..(k + 1) : ArgRegs[i] \in Regs
      /\ r \in Regs
      /\ \A i \in 1..k : i \in 1..(k + 1) /\ ArgRegs[i] # r
      /\ \A i \in 1..(k + 1) : i \in 1..k \/ i = k + 1
  <2>1. \A i \in 1..(k + 1) : i \in 1..6
    BY <1>2
  <2>2. \A i \in 1..6 : ArgRegs[i] \in Regs
    BY <1>1, ArgRegsLemma, RegisterCountAssumption DEF Regs, CallArguments
  <2>3. \A i \in 1..k : i \in 1..(k + 1) /\ i # k + 1
    BY <1>2
  <2>4. \A i \in 1..(k + 1) : i \in 1..k \/ i = k + 1
    BY <1>2
  <2> QED BY <1>2, <2>1, <2>2, <2>3, <2>4, ArgRegsLemma
<1>4. v = args[k + 1] /\ r = ArgRegs[k + 1] /\ r \in Int /\ r >= 0
  BY <1>3, RegisterCountAssumption DEF Regs
<1> HIDE DEF v, r
\* What the two ways to pass an argument have in common.
<1>5. /\ cg' \in CodegenType
      /\ cg'.registerStatus = cg.registerStatus /\ cg'.lru = cg.lru
      /\ cg'.stackPos = cg.stackPos /\ cg'.frameSize = cg.frameSize /\ cg'.mem = cg.mem
      /\ cg'.reg = cg.reg \/ cg'.reg = [cg.reg EXCEPT ![v] = r]
      /\ Encodable(cg') =>
            /\ Encodable(cg)
            /\ cg'.regs = [cg.regs EXCEPT ![r] = v]
  <2>1. CASE cg.reg[v] = -1
    <3> DEFINE c == [cg EXCEPT !.reg = [cg.reg EXCEPT ![v] = r]]
    <3>1. [cg.reg EXCEPT ![v] = r] \in [Vars -> Regs \cup {-1}]
      BY <1>1, <1>3 DEF CodegenType
    <3>2. /\ c \in CodegenType
          /\ c.registerStatus = cg.registerStatus /\ c.lru = cg.lru
          /\ c.stackPos = cg.stackPos /\ c.frameSize = cg.frameSize
          /\ c.regs = cg.regs /\ c.mem = cg.mem /\ c.highLoad = cg.highLoad
          /\ c.reg = [cg.reg EXCEPT ![v] = r]
      BY <1>1, <3>1 DEF CodegenType
    <3>3. cg' = EmitLoad(c, v)
      BY <1>1, <2>1
    <3> HIDE DEF c
    <3>4. c.reg[v] = r
      BY <1>1, <1>2, <3>2 DEF CodegenType
    <3> DEFINE d == EmitLoad(c, v)
    <3>5. /\ d \in CodegenType
          /\ d.reg = c.reg /\ d.registerStatus = c.registerStatus /\ d.lru = c.lru
          /\ d.stackPos = c.stackPos /\ d.frameSize = c.frameSize /\ d.mem = c.mem
          /\ ~d.highLoad => /\ ~c.highLoad
                            /\ d.regs = [c.regs EXCEPT ![r] = c.mem[Disp(c.stackPos[v])]]
      <4>1. c.reg[v] >= 0
        BY <1>4, <3>4
      <4>2. /\ d \in CodegenType
            /\ d.reg = c.reg /\ d.registerStatus = c.registerStatus /\ d.lru = c.lru
            /\ d.stackPos = c.stackPos /\ d.frameSize = c.frameSize /\ d.mem = c.mem
            /\ ~d.highLoad => /\ ~c.highLoad
                              /\ d.regs = [c.regs EXCEPT ![c.reg[v]] = c.mem[Disp(c.stackPos[v])]]
        BY <1>2, <3>2, <4>1, LoadLemma
      <4> QED BY <3>4, <4>2
    <3> HIDE DEF d
    <3>6. Encodable(d) => Encodable(cg)
      BY <3>2, <3>5 DEF Encodable
    <3>7. Encodable(cg) => cg.mem[Disp(cg.stackPos[v])] = v
      BY <1>1, <1>2 DEF CallState
    <3>8. Encodable(d) => d.regs = [cg.regs EXCEPT ![r] = v]
      BY <3>2, <3>5, <3>6, <3>7 DEF Encodable
    <3>9. cg' = d
      BY <3>3 DEF d
    <3> QED BY <3>2, <3>5, <3>6, <3>8, <3>9
  <2>2. CASE cg.reg[v] # -1
    <3>1. cg.reg[v] \in Regs /\ cg.reg[v] >= 0
      BY <1>1, <1>2, <2>2, FieldLemma
    <3>2. cg' = [cg EXCEPT !.regs = [cg.regs EXCEPT ![r] = cg.regs[cg.reg[v]]]]
      BY <1>1, <2>2
    <3>3. [cg.regs EXCEPT ![r] = cg.regs[cg.reg[v]]] \in [Regs -> Vars \cup {NoVar}]
      BY <1>1, <1>3, <3>1 DEF CodegenType
    <3>4. /\ cg'.registerStatus = cg.registerStatus /\ cg'.lru = cg.lru
          /\ cg'.stackPos = cg.stackPos /\ cg'.frameSize = cg.frameSize /\ cg'.mem = cg.mem
          /\ cg'.reg = cg.reg /\ cg'.highLoad = cg.highLoad
          /\ cg'.regs = [cg.regs EXCEPT ![r] = cg.regs[cg.reg[v]]]
      BY <1>1, <3>2 DEF CodegenType
    <3>5. cg' \in CodegenType
      BY <1>1, <3>2, <3>3 DEF CodegenType
    <3>6. Encodable(cg') => Encodable(cg)
      BY <3>4 DEF Encodable
    <3>7. Encodable(cg) => cg.regs[cg.reg[v]] = v
      BY <1>1, <1>2, <3>1 DEF CallState
    <3> QED BY <3>4, <3>5, <3>6, <3>7
  <2> QED BY <2>1, <2>2
<1>6. cg.reg \in [Vars -> Regs \cup {-1}] /\ cg.regs \in [Regs -> Vars \cup {NoVar}]
  BY <1>1 DEF CodegenType
<1>7. TypeOK'
  BY <1>1, <1>2, <1>5 DEF TypeOK
<1>8. \A u \in Vars : u \notin created' => cg'.reg[u] = -1
  BY <1>1, <1>2, <1>5, <1>6 DEF IInv
<1>9. CallArguments'
  BY <1>1 DEF CallArguments
<1>10. CallState'
  <2>1. \A r1 \in Regs : cg'.registerStatus[r1] = NoVar
    BY <1>1, <1>5 DEF CallState
  <2>2. Members(cg'.lru) = {} /\ Slots(cg')
    <3>1. Members(cg.lru) = {} /\ Slots(cg)
      BY <1>1 DEF CallState
    <3>2. /\ cg'.lru = cg.lru /\ cg'.stackPos = cg.stackPos
          /\ cg'.frameSize = cg.frameSize /\ cg'.mem = cg.mem
      BY <1>5
    <3> QED BY <3>1, <3>2 DEF Slots
  <2>3. ASSUME NEW u \in Vars, cg'.reg[u] >= 0
        PROVE  \E i \in 1..(k + 1) : args[i] = u /\ cg'.reg[u] = ArgRegs[i]
    <3>1. CASE cg'.reg[u] = cg.reg[u]
      <4>1. PICK i \in 1..k : args[i] = u /\ cg.reg[u] = ArgRegs[i]
        BY <1>1, <2>3, <3>1 DEF CallState
      <4> QED BY <1>3, <3>1, <4>1
    <3>2. CASE cg'.reg[u] # cg.reg[u]
      <4>1. u = v /\ cg'.reg[u] = r
        BY <1>2, <1>5, <1>6, <3>2
      <4>2. k + 1 \in 1..(k + 1)
        BY <1>2
      <4> QED BY <1>4, <4>1, <4>2
    <3> QED BY <3>1, <3>2
  <2>4. ASSUME Encodable(cg')
        PROVE  /\ \A u \in created : cg'.stackPos[u] > 0 /\ cg'.mem[Disp(cg'.stackPos[u])] = u
               /\ \A i \in 1..(k + 1) : cg'.regs[ArgRegs[i]] = args[i]
    <3>1. /\ Encodable(cg)
          /\ cg'.regs = [cg.regs EXCEPT ![r] = v]
          /\ \A u \in created : cg.stackPos[u] > 0 /\ cg.mem[Disp(cg.stackPos[u])] = u
          /\ \A i \in 1..k : cg.regs[ArgRegs[i]] = args[i]
      BY <1>1, <1>5, <2>4 DEF CallState
    <3>2. \A i \in 1..k : cg'.regs[ArgRegs[i]] = args[i]
      BY <1>3, <1>6, <3>1
    <3>3. cg'.regs[ArgRegs[k + 1]] = args[k + 1]
      BY <1>3, <1>4, <1>6, <3>1
    <3> QED BY <1>3, <1>5, <3>1, <3>2, <3>3
  <2> QED BY <1>1, <1>2, <2>1, <2>2, <2>3, <2>4, ZenonT(40) DEF CallState
<1> QED BY <1>1, <1>7, <1>8, <1>9, <1>10 DEF IInv

\* After the call every variable is in its slot and no register has an owner.
LEMMA EmitCallStep ==
    ASSUME IInv, EmitCall
    PROVE  IInv'
<1> DEFINE g == [v \in Vars |-> IF \E i \in DOMAIN args : args[i] = v THEN -1 ELSE cg.reg[v]]
           w == [r \in Regs |-> NoVar]
<1>1. /\ TypeOK /\ CallState /\ CallArguments /\ cg \in CodegenType /\ created \subseteq Vars
      /\ cg' = [cg EXCEPT !.reg = g, !.regs = w]
      /\ phase' = "ready" /\ k' = 0 /\ args' = <<>> /\ created' = created
      /\ args \in Seq(Vars) /\ DOMAIN args = 1..Len(args) /\ k = Len(args)
  BY DEF IInv, EmitCall, TypeOK
<1>2. \A v \in Vars : g[v] = -1
  <2> SUFFICES ASSUME NEW v \in Vars, ~\E i \in 1..Len(args) : args[i] = v
               PROVE  cg.reg[v] = -1
    BY <1>1
  <2>1. ~(cg.reg[v] >= 0)
    BY <1>1 DEF CallState
  <2> QED BY <1>1, <2>1, FieldLemma
<1>3. g \in [Vars -> Regs \cup {-1}] /\ w \in [Regs -> Vars \cup {NoVar}]
  BY <1>2
<1> HIDE DEF g, w
<1>4. /\ cg'.registerStatus = cg.registerStatus /\ cg'.lru = cg.lru /\ cg'.reg = g
      /\ cg'.stackPos = cg.stackPos /\ cg'.frameSize = cg.frameSize /\ cg'.mem = cg.mem
      /\ cg'.highLoad = cg.highLoad
  BY <1>1 DEF CodegenType
<1>5. cg' \in CodegenType
  BY <1>1, <1>3 DEF CodegenType
<1>6. Good(cg')
  <2>1. NoRepeat(cg'.lru)
    BY <1>1, <1>4, ZenonT(40) DEF CallState, Members, NoRepeat
  <2>2. Members(cg'.lru) = Owners(cg')
    BY <1>1, <1>2, <1>4 DEF CallState, Owners
  <2>3. Registers(cg') /\ Slots(cg')
    BY <1>1, <1>2, <1>4 DEF CallState, Registers, Slots
  <2> QED BY <1>5, <2>1, <2>2, <2>3 DEF Good
<1>7. Encodable(cg') => \A v \in created' : InPlace(cg', v)
  BY <1>1, <1>2, <1>4 DEF CallState, Encodable, InPlace
<1>8. TypeOK'
  BY <1>1, <1>5 DEF TypeOK
<1>9. Good(cg)' /\ ValueKept'
  BY <1>6, <1>7 DEF ValueKept
<1>10. \A v \in Vars : cg'.reg[v] = -1
  BY <1>2, <1>4
<1> QED BY <1>1, <1>8, <1>9, <1>10 DEF IInv

\* Every step of the allocator keeps the invariant.
LEMMA NextLemma == IInv /\ [Next]_vars => IInv'
<1> SUFFICES ASSUME IInv, [Next]_vars PROVE IInv'
  OBVIOUS
<1>1. CASE UNCHANGED vars
  BY <1>1 DEF vars, IInv, TypeOK, ValueKept, ArgumentsState, SpillState, CallArguments, CallState
<1>2. ASSUME NEW vs \in ArgLists, BeginFunction(vs) PROVE IInv'
  BY <1>2, BeginFunctionStep
<1>3. ASSUME NEW vs \in ArgLists, arch_functionCall(vs) PROVE IInv'
  BY <1>3, PhaseStep
<1>4. ASSUME NEW v \in Vars, codegen_newVar(v) \/ Ref(v) \/ Write(v) \/ Store(v) PROVE IInv'
  BY <1>4, NewVarStep, RefStep, WriteStep, StoreStep
<1>5. CASE arch_initFunctionArg
  BY <1>5, FunctionArgStep
<1>6. CASE EndFunctionArgs \/ codegen_popBlock \/ EndSpill
  BY <1>6, PhaseStep
<1>7. CASE SpillRegister
  BY <1>7, SpillStep
<1>8. CASE PassArgument
  BY <1>8, PassArgumentStep
<1>9. CASE EmitCall
  BY <1>9, EmitCallStep
<1> QED BY <1>1, <1>2, <1>3, <1>4, <1>5, <1>6, <1>7, <1>8, <1>9 DEF Next

-----------------------------------------------------------------------------
\* Every reachable state of codegen.c has the inductive invariant.
THEOREM Invariant == Spec => []IInv
BY InitLemma, NextLemma, PTL DEF Spec

\* struct codegen and the variables' fields keep their types.
THEOREM TypeCorrect == Spec => []TypeOK
<1>1. IInv => TypeOK
  BY DEF IInv
<1> QED BY <1>1, Invariant, PTL

\* registerStatus and the reg fields are inverse to each other: codegen_newVarReg,
\* variable_ref, variable_store and arch_functionCall never give a register two
\* owners, for every number of variables and of registers.
THEOREM RegistersExclusive == Spec => []RegisterFile
<1>1. IInv => RegisterFile
  BY DEF IInv, RegisterFile, Good, Registers, CallState
<1> QED BY <1>1, Invariant, PTL

\* The LRU list and the register file name the same variables, so that the
\* eviction in codegen_allocateReg always finds an owner.
THEOREM LruExact == Spec => []LruHoldsOwners
<1>1. IInv => LruHoldsOwners
  <2> SUFFICES ASSUME IInv PROVE LruHoldsOwners
    OBVIOUS
  <2>1. CASE phase # "call"
    <3>1. Good(cg) /\ cg \in CodegenType
      BY <2>1 DEF IInv, Good
    <3>2. ASSUME NEW i \in 1..Len(cg.lru)
          PROVE  \E r \in Regs : cg.registerStatus[r] = cg.lru[i]
      <4>1. cg.lru[i] \in Vars /\ cg.reg[cg.lru[i]] >= 0
        BY <3>1 DEF Good, Members, Owners
      <4>2. cg.reg[cg.lru[i]] \in Regs
        BY <3>1, <4>1, FieldLemma
      <4> QED BY <3>1, <4>1, <4>2 DEF Good, Registers
    <3>3. ASSUME NEW r \in Regs, cg.registerStatus[r] # NoVar
          PROVE  \E i \in 1..Len(cg.lru) : cg.lru[i] = cg.registerStatus[r]
      <4>1. cg.registerStatus[r] \in Vars /\ cg.reg[cg.registerStatus[r]] = r
        BY <3>1, <3>3 DEF Good, Registers, CodegenType
      <4>2. r >= 0
        BY RegisterCountAssumption DEF Regs
      <4>3. cg.registerStatus[r] \in Members(cg.lru)
        BY <3>1, <4>1, <4>2 DEF Good, Owners
      <4> QED BY <4>3 DEF Members
    <3> QED BY <3>1, <3>2, <3>3 DEF LruHoldsOwners, Good, NoRepeat
  <2>2. CASE phase = "call"
    <3>1. Members(cg.lru) = {} /\ \A r \in Regs : cg.registerStatus[r] = NoVar
      BY <2>2 DEF IInv, CallState
    <3> QED BY <3>1 DEF LruHoldsOwners, Members
  <2> QED BY <2>1, <2>2
<1> QED BY <1>1, Invariant, PTL

\* The slots that variable_store hands out are never shared, and nothing is stored
\* above RBP before a variable has got a slot that a displacement does not reach.
THEOREM SlotsNeverShared == Spec => []SlotsDistinct
<1>1. IInv => SlotsDistinct
  BY DEF IInv, SlotsDistinct, Good, Slots, CallState
<1> QED BY <1>1, Invariant, PTL

\* As long as every slot and every load can be encoded, the register or the slot
\* of each variable holds its value after any sequence of operations.
THEOREM NoValueLost == Spec => []ValueKept
<1>1. IInv => ValueKept
  <2> SUFFICES ASSUME IInv, phase = "call" PROVE ValueKept
    BY DEF IInv
  <2>1. CallState /\ created \subseteq Vars
    BY DEF IInv, TypeOK
  <2> SUFFICES ASSUME Encodable(cg), NEW v \in created PROVE InPlace(cg, v)
    BY DEF ValueKept
  <2>2. CASE cg.reg[v] >= 0
    <3>1. PICK i \in 1..k : args[i] = v /\ cg.reg[v] = ArgRegs[i]
      BY <2>1, <2>2 DEF CallState
    <3> QED BY <2>1, <2>2, <3>1 DEF CallState, InPlace
  <2>3. CASE ~(cg.reg[v] >= 0)
    BY <2>1, <2>3 DEF CallState, InPlace
  <2> QED BY <2>2, <2>3
<1> QED BY <1>1, Invariant, PTL

\* arch_functionCall puts argument i in the i-th argument register, also when
\* a variable is passed twice; as long as no load went to R8 or above, which leaves
\* out calls with a fifth argument that no earlier one repeats: it is loaded into R8.
THEOREM ArgumentsPassed == Spec => []CallArgumentsInPlace
<1>1. IInv => CallArgumentsInPlace
  BY DEF IInv, CallArgumentsInPlace, CallState
<1> QED BY <1>1, Invariant, PTL

\* When codegen_popBlock ends no register has an owner.
THEOREM PopEmptiesRegisters == Spec => PopFreesAll
<1>1. IInv /\ [Next]_vars => [(phase = "pop" /\ phase' = "ready") => Free(cg') = Regs]_vars
  <2> SUFFICES ASSUME IInv, Next, phase = "pop", phase' = "ready"
               PROVE  Free(cg') = Regs
    OBVIOUS
  <2>1. EndSpill
    BY DEF Next, BeginFunction, arch_functionCall, arch_initFunctionArg, EndFunctionArgs,
           codegen_newVar, Ref, Write, Store, codegen_popBlock, SpillRegister, PassArgument,
           EmitCall
  <2>2. SpillState /\ k = registerCount /\ cg' = cg
    BY <2>1 DEF IInv, EndSpill
  <2> QED BY <2>2, RegisterCountAssumption DEF SpillState, Free, Regs
<1> QED BY <1>1, Invariant, PTL DEF Spec, PopFreesAll

\* variable_ref leaves its variable at the end of the LRU list.
LEMMA RefLastLemma ==
    ASSUME NEW c, Good(c), NEW v \in Vars
    PROVE  LET d == variable_ref(c, v)
           IN  Len(d.lru) >= 1 /\ d.lru[Len(d.lru)] = v
<1> DEFINE d == variable_ref(c, v)
<1>1. c \in CodegenType
  BY DEF Good
<1>2. PICK s \in Seq(Vars) : d.lru = Append(s, v)
  <2>1. CASE c.reg[v] >= 0
    <3>1. d = [c EXCEPT !.lru = Append(list_deattach(c.lru, v), v)]
      BY <2>1 DEF variable_ref, _lruBump, list_add
    <3>2. list_deattach(c.lru, v) \in Seq(Vars)
      <4>1. c.lru \in Seq(Vars) /\ NoRepeat(c.lru) /\ v \in Members(c.lru)
        BY <2>1 DEF Good, Owners, CodegenType
      <4> QED BY <4>1, DeattachLemma
    <3> QED BY <1>1, <3>1, <3>2 DEF CodegenType
  <2>2. CASE ~(c.reg[v] >= 0)
    <3> DEFINE a == codegen_allocateReg(c)
               r == AllocatedReg(c)
               o == Occupy(a, v, r)
    <3>1. Good(a) /\ r \in Regs /\ a.registerStatus[r] = NoVar /\ a.reg[v] = -1
      <4>1. c.reg[v] = -1
        BY <1>1, <2>2, FieldLemma
      <4> QED BY <4>1, AllocateLemma
    <3> HIDE DEF a, r
    <3>2. o = [a EXCEPT !.reg = [a.reg EXCEPT ![v] = r],
                        !.registerStatus = [a.registerStatus EXCEPT ![r] = v],
                        !.lru = Append(a.lru, v)]
      BY DEF Occupy, list_add
    <3>3. a \in CodegenType /\ a.lru \in Seq(Vars)
      BY <3>1 DEF Good, CodegenType
    <3>4. o.lru = Append(a.lru, v)
      BY <3>2, <3>3 DEF CodegenType
    <3>5. /\ Good(o)
          /\ o.reg = [a.reg EXCEPT ![v] = r]
          /\ o.registerStatus = [a.registerStatus EXCEPT ![r] = v]
          /\ o.stackPos = a.stackPos /\ o.frameSize = a.frameSize
          /\ o.regs = a.regs /\ o.mem = a.mem /\ o.highLoad = a.highLoad
          /\ \A w \in Vars : w # v => o.reg[w] # r
      BY <3>1, OccupyLemma
    <3>6. d = EmitLoad(o, v)
      BY <2>2 DEF variable_ref, a, r
    <3> HIDE DEF o, d
    <3>7. o \in CodegenType /\ o.reg[v] >= 0
      <4>1. a.reg \in [Vars -> Regs \cup {-1}]
        BY <3>3 DEF CodegenType
      <4> QED BY <3>1, <3>5, <4>1, RegisterCountAssumption DEF Good, Regs
    <3>8. d.lru = o.lru
      BY <3>6, <3>7, LoadLemma
    <3> QED BY <3>3, <3>4, <3>8
  <2> QED BY <2>1, <2>2
<1> HIDE DEF d
<1>3. Len(d.lru) >= 1 /\ d.lru[Len(d.lru)] = v
  BY <1>2
<1> QED BY <1>3 DEF d

\* The register fields after a reference that has to load.
LEMMA RefRegLemma ==
    ASSUME NEW c, Good(c), NEW v \in Vars, ~(c.reg[v] >= 0)
    PROVE  LET a == codegen_allocateReg(c)
           IN  /\ a.reg \in [Vars -> Regs \cup {-1}]
               /\ variable_ref(c, v).reg = [a.reg EXCEPT ![v] = AllocatedReg(c)]
<1> DEFINE a == codegen_allocateReg(c)
           r == AllocatedReg(c)
           o == Occupy(a, v, r)
<1>1. Good(a) /\ r \in Regs /\ a.registerStatus[r] = NoVar /\ a.reg[v] = -1
  <2>1. c.reg[v] = -1
    BY FieldLemma DEF Good
  <2> QED BY <2>1, AllocateLemma
<1>2. variable_ref(c, v) = EmitLoad(o, v)
  BY DEF variable_ref
<1> HIDE DEF a, r
<1>3. /\ Good(o)
      /\ o.reg = [a.reg EXCEPT ![v] = r]
      /\ o.registerStatus = [a.registerStatus EXCEPT ![r] = v]
      /\ o.stackPos = a.stackPos /\ o.frameSize = a.frameSize
      /\ o.regs = a.regs /\ o.mem = a.mem /\ o.highLoad = a.highLoad
      /\ \A w \in Vars : w # v => o.reg[w] # r
  BY <1>1, OccupyLemma
<1> HIDE DEF o
<1>4. a.reg \in [Vars -> Regs \cup {-1}] /\ o \in CodegenType
  BY <1>1, <1>3 DEF Good, CodegenType
<1>5. o.reg[v] >= 0
  BY <1>1, <1>3, <1>4, RegisterCountAssumption DEF Regs
<1>6. EmitLoad(o, v).reg = o.reg
  BY <1>4, <1>5, LoadLemma
<1> QED BY <1>2, <1>3, <1>4, <1>6 DEF a, r

\* A reference to v does not move the variable used last, when there are two
\* registers: the variable that is evicted is the oldest of at least two.
LEMMA RefKeepsLastLemma ==
    ASSUME NEW c, Good(c), NEW u \in Vars, NEW v \in Vars, u # v, registerCount >= 2,
           c.reg[u] >= 0, Len(c.lru) >= 1, c.lru[Len(c.lru)] = u
    PROVE  variable_ref(c, v).reg[u] = c.reg[u]
<1>1. c \in CodegenType /\ c.reg \in [Vars -> Regs \cup {-1}] /\ c.lru \in Seq(Vars)
  BY DEF Good, CodegenType
<1>2. CASE c.reg[v] >= 0
  <2>1. variable_ref(c, v) = _lruBump(c, v)
    BY <1>2 DEF variable_ref
  <2>2. _lruBump(c, v).reg = c.reg
    BY <1>2, BumpLemma
  <2> QED BY <2>1, <2>2
<1>3. CASE ~(c.reg[v] >= 0)
  <2> DEFINE a == codegen_allocateReg(c)
  <2>2. a.reg[u] = c.reg[u]
    <3>1. CASE Free(c) # {}
      BY <3>1 DEF codegen_allocateReg
    <3>2. CASE Free(c) = {}
      <4> DEFINE h == Head(c.lru)
      <4>1. a = StoreHeld(c, h)
        BY <3>2 DEF codegen_allocateReg
      <4>2. 1 \in 1..Len(c.lru) /\ h = c.lru[1] /\ h \in Vars
        BY <1>1
      <4>3. h \in Owners(c) /\ c.reg[h] >= 0
        BY <4>2 DEF Good, Members, Owners
      <4>4. h # u
        <5> SUFFICES ASSUME h = u PROVE FALSE
          OBVIOUS
        <5>1. Len(c.lru) = 1
          <6>1. Len(c.lru) \in 1..Len(c.lru) /\ c.lru[1] = c.lru[Len(c.lru)]
            BY <1>1, <4>2
          <6>2. \A i, j \in 1..Len(c.lru) : c.lru[i] = c.lru[j] => i = j
            BY DEF Good, NoRepeat
          <6> QED BY <4>2, <6>1, <6>2
        <5>2. \A w \in Owners(c) : w = u
          BY <4>2, <5>1 DEF Good, Members
        <5>3. 0 \in Regs /\ 1 \in Regs
          BY RegisterCountAssumption DEF Regs
        <5>4. /\ c.registerStatus[0] \in Vars /\ c.reg[c.registerStatus[0]] = 0
              /\ c.registerStatus[1] \in Vars /\ c.reg[c.registerStatus[1]] = 1
          BY <1>1, <3>2, <5>3 DEF Free, Good, Registers, CodegenType
        <5> QED BY <5>2, <5>4 DEF Owners
      <4> HIDE DEF h
      <4>5. a.reg = [c.reg EXCEPT ![h] = -1]
        <5>1. StoreHeld(c, h).reg = [c.reg EXCEPT ![h] = -1]
          BY <4>2, <4>3, StoreHeldLemma
        <5> QED BY <4>1, <5>1
      <4> QED BY <1>1, <4>4, <4>5
    <3> QED BY <3>1, <3>2
  <2>3. /\ a.reg \in [Vars -> Regs \cup {-1}]
        /\ variable_ref(c, v).reg = [a.reg EXCEPT ![v] = AllocatedReg(c)]
    BY <1>3, RefRegLemma
  <2> HIDE DEF a
  <2> QED BY <2>2, <2>3
<1> QED BY <1>2, <1>3

\* Two operands of an instruction are in registers at the same time.
THEOREM TwoOperands == Spec => []OperandsTogether
<1>1. IInv => OperandsTogether
  <2> SUFFICES ASSUME IInv, phase = "ready", registerCount >= 2,
                      NEW u \in created, NEW v \in created
               PROVE  LET first == variable_ref(cg, u)
                          second == variable_ref(first, v)
                      IN  second.reg[u] = first.reg[u] /\ second.reg[v] >= 0
    BY DEF OperandsTogether
  <2> DEFINE first == variable_ref(cg, u)
  <2>1. Good(cg) /\ u \in Vars /\ v \in Vars
    BY DEF IInv, TypeOK
  <2>2. Good(first) /\ first.reg[u] >= 0 /\ Len(first.lru) >= 1 /\ first.lru[Len(first.lru)] = u
    BY <2>1, RefLemma, RefLastLemma
  <2> HIDE DEF first
  <2>3. variable_ref(first, v).reg[v] >= 0
    BY <2>1, <2>2, RefLemma
  <2>4. CASE u # v
    BY <2>1, <2>2, <2>3, <2>4, RefKeepsLastLemma DEF first
  <2>5. CASE u = v
    <3>1. variable_ref(first, v) = _lruBump(first, v)
      BY <2>2, <2>5 DEF variable_ref
    <3>2. _lruBump(first, v).reg = first.reg
      BY <2>1, <2>2, <2>5, BumpLemma
    <3> QED BY <2>3, <2>5, <3>1, <3>2 DEF first
  <2> QED BY <2>4, <2>5
<1> QED BY <1>1, Invariant, PTL
=============================================================================
