--------------------------- MODULE ApiKeysProofs ---------------------------
(* What the console was told of an API key lasts, for any number of keys and *)
(* requests: KeysInvariant is inductive, and the gate's promise follows.     *)
EXTENDS ApiKeys, TLAPS

\* Seeding leaves the keys alone that are not of config.yaml.
LEMMA SeedingAddsConfigKeys ==
    ASSUME NEW list \in [Keys -> States]
    PROVE  /\ Seeded(list) \in [Keys -> States]
           /\ \A k \in Keys \ ConfigKeys : Seeded(list)[k] = list[k]
BY DEF Seeded, Empty, States

LEMMA KeysInvariantStarts == KeysInit => KeysInvariant
<1> SUFFICES ASSUME KeysInit PROVE KeysInvariant
  OBVIOUS
<1>1. keys \in [Keys -> States]
  BY SeedingAddsConfigKeys DEF KeysInit, States
<1>2. KeysTypeOK
  BY <1>1 DEF KeysInit, KeysTypeOK, NotSaving, States
<1>3. ReplyIsTrue
  BY DEF KeysInit, ReplyIsTrue
<1>4. AcknowledgedLasts
  BY DEF KeysInit, AcknowledgedLasts
<1> QED
  BY <1>2, <1>3, <1>4 DEF KeysInvariant

\* One step per operation of the store.
LEMMA KeysInvariantIsInductive == KeysInvariant /\ [KeysNext]_keyVars => KeysInvariant'
<1> SUFFICES ASSUME KeysInvariant, [KeysNext]_keyVars
             PROVE  KeysInvariant'
  OBVIOUS
<1> USE KeysAssumption DEF KeysInvariant, KeysTypeOK, ReplyIsTrue, AcknowledgedLasts, States,
    NotSaving
<1>1. ASSUME NEW k \in Keys, NEW state \in States, Change(k, state, state), Asking(k)
      PROVE  KeysInvariant'
  BY <1>1 DEF Change, Asking
<1>2. ASSUME NEW r \in Requests, NEW k \in Keys, Admit(r, k)
      PROVE  KeysInvariant'
  BY <1>2 DEF Admit
<1>3. ASSUME NEW r \in Requests, Touch(r)
      PROVE  KeysInvariant'
  BY <1>3 DEF Touch
<1>4. CASE WriteTmp
  BY <1>4 DEF WriteTmp
<1>5. CASE Rename
  BY <1>5 DEF Rename
<1>6. CASE SaveFails
  BY <1>6 DEF SaveFails
<1>7. CASE KeysRestart
  <2>1. /\ keys' = Seeded(file) /\ saving' = NotSaving /\ acked' = acked
        /\ passing' = [r \in Requests |-> NoKey]
        /\ \/ file' = keys' /\ tmp' = keys'
           \/ file' = file /\ tmp' = tmp
    BY <1>7 DEF KeysRestart
  <2>2. Seeded(file) \in [Keys -> States]
        /\ \A k \in Keys \ ConfigKeys : Seeded(file)[k] = file[k]
    BY SeedingAddsConfigKeys
  <2>3. KeysTypeOK'
    BY <2>1, <2>2
  <2>4. AcknowledgedLasts'
    BY <2>1, <2>2
  <2> QED
    BY <2>1, <2>3, <2>4
<1>8. CASE UNCHANGED keyVars
  BY <1>8 DEF keyVars
<1>9. ASSUME NEW k \in Keys,
             Create(k) \/ (\E state \in {"on", "off"} : SetEnabled(k, state)) \/ Delete(k)
      PROVE  KeysInvariant'
  <2>1. CASE Create(k)
    BY <1>1, <2>1 DEF Create
  <2>2. CASE \E state \in {"on", "off"} : SetEnabled(k, state)
    BY <1>1, <2>2 DEF SetEnabled
  <2>3. CASE Delete(k)
    BY <1>1, <2>3 DEF Delete
  <2> QED
    BY <1>9, <2>1, <2>2, <2>3
<1> QED
  BY <1>2, <1>3, <1>4, <1>5, <1>6, <1>7, <1>8, <1>9 DEF KeysNext

\* What the console was told of a key and did not ask to change since is what memory
\* and file say, through failed saves, crashes and restarts.
THEOREM AcknowledgedAlwaysLasts == KeysSpec => []KeysInvariant
<1>1. KeysInit => KeysInvariant
  BY KeysInvariantStarts
<1>2. KeysInvariant /\ [KeysNext]_keyVars => KeysInvariant'
  BY KeysInvariantIsInductive
<1> QED
  BY <1>1, <1>2, PTL DEF KeysSpec

\* A key that the console knows to be disabled or deleted lets no request in.
THEOREM RevokedKeysStayOut == KeysSpec => RevokedStaysOut
<1> DEFINE Refuses ==
      \A r \in Requests :
          (passing[r] = NoKey /\ passing'[r] \in Keys \ ConfigKeys)
              => acked[passing'[r]] \notin {"off", "none"}
<1>1. ASSUME KeysInvariant, KeysNext PROVE Refuses
  <2> SUFFICES ASSUME NEW r \in Requests, passing[r] = NoKey,
                      passing'[r] \in Keys \ ConfigKeys,
                      acked[passing'[r]] \in {"off", "none"}
               PROVE  FALSE
    BY DEF Refuses
  <2> USE KeysAssumption DEF KeysInvariant, KeysTypeOK
  <2>1. passing'[r] # passing[r]
    OBVIOUS
  <2>2. PICK q \in Requests, k \in Keys : Admit(q, k)
    <3>1. ASSUME NEW q \in Requests, Touch(q) PROVE FALSE
      BY <2>1, <3>1 DEF Touch
    <3>2. CASE KeysRestart
      BY <2>1, <3>2 DEF KeysRestart
    <3>3. CASE UNCHANGED passing
      BY <2>1, <3>3
    <3> QED
      BY <1>1, <3>1, <3>2, <3>3
         DEF KeysNext, Create, SetEnabled, Delete, Change, WriteTmp, Rename, SaveFails
  <2>3. passing'[r] = k /\ ValidAPIKey(k)
    BY <2>1, <2>2 DEF Admit
  <2>4. keys[k] = "on"
    BY <2>3 DEF ValidAPIKey
  <2>5. keys[k] = acked[k]
    BY <1>1, <2>3 DEF AcknowledgedLasts
  <2> QED
    BY <2>3, <2>4, <2>5
<1>2. ASSUME KeysInvariant, [KeysNext]_keyVars PROVE [Refuses]_keyVars
  BY <1>1, <1>2
<1>3. KeysSpec => []KeysInvariant
  BY AcknowledgedAlwaysLasts
<1> QED
  BY <1>2, <1>3, PTL DEF KeysSpec, RevokedStaysOut

=============================================================================
