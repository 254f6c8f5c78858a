------------------------------ MODULE ApiKeys ------------------------------
(* The client API keys (internal/apikey/store.go), the console's handlers    *)
(* that change them (internal/admin/handlers.go), the keys of config.yaml    *)
(* (internal/config/config.go) and the gate that every client request passes *)
(* (internal/server/server.go).  Every operation of the store runs under its *)
(* lock: it changes the list in memory, writes a temporary file and renames  *)
(* it.  A failure or a crash in between leaves memory and file apart.        *)
EXTENDS Naturals

CONSTANTS
    Keys,           \* keys, each under an id of its own
    ConfigKeys,     \* the keys listed in config.yaml
    Requests,       \* client requests
    NoKey

ASSUME KeysAssumption == ConfigKeys \subseteq Keys /\ NoKey \notin Keys

VARIABLES
    keys,       \* Store.keys: keys[k] is "on", "off" or "none"
    file,       \* api_keys.json
    tmp,        \* api_keys.json.tmp, as far as it was written
    saving,     \* whether an operation holds the lock and is writing
    passing,    \* passing[r]: the key request r showed and the gate let in
    acked       \* auxiliary: acked[k]: the state of k the console was told of last

keyVars == <<keys, file, tmp, saving, passing, acked>>

States == {"on", "off", "none"}

NotSaving == [k |-> NoKey, reply |-> "none"]

Empty(list) == \A k \in Keys : list[k] = "none"

\* SeedFromConfig: what the list becomes at startup.
Seeded(list) ==
    IF Empty(list)
    THEN [k \in Keys |-> IF k \in ConfigKeys THEN "on" ELSE "none"]
    ELSE list

KeysInit ==
    /\ keys = Seeded([k \in Keys |-> "none"])
    /\ file = keys
    /\ tmp = file
    /\ saving = NotSaving
    /\ passing = [r \in Requests |-> NoKey]
    /\ acked = [k \in Keys |-> "unknown"]

-----------------------------------------------------------------------------

\* An operation takes the lock and changes the list in memory; the reply says what
\* the console will be told if the list is saved.
Change(k, state, reply) ==
    /\ saving = NotSaving
    /\ keys' = [keys EXCEPT ![k] = state]
    /\ saving' = [k |-> k, reply |-> reply]
    /\ UNCHANGED <<file, tmp, passing>>

\* What the console knows of a key is open from the moment it asks for a change.
Asking(k) == acked' = [acked EXCEPT ![k] = "unknown"]

\* A random key is never one that exists already, in config.yaml or in the list.
Create(k) ==
    /\ k \notin ConfigKeys
    /\ keys[k] = "none" /\ file[k] = "none"
    /\ Change(k, "on", "on")
    /\ Asking(k)

SetEnabled(k, state) == keys[k] # "none" /\ Change(k, state, state) /\ Asking(k)

Delete(k) == keys[k] # "none" /\ Change(k, "none", "none") /\ Asking(k)

\* Mutant of ValidAPIKey: the switch is not looked at.
ValidThoughDisabled(k) == k \in ConfigKeys \/ keys[k] # "none"

\* The gate: Cfg.ValidAPIKey, then Store.Valid.
ValidAPIKey(k) == k \in ConfigKeys \/ keys[k] = "on"

Admit(r, k) ==
    /\ saving = NotSaving \/ k \in ConfigKeys
    /\ passing[r] = NoKey
    /\ ValidAPIKey(k)
    /\ passing' = [passing EXCEPT ![r] = k]
    /\ UNCHANGED <<keys, file, tmp, saving, acked>>

\* Touch notes the time of use and saves the whole list, if the key is still there.
Touch(r) ==
    /\ passing[r] # NoKey
    /\ saving = NotSaving
    /\ passing' = [passing EXCEPT ![r] = NoKey]
    /\ saving' = IF keys[passing[r]] = "none" THEN NotSaving
                 ELSE [k |-> passing[r], reply |-> "touch"]
    /\ UNCHANGED <<keys, file, tmp, acked>>

\* saveLocked: the temporary file, then the rename.
WriteTmp ==
    /\ saving # NotSaving
    /\ tmp # keys
    /\ tmp' = keys
    /\ UNCHANGED <<keys, file, saving, passing, acked>>

\* Mutant of Rename: the console is answered before the file is in place.
RenameLate ==
    /\ saving # NotSaving
    /\ tmp = keys
    /\ saving' = NotSaving
    /\ acked' = IF saving.reply = "touch" THEN acked
                ELSE [acked EXCEPT ![saving.k] = saving.reply]
    /\ UNCHANGED <<keys, file, tmp, passing>>

Rename ==
    /\ saving # NotSaving
    /\ tmp = keys
    /\ file' = tmp
    /\ saving' = NotSaving
    /\ acked' = IF saving.reply = "touch" THEN acked
                ELSE [acked EXCEPT ![saving.k] = saving.reply]
    /\ UNCHANGED <<keys, tmp, passing>>

\* Either file operation fails: the operation returns the error (Touch drops it),
\* and the list in memory stays as it was changed.
SaveFails ==
    /\ saving # NotSaving
    /\ saving' = NotSaving
    /\ UNCHANGED <<keys, file, tmp, passing, acked>>

\* Startup: load, then SeedFromConfig, whose error is dropped.
KeysRestart ==
    /\ keys' = Seeded(file)
    /\ \/ file' = keys' /\ tmp' = keys'
       \/ UNCHANGED <<file, tmp>>
    /\ saving' = NotSaving
    /\ passing' = [r \in Requests |-> NoKey]
    /\ UNCHANGED acked

KeysNext ==
    \/ \E k \in Keys :
          \/ Create(k)
          \/ \E state \in {"on", "off"} : SetEnabled(k, state)
          \/ Delete(k)
    \/ \E r \in Requests : (\E k \in Keys : Admit(r, k)) \/ Touch(r)
    \/ WriteTmp
    \/ Rename
    \/ SaveFails
    \/ KeysRestart

KeysSpec == KeysInit /\ [][KeysNext]_keyVars

-----------------------------------------------------------------------------
(* Properties *)

\* The types of the list, its files, the saving under way and the console's knowledge.
KeysTypeOK ==
    /\ keys \in [Keys -> States] /\ file \in [Keys -> States] /\ tmp \in [Keys -> States]
    /\ saving \in [k : Keys \union {NoKey}, reply : States \union {"touch"}]
    /\ passing \in [Requests -> Keys \union {NoKey}]
    /\ acked \in [Keys -> States \union {"unknown"}]

\* What the console was told of a key, and nobody asked to change since, holds in
\* memory and survives every restart: later operations that fail or crash half-way
\* do not undo it.  The keys of config.yaml are left out, an empty list revives them.
AcknowledgedLasts ==
    \A k \in Keys \ ConfigKeys :
        acked[k] # "unknown" => keys[k] = acked[k] /\ file[k] = acked[k]

\* The inductive invariant behind it: the reply on its way is what the list says.
ReplyIsTrue ==
    (saving # NotSaving /\ saving.reply # "touch") =>
        /\ saving.k \in Keys
        /\ keys[saving.k] = saving.reply
        /\ acked[saving.k] = "unknown"

\* What ApiKeysProofs proves to be inductive.
KeysInvariant == KeysTypeOK /\ ReplyIsTrue /\ AcknowledgedLasts

\* A key that was deleted or disabled lets no request in, unless it is one of
\* config.yaml's: only the console's own next word, or a restart before the change
\* was saved, makes it work again.
RevokedStaysOut ==
    [][\A r \in Requests :
          (passing[r] = NoKey /\ passing'[r] \in Keys \ ConfigKeys)
              => acked[passing'[r]] \notin {"off", "none"}]_keyVars

=============================================================================
