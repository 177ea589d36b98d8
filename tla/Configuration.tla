--------------------------- MODULE Configuration ----------------------------
(***************************************************************************)
(* core/config/config.go: the Manager over viper, which keeps what it read *)
(* from the file, and over it what was Set.  validateConfig Sets a default *)
(* for every key that is not set.  NewConfigManager and Reload hold the    *)
(* lock that the getters take.                                             *)
(***************************************************************************)
EXTENDS Naturals

CONSTANTS
    Keys, Values,
    Default,    \* the value validateConfig Sets for a key
    Unset

VARIABLES
    file,       \* the configuration file: the value of a key, or Unset
    legible,    \* whether the file can be parsed
    loaded,     \* viper: what the last ReadInConfig that succeeded read
    override,   \* viper: what was Set
    missed      \* history: the keys that some file which was read left out

vars == <<file, legible, loaded, override, missed>>

Settings == [Keys -> Values \cup {Unset}]

TypeOK ==
    /\ {file, loaded, override} \subseteq Settings
    /\ legible \in BOOLEAN /\ missed \subseteq Keys

-----------------------------------------------------------------------------
IsSet(over, read, k) == over[k] # Unset \/ read[k] # Unset
\* Mutant: the default is Set also where the file has a value.
ValidateConfigAlways(over, read) == [k \in Keys |-> Default[k]]

\* The overrides after validateConfig.
ValidateConfig(over, read) ==
    [k \in Keys |-> IF IsSet(over, read, k) THEN over[k] ELSE Default[k]]

\* What the getters return: what was Set comes before what was read.
Get(k) == IF override[k] # Unset THEN override[k] ELSE loaded[k]

LeftOut(settings) == {k \in Keys : settings[k] = Unset}

\* NewConfigManager has read a file.
Init ==
    /\ file \in Settings /\ legible = TRUE /\ loaded = file
    /\ override = ValidateConfig([k \in Keys |-> Unset], file)
    /\ missed = LeftOut(file)

EditFile(k, v) ==
    /\ file' = [file EXCEPT ![k] = v]
    /\ UNCHANGED <<legible, loaded, override, missed>>

BreakOrMendFile == legible' = ~legible /\ UNCHANGED <<file, loaded, override, missed>>

\* If the file cannot be parsed viper keeps what it had.
Reload ==
    /\ IF legible
       THEN /\ loaded' = file
            /\ override' = ValidateConfig(override, file)
            /\ missed' = missed \cup LeftOut(file)
       ELSE UNCHANGED <<loaded, override, missed>>
    /\ UNCHANGED <<file, legible>>

Next ==
    \/ \E k \in Keys, v \in Values \cup {Unset} : EditFile(k, v)
    \/ BreakOrMendFile \/ Reload

Spec == Init /\ [][Next]_vars
-----------------------------------------------------------------------------
(* Every key has a value: that of the file read last, unless some file     *)
(* read before, at the start or later, left the key out.  A default that   *)
(* was Set then hides the file for good.                                   *)
ValuesFollowFile ==
    \A k \in Keys : Get(k) = IF k \in missed THEN Default[k] ELSE loaded[k]
=============================================================================
