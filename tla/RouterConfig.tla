---------------------------- MODULE RouterConfig ----------------------------
(***************************************************************************)
(* core/router/router_config.go: the ConfigManager stores a valid          *)
(* configuration under its name and calls the change handlers, with its    *)
(* mutex held: LoadConfig is taken apart at these calls.                   *)
(***************************************************************************)
EXTENDS Naturals

CONSTANTS
    Names, Configs,
    Missing,    \* no configuration of that name
    Refused,    \* the sets of configurations that an added validator may refuse
    MaxHandlers \* bound

VARIABLES
    configs,    \* cm.configs
    handlers,   \* how many change handlers there are
    refused,    \* what the validators refuse
    loading,    \* the LoadConfig under way: the handler to call next
    stuck,      \* a handler has called a method of the manager
    told        \* history: what a handler was told last of a name

vars == <<configs, handlers, refused, loading, stuck, told>>
registry == <<handlers, refused>>

Idle == [next |-> 0]
Known == Configs \cup {Missing}
Handlers == 1..MaxHandlers

TypeOK ==
    /\ configs \in [Names -> Known]
    /\ handlers \in 0..MaxHandlers /\ refused \subseteq Configs
    /\ loading \in {Idle} \cup [next : 1..(MaxHandlers + 1), name : Names, new : Configs]
    /\ stuck \in BOOLEAN
    /\ told \in [Handlers -> [Names -> Known]]

Init ==
    /\ configs = [n \in Names |-> Missing] /\ handlers = 0 /\ refused = {}
    /\ loading = Idle /\ stuck = FALSE
    /\ told = [h \in Handlers |-> [n \in Names |-> Missing]]
-----------------------------------------------------------------------------
Unlocked == loading = Idle

\* Mutant: a validator's refusal is only noticed after the store.
LoadConfigAnyway(n, c) ==
    /\ Unlocked
    /\ configs' = [configs EXCEPT ![n] = c]
    /\ loading' = IF c \in refused THEN Idle
                  ELSE [next |-> 1, name |-> n, new |-> c]
    /\ UNCHANGED <<registry, stuck, told>>

\* UpdateConfig and ImportConfig end here too.
LoadConfig(n, c) ==
    /\ Unlocked /\ c \notin refused
    /\ configs' = [configs EXCEPT ![n] = c]
    /\ loading' = [next |-> 1, name |-> n, new |-> c]
    /\ UNCHANGED <<registry, stuck, told>>

\* Its error is logged and the next one is called.
CallHandler ==
    /\ ~Unlocked /\ ~stuck /\ loading.next <= handlers
    /\ told' = [told EXCEPT ![loading.next][loading.name] = loading.new]
    /\ loading' = [loading EXCEPT !.next = @ + 1]
    /\ UNCHANGED <<configs, registry, stuck>>

\* A handler asks for a configuration: it waits for the lock of its own caller.
HandlerCallsBack ==
    /\ ~Unlocked /\ ~stuck /\ loading.next <= handlers
    /\ stuck' = TRUE
    /\ UNCHANGED <<configs, registry, loading, told>>

EndLoad ==
    /\ ~Unlocked /\ loading.next > handlers /\ loading' = Idle
    /\ UNCHANGED <<configs, registry, stuck, told>>

\* No handler is told.
DeleteConfig(n) ==
    /\ Unlocked /\ configs' = [configs EXCEPT ![n] = Missing]
    /\ UNCHANGED <<registry, loading, stuck, told>>

AddValidator(cs) ==
    /\ Unlocked /\ refused' = refused \cup cs
    /\ UNCHANGED <<configs, handlers, loading, stuck, told>>

\* A new handler is not told what is there already.
AddChangeHandler ==
    /\ Unlocked /\ handlers < MaxHandlers
    /\ handlers' = handlers + 1
    /\ UNCHANGED <<configs, refused, loading, stuck, told>>

Next ==
    \/ \E n \in Names : DeleteConfig(n) \/ \E c \in Configs : LoadConfig(n, c)
    \/ \E cs \in Refused : AddValidator(cs)
    \/ CallHandler \/ HandlerCallsBack \/ EndLoad \/ AddChangeHandler

Spec == Init /\ [][Next]_vars
-----------------------------------------------------------------------------
(* What a handler was told last of a name is what is stored there, also    *)
(* when other handlers fail and loads are refused; but it is not told that *)
(* a name was deleted, and takes the configuration for current.            *)
HandlersKnow ==
    Unlocked => \A h \in 1..handlers, n \in Names :
        told[h][n] \in {Missing, configs[n]} \/ configs[n] = Missing
=============================================================================
