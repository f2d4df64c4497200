---------------------------- MODULE Availability ----------------------------
(***************************************************************************)
(* What an application knows of the availability of services, and what it   *)
(* reports to the availability handlers registered with it                  *)
(* (application_impl.cpp).  Everything here happens under                   *)
(* availability_mutex_, a call is one step; the reports are queued under it *)
(* in their order, and Dispatcher has what becomes of them.                 *)
(*                                                                          *)
(* The routing manager tells of any instance in any order, but of one       *)
(* version of it at a time: another one only after the first was withdrawn. *)
(* A wildcard is ANY, whatever it is for.  OnAvailability is on_availability; *)
(* what it does to the subscriptions of a service that has gone is left out, *)
(* and so is request_service for a wildcard.                                *)
(*                                                                          *)
(* Not in the code: told, and the two sets of pairs of a handler and an     *)
(* instance that name where a handler is told the wrong thing.              *)
(*   misled    a registration with wildcards or DEFAULT_MAJOR reported an   *)
(*             instance the handler is not told of otherwise, or not there  *)
(*   displaced a state was kept for another version than the one offered    *)
(***************************************************************************)
EXTENDS Naturals

CONSTANTS Instances,   \* the service instances, [service, instance] each
          Versions,    \* the versions they are offered with, [major, minor] each
          HandlerSets, \* what may be asked for, in one run of the application:
                       \* sets of [service, instance, major, minor]
          ANY          \* ANY_SERVICE, ANY_INSTANCE, ANY_MAJOR, ANY_MINOR

ASSUME AvailabilityAssumption ==
    /\ ANY \notin Nat
    /\ Instances \subseteq [service : Nat, instance : Nat]
    /\ Versions \subseteq [major : Nat, minor : Nat]
    /\ \A asked \in HandlerSets :
          asked \subseteq [service : Nat \cup {ANY}, instance : Nat \cup {ANY},
                         major : Nat \cup {ANY}, minor : Nat \cup {ANY}]

VARIABLES handlers,      \* what is asked for in this run
          available_,    \* versions of each instance, with their state
          availability_, \* the handlers registered, and the states they keep
          told,          \* the last report of each handler on each instance
          misled, displaced

availabilityVars == <<handlers, available_, availability_, told, misled, displaced>>

DEFAULT_MAJOR == 0
DEFAULT_MINOR == 0

Asks(h, p) == h.service \in {p.service, ANY} /\ h.instance \in {p.instance, ANY}

Wildcard(h) == h.service = ANY \/ h.instance = ANY

Place(h) == [service |-> h.service, instance |-> h.instance]

MinorFits(minor, v) == minor \in {ANY, DEFAULT_MINOR} \/ minor <= v.minor

-----------------------------------------------------------------------------

\* The version of p that check_major_minor finds: of the major asked for, or the
\* first that fits.
Found(p, major, minor) ==
    LET exact == {v \in available_[p] : v.major = major}
        those == IF exact # {} THEN exact
                 ELSE IF major \in {DEFAULT_MAJOR, ANY} THEN available_[p] ELSE {}
        fit   == {v \in those : MinorFits(minor, v)}
    IN  {v \in fit : \A w \in fit : v.major <= w.major}

is_available_unlocked(p, major, minor) ==
    IF Found(p, major, minor) = {} THEN "UNKNOWN"
    ELSE (CHOOSE v \in Found(p, major, minor) : TRUE).state

\* What are_available_unlocked collects: each of its three steps adds instances of
\* the services it goes through, and the last one drops a service in which no
\* version fits.  When nothing is left it adds what was asked for.
are_available_unlocked(h) ==
    LET Seen(s)  == {p \in Instances : p.service = s /\ available_[p] # {}}
        Majors(s) == {p \in Seen(s) : \/ h.major \in {ANY, DEFAULT_MAJOR}
                                     \/ \E v \in available_[p] : v.major = h.major}
        Minors(s) == {p \in Seen(s) : \E v \in available_[p] :
                                        v.state = "AVAILABLE" /\ MinorFits(h.minor, v)}
        services  == {s \in {p.service : p \in Instances} :
                        h.service \in {s, ANY} /\ Minors(s) # {}}
        all       == UNION {{p \in Seen(s) : Asks(h, p)} \cup Majors(s) \cup Minors(s) :
                              s \in services}
    IN  IF all = {} THEN {Place(h)} ELSE all

\* The state a handler keeps of a version of p.
get_availability_state(states, p, v) ==
    LET key == <<p, v.major, v.minor>>
    IN  IF key \in DOMAIN states THEN states[key] ELSE "UNKNOWN"

set_availability_state(states, p, v, state) ==
    LET key == <<p, v.major, v.minor>>
    IN  [k \in DOMAIN states \cup {key} |-> IF k = key THEN state ELSE states[k]]

Registered == DOMAIN availability_

\* Is p there for h?
Available(h, p) ==
    \E v \in available_[p] : /\ v.state = "AVAILABLE" /\ Asks(h, p)
                             /\ h.major \in {v.major, ANY} /\ MinorFits(h.minor, v)

\* h keeps a state for version v of p while another one is offered.
Displaces(p, v) == /\ ANY \notin {v.major, v.minor}
                   /\ \E w \in available_[p] : <<w.major, w.minor>> # <<v.major, v.minor>>

-----------------------------------------------------------------------------

AvailabilityInit ==
    /\ handlers \in HandlerSets
    /\ available_ = [p \in Instances |-> {}]
    /\ availability_ = <<>> /\ told = <<>>
    /\ misled = {} /\ displaced = {}

\* available_ after the report; a version that has gone takes its instance with it.
Updated(p, state, v) ==
    IF state # "UNAVAILABLE"
    THEN {w \in available_[p] : w.major # v.major} \cup
           {[major |-> v.major, minor |-> v.minor, state |-> state]}
    ELSE IF \E w \in available_[p] : w.major = v.major /\ w.minor = v.minor THEN {}
    ELSE available_[p]

\* Mutant: does not go down to the lower minor versions asked for.
MatchingExactMinor(p, state, v) ==
    {h \in Registered :
       /\ Asks(h, p)
       /\ h.major \in {v.major, ANY} /\ h.minor \in {v.minor, ANY}
       /\ get_availability_state(availability_[h], p, v) # state}

\* find_matching_handler, for the four places where a handler may be registered.
Matching(p, state, v) ==
    {h \in Registered :
       /\ Asks(h, p)
       /\ h.major \in {v.major, ANY} /\ h.minor \in (0..v.minor) \cup {ANY}
       /\ get_availability_state(availability_[h], p, v) # state}

OnAvailability(p, state, v) ==
    LET notified == Matching(p, state, v)
    IN  /\ \A w \in available_[p] : w.major = v.major /\ w.minor = v.minor
        /\ state # is_available_unlocked(p, v.major, v.minor)
        /\ available_' = [available_ EXCEPT ![p] = Updated(p, state, v)]
        /\ availability_' = [h \in Registered |->
              IF h \in notified THEN set_availability_state(availability_[h], p, v, state)
              ELSE availability_[h]]
        /\ told' = [h \in Registered |->
              IF h \in notified THEN [told[h] EXCEPT ![p] = state] ELSE told[h]]
        /\ misled' = misled \ {<<h, p>> : h \in notified}
        /\ UNCHANGED <<handlers, displaced>>

\* What h is told of q when it is registered.
FirstReport(h, q) ==
    IF Wildcard(h) THEN IF q \in are_available_unlocked(h) THEN "AVAILABLE" ELSE "UNKNOWN"
    ELSE IF q = Place(h) THEN is_available_unlocked(q, h.major, h.minor) ELSE "UNKNOWN"

\* register_availability_handler: the handler is told how things are.  What is kept
\* for a wildcard itself is never looked up.
register_availability_handler(h) ==
    LET first == [q \in Instances \cup {Place(h)} |-> FirstReport(h, q)]
        states == IF Wildcard(h) THEN <<>>
                  ELSE set_availability_state(<<>>, Place(h), h, FirstReport(h, Place(h)))
        others == {x \in misled \cup displaced : x[1] # h}
    IN  /\ h \in handlers
        /\ availability_' = [g \in Registered \cup {h} |-> IF g = h THEN states ELSE availability_[g]]
        /\ told' = [g \in Registered \cup {h} |-> IF g = h THEN first ELSE told[g]]
        /\ misled' = (misled \cap others) \cup
              {<<h, q>> : q \in {q \in Instances : FirstReport(h, q) = "AVAILABLE" /\ ~Available(h, q)}}
        /\ displaced' = (displaced \cap others) \cup
              {<<h, q>> : q \in {q \in Instances : q = Place(h) /\ Displaces(q, h)}}
        /\ UNCHANGED <<handlers, available_>>

unregister_availability_handler(h) ==
    /\ h \in Registered
    /\ availability_' = [g \in Registered \ {h} |-> availability_[g]]
    /\ told' = [g \in Registered \ {h} |-> told[g]]
    /\ misled' = {x \in misled : x[1] # h} /\ displaced' = {x \in displaced : x[1] # h}
    /\ UNCHANGED <<handlers, available_>>

\* The handler invoke_availability_handler finds for version v of p: its version
\* first, then wildcards.
HandlerFor(p, v) ==
    LET here  == {h \in Registered : Place(h) = p}
        major == IF \E h \in here : h.major = v.major THEN v.major ELSE ANY
        minor == IF \E h \in here : h.major = major /\ h.minor = v.minor THEN v.minor ELSE ANY
    IN  {h \in here : h.major = major /\ h.minor = minor}

\* request_service, with invoke_availability_handler.
request_service(p, v) ==
    LET state == is_available_unlocked(p, v.major, v.minor)
    IN  \E h \in HandlerFor(p, v) :
          /\ state # "UNKNOWN" /\ get_availability_state(availability_[h], p, v) # state
          /\ availability_' = [availability_ EXCEPT ![h] = set_availability_state(@, p, v, state)]
          /\ told' = [told EXCEPT ![h][p] = state]
          /\ misled' = misled \ {<<h, p>>}
          /\ displaced' = displaced \cup {<<h, q>> : q \in {q \in {p} : Displaces(q, v)}}
          /\ UNCHANGED <<handlers, available_>>

AvailabilityNext ==
    \/ \E p \in Instances, v \in Versions :
         \E state \in {"AVAILABLE", "OFFERED", "UNAVAILABLE"} : OnAvailability(p, state, v)
    \/ \E h \in handlers : register_availability_handler(h) \/ unregister_availability_handler(h)
    \/ \E p \in Instances, v \in Versions \cup {[major |-> ANY, minor |-> ANY]} : request_service(p, v)

AvailabilitySpec == AvailabilityInit /\ [][AvailabilityNext]_availabilityVars

-----------------------------------------------------------------------------
(* Properties                                                              *)

\* Whatever comes, goes and is registered in whatever order, with wildcards and
\* versions: the last report a handler has in the queue on an instance says
\* "available" exactly when a version it asks for is available, but for the two cases
\* that misled and displaced name.
ReportsTrue ==
    \A h \in Registered : \A p \in Instances :
        <<h, p>> \notin displaced =>
          /\ Available(h, p) => told[h][p] = "AVAILABLE"
          /\ told[h][p] = "AVAILABLE" => Available(h, p) \/ <<h, p>> \in misled

\* application.hpp:528, of register_availability_handler: "This method allows for the
\* registration of callbacks that are called whenever a service appears or disappears":
\* a handler is told that an instance is available only if it is, and was asked for.
OnlyAppearedReported ==
    \A h \in Registered : \A q \in DOMAIN told[h] :
        told[h][q] = "AVAILABLE" => q \in Instances /\ Available(h, q)
=============================================================================
