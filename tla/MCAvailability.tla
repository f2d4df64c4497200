--------------------------- MODULE MCAvailability ---------------------------
(* Instances of Availability for TLC: two instances of one service, in two  *)
(* minor versions of one major version and in another major version.        *)
EXTENDS Availability

Instance(service, instance) == [service |-> service, instance |-> instance]

Version(major, minor) == [major |-> major, minor |-> minor]

MCInstances == {Instance(1, 1), Instance(1, 2)}

MCVersions == {Version(1, 0), Version(1, 1), Version(2, 0)}

Handler(service, instance, major, minor) ==
    [service |-> service, instance |-> instance, major |-> major, minor |-> minor]

(* The tunnel's own handler; wildcards for all but the instance or the      *)
(* major version; one version; any version beside that; and the default.    *)
MCHandlerSets ==
    {{Handler(ANY, ANY, ANY, ANY)}, {Handler(ANY, 1, ANY, ANY)}, {Handler(1, ANY, 1, ANY)},
     {Handler(1, 1, 1, 1)}, {Handler(1, 1, 1, 0), Handler(1, 1, ANY, ANY)}, {Handler(1, 1, 0, 0)}}
=============================================================================
