-------------------------------- MODULE Library --------------------------------
(***************************************************************************)
(* The functions the program is built from, one input at a time: the state *)
(* is an input of the kind probe.kind.                                     *)
(***************************************************************************)
EXTENDS Config, Http, Text, Sha2

VARIABLE probe

Of(kind) == probe.kind = kind

\* Containers: a Map is a function of its keys, whatever was set and deleted, and
\* the watch list is a set, but for what was added first.
Structures ==
    /\ Of("map") => MapIsFunction(probe.ops, {"a", "b"})
    /\ Of("list") => ListIsSet(probe.ops)

\* Config: the command line over environment and file, the file read to its end.
Precedence == Of("config") => Resolution(probe.mode, probe.items, probe.env, probe.files)

\* Config: each section gives its own keys, with their salts, to the bridge.
KeySections == Of("config") => OwnKeys(probe.mode, probe.items, probe.env, probe.files)

\* Http: client and bridge agree on the upgrade, and no connection spoils the next.
Upgrades == Of("http") => UpgradeAgrees("") /\ UpgradeAgrees("h") /\ UpgradeOnce(probe.all)

\* Text: the loops that work in place agree with what they are for; the searches
\* too, whatever bytes lie in front of the text, for parts no longer than it; v4
\* addresses survive being written, of v6 addresses the family and the port.
TextHelpers ==
    /\ Of("text") => InPlace(probe.s, probe.C)
    /\ Of("search") => Searches(<<"b", "a", "b">>, probe.s, probe.part)
    /\ Of("address") => AddressRoundTrip(probe.a)

\* Sha2: the digest does not depend on the pieces.
Digests == Of("sha") => AnyChunks(probe.chunks)
================================================================================
