-------------------------- MODULE MCBundleMutation --------------------------
(* Small instances of BundleMutation for TLC. *)
EXTENDS BundleMutationInvariant, TLC
CONSTANTS fr, en, v0, v1, k, c1, c2, a

MCAsk(tool, files, key) == [tool |-> tool, files |-> files, key |-> key]
MCBoth(v) == (fr :> v) @@ (en :> v)

\* Two calls of one caller: one asks with keys for changes of both translations at once, or
\* plans one that another tool can take back in a single edit; one asks without keys; either
\* may make the other's call again.
MCCallerOf == [c \in Clients |-> a]
MCKeyed   == { MCAsk("plan_bundle_change", MCBoth(v1), NoKey),
               MCAsk("plan_bundle_change", fr :> v1, NoKey), MCAsk("apply_bundle_plan", Nothing, k),
               MCAsk("rollback_bundle", Nothing, k), MCAsk("create_bundle", fr :> v1, k) }
MCUnkeyed == { MCAsk("delete_bundle", MCBoth(v0), NoKey), MCAsk("create_bundle", MCBoth(v0), NoKey),
               MCAsk("delete_bundle", fr :> v0, NoKey) }
MCAsks    == [c \in Clients |-> IF c = c1 THEN MCKeyed ELSE MCUnkeyed]
MCDisks   == { [f \in Files |-> Absent], [f \in Files |-> v0] }
=============================================================================
