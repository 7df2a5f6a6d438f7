--------------------------- MODULE MCPageMutation ---------------------------
(* Small instances of PageMutation for TLC. *)
EXTENDS PageMutationInvariant
CONSTANTS en, v0, v1, k, c1, c2

MCRequest(tool, lang, content, expected, key) ==
  [tool |-> tool, lang |-> lang, content |-> content, expected |-> expected, key |-> key]
MCCreate(lang, v, key)      == MCRequest("create_page", lang, v, Absent, key)
MCUpdate(lang, old, v, key) == MCRequest("update_page", lang, v, old, key)
MCDelete(lang, old, key)    == MCRequest("delete_page", lang, Absent, old, key)

\* One client with an idempotency key per tool, one that calls without keys.
MCKeyed   == { MCCreate(en, v1, k), MCUpdate(Default, v0, v1, k), MCUpdate(Default, v1, v0, k),
               MCDelete(Default, v0, k) }
MCUnkeyed == { MCUpdate(Default, v1, v0, NoKey), MCDelete(Default, Absent, NoKey),
               MCDelete(en, v1, NoKey), MCUpdate(Default, v0, v1, NoKey) }
MCAsks     == [c \in Clients |-> IF c = c1 THEN MCKeyed ELSE MCUnkeyed]
MCRequests == MCKeyed \cup MCUnkeyed
MCDisks == { [l \in Langs |-> Absent], [l \in Langs |-> IF l = Default THEN v0 ELSE Absent] }
=============================================================================
