--------------------------- MODULE MCUserIdentity ---------------------------
(* Two users and a project group; users.yml starts with the first of them. *)
EXTENDS UserIdentity

CONSTANTS alice, bob, lab

Names == <<alice, bob>>

Entry(status, uid, gid, groups, adopt) ==
    [status |-> status, uid |-> uid, gid |-> gid, groups |-> groups, adopt |-> adopt]

UserRows ==
    {Entry("active", None, None, gs, FALSE) : gs \in SUBSET {lab}}
      \cup {Entry("active", i, j, {}, FALSE) : i \in 1..2, j \in 1..3}
      \cup {Entry("active", None, None, {}, TRUE),
            Entry("suspended", None, None, {}, FALSE),
            Entry("inactive", None, None, {}, FALSE)}

MemberRows ==
    {Entry("active", None, None, gs, FALSE) : gs \in SUBSET {lab}}
      \cup {Entry("suspended", None, None, {}, FALSE)}

StartDoc == [row |-> [u \in {alice, bob} |-> IF u = alice THEN Entry("active", None, None, {}, FALSE) ELSE None],
             group |-> [q \in {lab} |-> "defined"]]
=============================================================================
