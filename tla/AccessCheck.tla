---------------------------- MODULE AccessCheck ----------------------------
(***************************************************************************)
(* The access check of security.c: a DACL built entry by entry, a token    *)
(* that impersonates and reverts, and the check of a mask.                 *)
(***************************************************************************)
EXTENDS Integers, Sequences

CONSTANTS
  Sids,
  Rights,
  AceSlots,    \* entries of a DACL
  TokenUser, TokenGroup  \* the SIDs cellar_token_default makes

ASSUME AccessAssumption ==
  AceSlots \in Nat /\ {TokenUser, TokenGroup} \subseteq Sids

VARIABLES
  dacl,         \* sd->dacl: a sequence of [allow, sid, mask]
  impersonated  \* the SID the token impersonates; TokenUser after a revert

accessVars == <<dacl, impersonated>>

AccessInit == dacl = << >> /\ impersonated = TokenUser

AclAdd(allow, sid, mask) ==
  /\ Len(dacl) < AceSlots
  /\ dacl' = Append(dacl, [allow |-> allow, sid |-> sid, mask |-> mask])
  /\ UNCHANGED impersonated

Impersonate(sid) == impersonated' = sid /\ UNCHANGED dacl
Revert == impersonated' = TokenUser /\ UNCHANGED dacl

(* Variant: the token's own user counts while it impersonates.             *)
TokenHasSidOwn(sid) == sid \in {impersonated, TokenUser, TokenGroup}

(* Impersonation takes the user's place; the groups stay.                  *)
TokenHasSid(sid) == sid \in {impersonated, TokenGroup}

(* An entry that lacks one of the wanted rights is passed over, a deny     *)
(* entry as well.                                                          *)
Applies(ace, mask) == TokenHasSid(ace.sid) /\ mask \subseteq ace.mask

(* cellar_acl_check, entry by entry.                                       *)
AclCheck(mask) ==
  LET after[i \in 0..Len(dacl)] ==
        IF i = 0 THEN "none"
        ELSE LET before == after[i - 1]
             IN  IF before = "denied" \/ ~Applies(dacl[i], mask) THEN before
                 ELSE IF dacl[i].allow THEN "allowed" ELSE "denied"
  IN  after[Len(dacl)] = "allowed"

AccessStep ==
  \/ \E allow \in BOOLEAN, sid \in Sids, mask \in SUBSET Rights : AclAdd(allow, sid, mask)
  \/ \E sid \in Sids : Impersonate(sid)
  \/ Revert

-----------------------------------------------------------------------------
AccessTypeOK == Len(dacl) <= AceSlots /\ impersonated \in Sids

(* Deny entries win, in whatever order the entries were added and whoever  *)
(* the token acts for: a set of rights is granted only if one entry for    *)
(* him or his group allows all of it and none denies all of it, and it is  *)
(* granted when one allows all of it and none denies any of it.  For a     *)
(* single right that decides.  Of an entry that denies only a part of what *)
(* is asked nothing is claimed: security.h has it win, security.c passes   *)
(* over it.                                                                *)
DenyWins ==
  LET Entries(allow) ==
        {i \in DOMAIN dacl : dacl[i].allow = allow /\ dacl[i].sid \in {impersonated, TokenGroup}}
      Whole(allow, mask) == \E i \in Entries(allow) : mask \subseteq dacl[i].mask
      Part(allow, mask) == \E i \in Entries(allow) : mask \cap dacl[i].mask # {}
  IN  \A mask \in (SUBSET Rights) \ {{}} :
        /\ AclCheck(mask) => Whole(TRUE, mask) /\ ~Whole(FALSE, mask)
        /\ Whole(TRUE, mask) /\ ~Part(FALSE, mask) => AclCheck(mask)
=============================================================================
