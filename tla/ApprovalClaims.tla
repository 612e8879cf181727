--------------------------- MODULE ApprovalClaims ---------------------------
(***************************************************************************)
(* LocalApprovalAuthority of local_approval.py: one directory on disk that *)
(* holds the signing key and a file `used-<hash>' for every nonce that was *)
(* claimed.  An approval is good for one use: the one whose exclusive      *)
(* creation of the claim file succeeded and whose fsyncs came back.        *)
(*                                                                         *)
(* Files that were created and not yet synced survive the death of their   *)
(* process; a loss of power may take them away.                            *)
(***************************************************************************)
EXTENDS Naturals

CONSTANT Nonces

VARIABLES key,    \* the file `key': "absent", "partial" or "whole"
          claim,  \* the claim file of each nonce: "absent", "created", "kept"
          spent   \* how many verifications of each nonce answered True

claimVars == <<key, claim, spent>>

ClaimInit ==
    /\ key = "absent"
    /\ claim = [n \in Nonces |-> "absent"]
    /\ spent = [n \in Nonces |-> 0]

ClaimTypeOK ==
    /\ key \in {"absent", "partial", "whole"}
    /\ claim \in [Nonces -> {"absent", "created", "kept"}]
    /\ spent \in [Nonces -> Nat]

-----------------------------------------------------------------------------
(* initialize(): the key is created exclusively and then written.  Cut off *)
(* in between, it leaves a short file that no later call replaces.         *)

KeyCreated ==
    /\ key = "absent"
    /\ key' = "partial"
    /\ UNCHANGED <<claim, spent>>

KeyWritten ==
    /\ key = "partial"
    /\ key' = "whole"
    /\ UNCHANGED <<claim, spent>>

\* _key and the signature: without a whole key nothing can be issued, and
\* what was not issued for exactly this use is not authentic.
Authentic == key = "whole"

-----------------------------------------------------------------------------
(* _verify with consume=True, in two steps.                                *)

\* Faulty variant of ClaimCreated: an existing claim file is opened again.
ClaimReopened(n) ==
    /\ Authentic
    /\ claim' = [claim EXCEPT ![n] = IF @ = "absent" THEN "created" ELSE @]
    /\ UNCHANGED <<key, spent>>

\* os.open with O_CREAT | O_EXCL: of several claimants one gets the file.
ClaimCreated(n) ==
    /\ Authentic
    /\ claim[n] = "absent"
    /\ claim' = [claim EXCEPT ![n] = "created"]
    /\ UNCHANGED <<key, spent>>

\* The record is written, the file and the directory synced: True.
ClaimKept(n) ==
    /\ claim' = [claim EXCEPT ![n] = "kept"]
    /\ spent' = [spent EXCEPT ![n] = @ + 1]
    /\ UNCHANGED key

\* What a loss of power leaves of the directory.
ClaimsLost ==
    /\ key' \in IF key = "partial" THEN {"absent", "partial"} ELSE {key}
    /\ \E gone \in SUBSET {n \in Nonces : claim[n] = "created"} :
        claim' = [n \in Nonces |-> IF n \in gone THEN "absent" ELSE claim[n]]
    /\ UNCHANGED spent
=============================================================================
