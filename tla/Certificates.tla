---------------------------- MODULE Certificates ----------------------------
(***************************************************************************)
(* Signing and verification of MailerId certificates and assertions        *)
(* (lib-common/mid-sigs-NaCl-Ed.ts).                                       *)
(*                                                                         *)
(* A certificate is a record: its own key, a key that signed it, and a     *)
(* half-open interval of its validity.  A signature is right exactly when  *)
(* a signing key is the expected one.  There is one provider and one user, *)
(* so that comparisons of addresses and of key uses are always true here.  *)
(***************************************************************************)
EXTENDS Integers

CONSTANTS
    RootLife, ProvLife,     \* ROOT_CERT_VALIDITY, PROVIDER_CERT_VALIDITY
    MaxUserLife,            \* MAX_USER_CERT_VALIDITY
    AssertLife              \* validity period of assertions

ASSUME LivesAssumption ==
    /\ RootLife \in Nat \ {0} /\ ProvLife \in Nat \ {0}
    /\ MaxUserLife \in Nat \ {0} /\ AssertLife \in Nat \ {0}

Cert(key, by, now, validFor) ==
    [key |-> key, by |-> by, iss |-> now, exp |-> now + validFor]

ValidAt(c, t) == c.iss <= t /\ t < c.exp

\* generateRootKey, generateProviderKey, and certify of a certifier
RootCert(k, now) == Cert(k, k, now, RootLife)
WrongProviderCert(k, root, now) == Cert(k, k, now, ProvLife)   \* its own key signs
ProviderCert(k, root, now) == Cert(k, root.key, now, ProvLife)
UserCert(k, prov, now, validFor) ==
    Cert(k, prov.key, now, IF validFor > MaxUserLife THEN MaxUserLife
                                                     ELSE validFor)

\* Root certificate must be valid at creation of provider's certificate, and
\* provider's one at creation of user's certificate.
WrongVerifyChain(user, prov, root, t) ==    \* all are checked at one moment
    /\ ValidAt(root, t)
    /\ prov.by = root.key /\ ValidAt(prov, t)
    /\ user.by = prov.key /\ ValidAt(user, t)
VerifyChain(user, prov, root, t) ==
    /\ ValidAt(root, prov.iss)
    /\ prov.by = root.key /\ ValidAt(prov, user.iss)
    /\ user.by = prov.key /\ ValidAt(user, t)

\* generateAssertionFor of a signer with a user's certificate
MaySign(user, now) == now < user.exp
Assertion(user, sid, now) ==
    [sid |-> sid, by |-> user.key, iss |-> now, exp |-> now + AssertLife]

VerifyAssertion(assertion, user, prov, root, t) ==
    /\ VerifyChain(user, prov, root, t)
    /\ assertion.by = user.key
    /\ ValidAt(assertion, t)

\* verifyKeyCert and verifyPubKey
VerifyKeyCert(cert, signKey, t) == cert.by = signKey /\ ValidAt(cert, t)
WrongVerifyPubKey(cert, user, prov, root, t) ==     \* chain is checked at t
    VerifyChain(user, prov, root, t) /\ VerifyKeyCert(cert, user.key, t)
VerifyPubKey(cert, user, prov, root, t) ==
    VerifyChain(user, prov, root, cert.iss) /\ VerifyKeyCert(cert, user.key, t)
=============================================================================
