---------------------------- MODULE OidcIdentity ----------------------------
(***************************************************************************)
(* What the platform makes of a provider's answer to an authorization code: *)
(* the adapter (auth/generic-oidc-provider-adapter.ts) exchanges the code,   *)
(* has the id token verified (auth/generic-oidc-jwks-verifier.ts), compares  *)
(* its nonce with the one of the state, and may ask for the userinfo.        *)
(*                                                                         *)
(* An answer is everything that arrives for one code: the tokens, the keys    *)
(* published and the userinfo.  A sign-in, its nonce and the account it is    *)
(* made with have one name.  Strings that are blank are None.                 *)
(***************************************************************************)
EXTENDS Integers, Sequences

CONSTANTS
  States,     \* the sign-ins: their states, nonces and accounts
  None,       \* nothing, or nothing but space
  Answers     \* what may arrive

\* A claim with a time is absent, a number, or something else; a number is in
\* seconds from the instant of the callback.
Absent == [is |-> "absent", at |-> 0]
Other == [is |-> "other", at |-> 0]
Number(n) == [is |-> "number", at |-> n]

ClockTolerance == 60

-----------------------------------------------------------------------------
(* The key and the signature *)

\* MUTANT of isUsableRsaSigningJwk: what a key is for is not asked.
AnyRsaJwk(key) == key.kty = "RSA" /\ key.alg \in {"absent", "RS256"}

isUsableRsaSigningJwk(key) ==
  /\ key.kty = "RSA"
  /\ key.use \in {"absent", "sig"}
  /\ key.alg \in {"absent", "RS256"}

Candidates(a) == {i \in DOMAIN a.keys : isUsableRsaSigningJwk(a.keys[i])}

\* selectSigningJwk: the first key of the id in the header, or the only key.
Selected(a) ==
  {i \in Candidates(a) :
     IF a.kid # None
     THEN a.keys[i].kid = a.kid /\ \A j \in Candidates(a) : a.keys[j].kid = a.kid => i <= j
     ELSE Candidates(a) = {i}}

\* parseJwt, assertSupportedAlgorithm, readSigningKey, assertSignature
SignatureHolds(a) ==
  /\ a.form = "jwt" /\ a.alg = "RS256"
  /\ a.keysArrive
  /\ \E i \in Selected(a) : a.keys[i].pair = a.signer

-----------------------------------------------------------------------------
(* The claims *)

\* MUTANT of AudienceHolds: an audience of several is not asked for its party.
AudienceAmongOthers(a) == \E i \in DOMAIN a.aud : a.aud[i] = "client"

\* assertAudienceAndAuthorizedParty; a string is an audience of one.
AudienceHolds(a) ==
  /\ \E i \in DOMAIN a.aud : a.aud[i] = "client"
  /\ Len(a.aud) > 1 => a.azp = "client"

\* assertExpiration, assertNotBefore, assertIssuedAt
TimesHold(a) ==
  /\ a.exp.is = "number" /\ 0 <= a.exp.at + ClockTolerance
  /\ \A claim \in {a.nbf, a.iat} :
       claim.is = "absent" \/ (claim.is = "number" /\ claim.at <= ClockTolerance)

\* assertClaims
ClaimsHold(a) == a.iss = "provider" /\ AudienceHolds(a) /\ a.sub # None /\ TimesHold(a)

\* MUTANT of NonceMatches: the id token's nonce is not compared.
NonceIgnored(a, s) == TRUE

\* assertNonceMatches; the row of a state always has its nonce.
NonceMatches(a, s) == a.nonce = s

-----------------------------------------------------------------------------
(* The userinfo and the identity *)

EmailClaimed(a) == a.verified /\ a.email # None

\* readVerifiedUserinfo: asked for only if it is there to ask (`access': an access
\* token came and an endpoint is configured) and there is something to ask.
AsksUserinfo(a) == a.access /\ ~(EmailClaimed(a) /\ a.named)

\* MUTANT of UserinfoHolds: whose userinfo came is not compared.
AnyUserinfo(a) == AsksUserinfo(a) => a.info.ok

UserinfoHolds(a) == AsksUserinfo(a) => a.info.ok /\ a.info.sub # None /\ a.info.sub = a.sub

\* MUTANT of VerifiedEmail: the userinfo's email need not be verified.
AnyEmail(a) ==
  IF EmailClaimed(a) THEN a.email ELSE IF AsksUserinfo(a) THEN a.info.email ELSE None

\* readVerifiedEmail
VerifiedEmail(a) ==
  IF EmailClaimed(a) THEN a.email
  ELSE IF AsksUserinfo(a) /\ a.info.verified THEN a.info.email
  ELSE None

\* parseTokenResponse
TokensParsed(a) == a.tokens = "id_token"

\* verifyIdToken
IdTokenVerified(a) == SignatureHolds(a) /\ ClaimsHold(a)

\* exchangeCodeForTokens, verifyTokens
Verified(a, s) ==
  /\ TokensParsed(a)
  /\ IdTokenVerified(a)
  /\ NonceMatches(a, s)
  /\ UserinfoHolds(a)

\* createAuthProviderIdentity: the accounts an identity names, by its subject and by
\* its email. The resolver finds a user by the first and approvals by the second.
Accounts(a) == {a.sub, VerifiedEmail(a)} \ {None}

\* What a callback with the code of sign-in c and the state of sign-in s may get.
Identities ==
  [c \in States |-> [s \in States |->
     {Accounts(a) : a \in {x \in Answers : x.code = c /\ Verified(x, s)}}]]

-----------------------------------------------------------------------------
(* The provider *)

\* The pairs it signs with, and the keys it publishes for that.
ProviderPairs == {"current", "next"}
ForSignatures(key) == key.kty = "RSA" /\ key.use # "enc" /\ key.alg # "other"

\* A token the provider made for the platform: the party a token of several audiences
\* is for is its azp.
Genuine(a) ==
  /\ a.signer \in ProviderPairs /\ a.iss = "provider"
  /\ a.aud = << "client" >> \/ (a.azp = "client" /\ \E i \in DOMAIN a.aud : a.aud[i] = "client")

\* What a provider vouches for: its tokens for the platform carry the nonce and the
\* account of the sign-in the code is of, what it calls a verified email is that of the
\* account it speaks of, and what it publishes as its keys are its keys.
ASSUME AnswersAssumption ==
  \A a \in Answers :
    /\ a.code \in States /\ a.aud \in Seq(STRING)
    /\ Genuine(a) => a.nonce = a.code /\ a.sub = a.code /\ (a.verified => a.email \in {None, a.sub})
    /\ a.info.verified => a.info.email \in {None, a.info.sub}
    /\ \A i \in DOMAIN a.keys : ForSignatures(a.keys[i]) => a.keys[i].pair \in ProviderPairs
=============================================================================
