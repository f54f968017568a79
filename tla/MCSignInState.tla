---------------------------- MODULE MCSignInState ----------------------------
(***************************************************************************)
(* SignInState for TLC: every answer that differs from a good one in its keys *)
(* or in its claims; who it speaks of is true where the provider made it for   *)
(* the platform, and anything where not.                                      *)
(***************************************************************************)
EXTENDS SignInState, TLC

Key(kid, kty, use, alg, pair) == [kid |-> kid, kty |-> kty, use |-> use, alg |-> alg, pair |-> pair]
Published ==
  { << Key("k1", "RSA", "sig", "RS256", "current") >>,
    << Key("k1", "RSA", "sig", "absent", "current"), Key("k2", "RSA", "absent", "RS256", "next") >>,
    << Key("k1", "RSA", "enc", "absent", "outside"), Key("k1", "RSA", "sig", "RS256", "current") >>,
    << Key("k2", "EC", "sig", "other", "outside"), Key("k1", "RSA", "sig", "other", "outside") >> }

GoodKeys == [form |-> "jwt", alg |-> "RS256", kid |-> "k1", keysArrive |-> TRUE, signer |-> "current",
             keys |-> << Key("k1", "RSA", "sig", "RS256", "current") >>]
AnyKeys ==
  [form : {"jwt"}, alg : {"RS256", "other"}, kid : {None, "k1", "k2"}, keysArrive : {TRUE},
   signer : {"current", "next", "outside"}, keys : Published]
  \cup {[GoodKeys EXCEPT !.form = "malformed"], [GoodKeys EXCEPT !.keysArrive = FALSE]}

GoodClaims == [iss |-> "provider", aud |-> << "client" >>, azp |-> "absent",
               exp |-> Number(1), nbf |-> Absent, iat |-> Number(0)]
AnyClaims ==
  [iss : {"provider", "another"},
   aud : {<<>>, << "client" >>, << "another" >>, << "another", "client" >>},
   azp : {"absent", "client", "another"}, exp : {Number(1)}, nbf : {Absent}, iat : {Absent}]
  \cup {[GoodClaims EXCEPT !.exp = x] : x \in {Absent, Other, Number(-60), Number(-61)}}
  \cup {[GoodClaims EXCEPT !.nbf = x] : x \in {Other, Number(60), Number(61)}}
  \cup {[GoodClaims EXCEPT !.iat = x] : x \in {Other, Number(60), Number(61)}}

Info(ok, sub, email, verified) == [ok |-> ok, sub |-> sub, email |-> email, verified |-> verified]
NoInfo == Info(FALSE, None, None, FALSE)
Who(c, sub, nonce, email, verified, named, access, info) ==
  [code |-> c, tokens |-> "id_token", sub |-> sub, nonce |-> nonce, email |-> email,
   verified |-> verified, named |-> named, access |-> access, info |-> info]

\* What the provider says of the account that signed in, with the userinfo of this
\* account or of another.
Account ==
  {Who(c, c, c, e, e = c, named, access, info) :
     c \in States, e \in States \cup {None}, named, access \in BOOLEAN,
     info \in {NoInfo, Info(TRUE, None, None, FALSE)}
              \cup {Info(TRUE, x, x, verified) : x \in States, verified \in BOOLEAN}}
  \cup {Who(c, c, c, c, FALSE, TRUE, TRUE, Info(TRUE, c, x, FALSE)) : c, x \in States}
\* What a token that was made for somebody else, or by somebody else, may say.
Somebody == {Who(c, x, nonce, x, TRUE, TRUE, FALSE, NoInfo) : c, nonce \in States, x \in States \cup {None}}
Themselves == {Who(c, c, c, c, TRUE, TRUE, FALSE, NoInfo) : c \in States}

Answer(k, c, w) ==
  [form |-> k.form, alg |-> k.alg, kid |-> k.kid, keysArrive |-> k.keysArrive, signer |-> k.signer,
   keys |-> k.keys, iss |-> c.iss, aud |-> c.aud, azp |-> c.azp, exp |-> c.exp, nbf |-> c.nbf,
   iat |-> c.iat, code |-> w.code, tokens |-> w.tokens, sub |-> w.sub, nonce |-> w.nonce,
   email |-> w.email, verified |-> w.verified, named |-> w.named, access |-> w.access, info |-> w.info]
Varied ==
  {Answer(k, GoodClaims, w) : k \in AnyKeys, w \in Somebody}
  \cup {Answer(GoodKeys, c, w) : c \in AnyClaims, w \in Somebody}
MCAnswers ==
  {Answer(GoodKeys, GoodClaims, w) : w \in Account}
  \cup {Answer(GoodKeys, GoodClaims, [w EXCEPT !.tokens = "none"]) : w \in Themselves}
  \cup {a \in Varied : Genuine(a) => a.nonce = a.code /\ a.sub = a.code}

Symmetry ==
  Permutations(States) \cup Permutations(Browsers) \cup Permutations(Starts)
    \cup Permutations(Callbacks)
=============================================================================
