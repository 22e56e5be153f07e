-------------------------- MODULE RmmAttestProofs --------------------------
(***************************************************************************)
(* The RMM's side of Platform, for any realms, RECs, metadata and          *)
(* challenges and whatever EL3 answers, under any values of the bounds.    *)
(*                                                                         *)
(* RmmInv: once there is a realm the keys of the RMM stay, and what a REC  *)
(* has collected since ATTEST_TOKEN_INIT are parts of tokens that differ   *)
(* in the extensible measurements alone, which only grow.                  *)
(***************************************************************************)
EXTENDS Platform, Functions, TLAPS

LOCAL INSTANCE SequenceTheorems

\* A sequence, of whatever values.
IsSeq(s) == s \in Seq(Range(s))

(* The facts about sequences that the proofs use. *)
LEMMA SeqFacts ==
    /\ IsSeq(<<>>) /\ Len(<<>>) = 0
    /\ \A s : IsSeq(s) => Len(s) \in Nat /\ (s = <<>> <=> Len(s) = 0)
    /\ \A s, x : IsSeq(s) => /\ IsSeq(Append(s, x)) /\ Len(Append(s, x)) = Len(s) + 1
                             /\ Append(s, x)[Len(s) + 1] = x
                             /\ \A i \in 1 .. Len(s) : Append(s, x)[i] = s[i]
                             /\ SubSeq(Append(s, x), 1, Len(s)) = s
                             /\ SubSeq(s, 1, Len(s)) = s
    /\ \A s, t : IsSeq(s) /\ IsSeq(t) =>
           /\ IsSeq(s \o t) /\ Len(s \o t) = Len(s) + Len(t)
           /\ \A i \in 1 .. Len(s) + Len(t) :
                 (s \o t)[i] = IF i <= Len(s) THEN s[i] ELSE t[i - Len(s)]
    /\ \A s : IsSeq(s) /\ s # <<>> =>
           /\ IsSeq(Tail(s)) /\ Len(Tail(s)) = Len(s) - 1 /\ Head(s) = s[1]
           /\ \A i \in 1 .. Len(s) - 1 : Tail(s)[i] = s[i + 1]
    /\ Range(<<>>) = {}
    /\ \A s : IsSeq(s) => /\ \A i \in 1 .. Len(s) : s[i] \in Range(s)
                          /\ \A x \in Range(s) : \E i \in 1 .. Len(s) : x = s[i]
    /\ \A s, x : IsSeq(s) => Range(Append(s, x)) = Range(s) \cup {x}
    /\ \A s, t : IsSeq(s) /\ IsSeq(t) => Range(s \o t) = Range(s) \cup Range(t)
    /\ \A s : IsSeq(s) /\ s # <<>> => Range(Tail(s)) \subseteq Range(s)
<1> USE Zenon
<1>1. IsSeq(<<>>) /\ Len(<<>>) = 0
  <2>1. <<>> \in Seq({}) /\ Len(<<>>) = 0
    BY EmptySeq
  <2> QED
    BY <2>1, SeqOfRange DEF IsSeq
<1>2. ASSUME NEW s, IsSeq(s) PROVE Len(s) \in Nat /\ (s = <<>> <=> Len(s) = 0)
  BY <1>2, EmptySeq, LenProperties DEF IsSeq
<1>3. ASSUME NEW s, NEW x, IsSeq(s)
      PROVE  /\ IsSeq(Append(s, x)) /\ Len(Append(s, x)) = Len(s) + 1
             /\ Append(s, x)[Len(s) + 1] = x
             /\ \A i \in 1 .. Len(s) : Append(s, x)[i] = s[i]
             /\ SubSeq(Append(s, x), 1, Len(s)) = s
             /\ SubSeq(s, 1, Len(s)) = s
  <2> DEFINE S == Range(s) \cup {x}
             t == Append(s, x)
  <2>1. s \in Seq(S) /\ x \in S
    BY <1>3, SeqMonotonic DEF IsSeq
  <2>2. /\ t \in Seq(S) /\ Len(t) = Len(s) + 1 /\ t[Len(s) + 1] = x
        /\ \A i \in 1 .. Len(s) : t[i] = s[i]
    BY <2>1, AppendProperties, SMTT(30)
  <2>3. Len(s) \in Nat
    BY <1>2, <1>3
  <2>4. IsSeq(t)
    BY <2>2, SeqOfRange DEF IsSeq
  <2>5. \A i \in 1 .. Len(s) : t[i] \in S
    BY <2>2, <2>3, ElementOfSeq, SMTT(30)
  <2>6. /\ SubSeq(t, 1, Len(s)) \in Seq(S)
        /\ Len(SubSeq(t, 1, Len(s))) = Len(s)
        /\ \A i \in 1 .. Len(s) : SubSeq(t, 1, Len(s))[i] = s[i]
    BY <2>2, <2>3, <2>5, SubSeqProperties, SMTT(30)
  <2>7. SubSeq(t, 1, Len(s)) = s
    BY <2>1, <2>6, SeqEqual
  <2>8. SubSeq(s, 1, Len(s)) = s
    BY <2>1, SubSeqFull
  <2> QED
    BY <2>2, <2>4, <2>7, <2>8
<1>4. ASSUME NEW s, NEW t, IsSeq(s), IsSeq(t)
      PROVE  /\ IsSeq(s \o t) /\ Len(s \o t) = Len(s) + Len(t)
             /\ \A i \in 1 .. Len(s) + Len(t) :
                   (s \o t)[i] = IF i <= Len(s) THEN s[i] ELSE t[i - Len(s)]
  <2> DEFINE S == Range(s) \cup Range(t)
  <2>1. s \in Seq(S) /\ t \in Seq(S)
    BY <1>4, SeqMonotonic DEF IsSeq
  <2>2. s \o t \in Seq(S)
    BY <2>1, ConcatProperties
  <2> QED
    BY <2>1, <2>2, ConcatProperties, SeqOfRange DEF IsSeq
<1>5. ASSUME NEW s, IsSeq(s), s # <<>>
      PROVE  /\ IsSeq(Tail(s)) /\ Len(Tail(s)) = Len(s) - 1 /\ Head(s) = s[1]
             /\ \A i \in 1 .. Len(s) - 1 : Tail(s)[i] = s[i + 1]
  <2>1. /\ Tail(s) \in Seq(Range(s)) /\ Len(Tail(s)) = Len(s) - 1
        /\ \A i \in 1 .. Len(Tail(s)) : Tail(s)[i] = s[i + 1]
    BY <1>5, HeadTailProperties DEF IsSeq
  <2>2. Head(s) = s[1]
    BY SMTT(30)
  <2> QED
    BY <2>1, <2>2, SeqOfRange DEF IsSeq
<1>6. ASSUME NEW s, IsSeq(s)
      PROVE  /\ \A i \in 1 .. Len(s) : s[i] \in Range(s)
             /\ \A x \in Range(s) : \E i \in 1 .. Len(s) : x = s[i]
  <2>1. Range(s) = {s[i] : i \in 1 .. Len(s)}
    BY <1>6, RangeEquality DEF IsSeq
  <2> QED
    BY <2>1
<1>7. Range(<<>>) = {}
  BY <1>1, <1>6, SMTT(30)
<1>8. ASSUME NEW s, NEW x, IsSeq(s) PROVE Range(Append(s, x)) = Range(s) \cup {x}
  <2> DEFINE t == Append(s, x)
  <2>1. /\ IsSeq(t) /\ Len(t) = Len(s) + 1 /\ t[Len(s) + 1] = x /\ Len(s) \in Nat
        /\ \A i \in 1 .. Len(s) : t[i] = s[i]
    BY <1>2, <1>3, <1>8, SMTT(30)
  <2> HIDE DEF t
  <2>2. ASSUME NEW y \in Range(t) PROVE y \in Range(s) \cup {x}
    BY <1>6, <1>8, <2>1, SMTT(30)
  <2>3. ASSUME NEW y \in Range(s) PROVE y \in Range(t)
    BY <1>6, <1>8, <2>1, SMTT(30)
  <2>4. x \in Range(t)
    BY <1>6, <2>1, SMTT(30)
  <2>5. Range(t) = Range(s) \cup {x}
    BY <2>2, <2>3, <2>4
  <2> QED
    BY <2>5 DEF t
<1>9. ASSUME NEW s, NEW t, IsSeq(s), IsSeq(t) PROVE Range(s \o t) = Range(s) \cup Range(t)
  <2>1. s \in Seq(Range(s) \cup Range(t)) /\ t \in Seq(Range(s) \cup Range(t))
    BY <1>9, SeqMonotonic DEF IsSeq
  <2> QED
    BY <2>1, RangeConcatenation, SMTT(30)
<1>10. ASSUME NEW s, IsSeq(s), s # <<>> PROVE Range(Tail(s)) \subseteq Range(s)
  <2> DEFINE t == Tail(s)
  <2>1. /\ IsSeq(t) /\ Len(t) = Len(s) - 1 /\ Len(s) \in Nat
        /\ \A i \in 1 .. Len(s) - 1 : t[i] = s[i + 1]
    BY <1>2, <1>5, <1>10
  <2> HIDE DEF t
  <2>2. Range(t) \subseteq Range(s)
    BY <1>6, <1>10, <2>1, SMTT(30)
  <2> QED
    BY <2>2 DEF t
<1> QED
  BY <1>1, <1>2, <1>3, <1>4, <1>5, <1>6, <1>7, <1>8, <1>9, <1>10, ZenonT(60)

-----------------------------------------------------------------------------
(* The RMM and its realms *)

Rems == [Rem -> Seq({"v"})]
RealmRec == [state : {"Null", "New", "Active"}, rim : Seq(Params \cup Desc), rems : Rems,
             rpv : Rpv \cup {None}, meta : Metadata \cup {None}]
AttRec == [state : {"NoAttestInProgress", "AttestInProgress"},
           challenge : Challenge \cup {None}, offset : 0 .. TokenLen]

\* Extensible measurements m have become n by extensions alone.
Grows(m, n) ==
    \A i \in Rem : Len(m[i]) <= Len(n[i]) /\ (Len(m[i]) = Len(n[i]) => m[i] = n[i])

RemsIn(part) == part.token.realm.claims.rems

\* The token for challenge ch of realm r, whose extensible measurements were m.
TokenOf(plat, key, ch, r, m) ==
    [platform |-> plat,
     realm |-> [claims |-> [challenge |-> ch, rpv |-> r.rpv, rim |-> r.rim, rems |-> m, rak |-> key],
                signedBy |-> key]]

\* The parts g that a REC in attestation state a of realm r has collected.
PartsOK(g, a, r, plat, key) ==
    /\ IsSeq(g)
    /\ g = <<>> => a.offset = 0
    /\ g # <<>> =>
          /\ r.state = "Active"
          /\ g[1].from = 0 /\ g[Len(g)].to = a.offset
          /\ a.state = "NoAttestInProgress" <=> a.offset = TokenLen
          /\ \A i \in 1 .. Len(g) - 1 : g[i].to = g[i + 1].from
          /\ \A i \in 1 .. Len(g) :
                /\ RemsIn(g[i]) \in Rems /\ Grows(RemsIn(g[i]), r.rems)
                /\ g[i].token = TokenOf(plat, key, a.challenge, r, RemsIn(g[i]))
          /\ \A i, j \in 1 .. Len(g) : i <= j => Grows(RemsIn(g[i]), RemsIn(g[j]))

RmmInv ==
    /\ rmmBoot \in {"key", "token", "VHUK_A", "VHUK_M", "up", "panicked"}
    /\ DOMAIN vhuk = Vhuk
    /\ rlm \in [Realm -> RealmRec] /\ att \in [Rec -> AttRec] /\ DOMAIN got = Rec
    /\ \A r \in Realm : rlm[r].state # "Null" => rmmBoot = "up"
    /\ \A c \in Rec : PartsOK(got[c], att[c], rlm[OwnerOf[c]], platToken, attestKey)

LEMMA RmmInvariant == Spec => []RmmInv
<1>1. Init => RmmInv
  <2> USE Zenon
  <2> SUFFICES ASSUME Init PROVE RmmInv
    OBVIOUS
  <2>1. NoRealm \in RealmRec
    BY SMTT(30) DEF NoRealm, RealmRec, EmptyMeasurement, Rems
  <2>2. rlm \in [Realm -> RealmRec] /\ \A r \in Realm : rlm[r].state = "Null"
    BY <2>1 DEF Init, RmmInit, NoRealm
  <2>3. att \in [Rec -> AttRec] /\ \A c \in Rec : att[c].offset = 0
    BY RmmAssumption, SMTT(30) DEF Init, RmmInit, AttRec
  <2>4. \A c \in Rec : got[c] = <<>>
    BY DEF Init, RmmInit
  <2>5. \A c \in Rec : PartsOK(got[c], att[c], rlm[OwnerOf[c]], platToken, attestKey)
    BY <2>3, <2>4, SeqFacts DEF PartsOK
  <2> QED
    BY <2>2, <2>3, <2>5 DEF Init, RmmInit, RmmInv
<1> SUFFICES ASSUME RmmInv, [Next]_vars PROVE RmmInv'
  BY <1>1, PTL DEF Spec
<1>2. ASSUME UNCHANGED rmmVars PROVE RmmInv'
  BY <1>2, Zenon DEF rmmVars, RmmInv
\* No REC has collected anything before its realm runs.
<1>3. ASSUME NEW c \in Rec, NEW r, NEW plat, NEW key, rlm[OwnerOf[c]].state # "Active"
      PROVE  got[c] = <<>> /\ PartsOK(got[c], att[c], r, plat, key)
  BY <1>3, Zenon DEF RmmInv, PartsOK
\* The calls of setup_el3_ifc, while there is no realm.
<1>4. ASSUME NEW ok, NEW resp, SmcReturns(ok, resp) PROVE RmmInv'
  <2> USE Zenon
  <2>1. /\ rmmBoot' \in {"key", "token", "VHUK_A", "VHUK_M", "up", "panicked"}
        /\ rmmBoot # "up" /\ DOMAIN vhuk' = Vhuk /\ UNCHANGED <<rlm, att, got>>
    BY <1>4 DEF SmcReturns, GetRealmAttestKey, GetPlatToken, GetVhuk, UnknownErrorCode, Vhuk, RmmInv
  <2>2. \A r \in Realm : rlm[r].state = "Null"
    BY <2>1 DEF RmmInv
  <2>3. \A c \in Rec : PartsOK(got'[c], att'[c], rlm'[OwnerOf[c]], platToken', attestKey')
    BY <1>3, <2>1, <2>2, RmmAssumption
  <2> QED
    BY <2>1, <2>2, <2>3 DEF RmmInv
\* A realm is made, measured or activated: none of its RECs has run.
<1>5. ASSUME NEW r \in Realm, NEW x \in RealmRec, rlm[r].state # "Active",
             rlm' = [rlm EXCEPT ![r] = x], rmmBoot = "up",
             UNCHANGED <<rmmBoot, attestKey, platToken, vhuk, att, got>>
      PROVE  RmmInv'
  <2> USE Zenon
  <2>1. rlm' \in [Realm -> RealmRec] /\ \A q \in Realm \ {r} : rlm'[q] = rlm[q]
    BY <1>5 DEF RmmInv
  <2>2. ASSUME NEW c \in Rec
        PROVE  PartsOK(got'[c], att'[c], rlm'[OwnerOf[c]], platToken', attestKey')
    BY <1>3, <1>5, <2>1, RmmAssumption DEF RmmInv
  <2> QED
    BY <1>5, <2>1, <2>2 DEF RmmInv
<1>6. ASSUME NEW r \in Realm, NEW p \in Params, NEW v \in Rpv, NEW m \in Metadata \cup {None},
             RealmCreate(r, p, v, m)
      PROVE  RmmInv'
  <2> USE Zenon
  <2> DEFINE x == [NoRealm EXCEPT !.state = "New", !.rpv = v, !.meta = m,
                                  !.rim = MeasureRealmCreate(p)]
  <2>1. MeasureRealmCreate(p) \in Seq(Params \cup Desc)
    BY <1>6, SMTT(30) DEF MeasureRealmCreate, Hashed, EmptyMeasurement
  <2>2. x \in RealmRec
    <3>1. NoRealm \in RealmRec
      BY SMTT(30) DEF NoRealm, RealmRec, EmptyMeasurement, Rems
    <3> QED
      BY <1>6, <2>1, <3>1 DEF RealmRec
  <2> QED
    BY <1>5, <1>6, <2>2 DEF RealmCreate
<1>7. ASSUME NEW r \in Realm, NEW d \in Desc, RealmMeasure(r, d) PROVE RmmInv'
  <2> USE Zenon
  <2> DEFINE x == [rlm[r] EXCEPT !.rim = MeasureRim(@, d)]
  <2>1. rlm[r] \in RealmRec /\ rlm[r].state = "New" /\ rmmBoot = "up"
    BY <1>7 DEF RealmMeasure, RmmInv
  <2>2. x \in RealmRec
    BY <2>1, SMTT(30) DEF RealmRec, MeasureRim, Hashed
  <2>3. rlm' = [rlm EXCEPT ![r] = x]
    BY <1>7 DEF RealmMeasure
  <2> QED
    BY <1>5, <1>7, <2>1, <2>2, <2>3 DEF RealmMeasure
<1>8. ASSUME NEW r \in Realm, RealmActivate(r) PROVE RmmInv'
  <2> USE Zenon
  <2> DEFINE x == [rlm[r] EXCEPT !.state = "Active"]
  <2>1. rlm[r] \in RealmRec /\ rlm[r].state = "New" /\ rmmBoot = "up"
    BY <1>8 DEF RealmActivate, RmmInv
  <2>2. x \in RealmRec
    BY <2>1 DEF RealmRec
  <2>3. rlm' = [rlm EXCEPT ![r] = x]
    BY <1>8 DEF RealmActivate
  <2> QED
    BY <1>5, <1>8, <2>1, <2>2, <2>3 DEF RealmActivate
\* An extension of a running realm: what its RECs have collected is older.
<1>9. ASSUME NEW d \in Rec, NEW k \in Rem, MeasurementExtend(d, k, "v") PROVE RmmInv'
  <2> USE Zenon
  <2> DEFINE r == OwnerOf[d]
             m == [rlm[r].rems EXCEPT ![k] = ExtendRem(@, "v")]
             x == [rlm[r] EXCEPT !.rems = m]
  <2>1. r \in Realm /\ rlm[r] \in RealmRec /\ rlm[r].state = "Active" /\ rmmBoot = "up"
    BY <1>9, RmmAssumption DEF MeasurementExtend, Runs, RmmInv
  <2>2. rlm[r].rems \in Rems
    BY <2>1, ZenonT(60) DEF RealmRec
  <2>3. m \in Rems /\ Grows(rlm[r].rems, m)
    BY <1>9, <2>2, SMTT(30) DEF Rems, Grows, ExtendRem, Hashed
  <2>4. rlm' = [rlm EXCEPT ![r] = x] /\ UNCHANGED <<rmmBoot, attestKey, platToken, vhuk, att, got>>
    BY <1>9 DEF MeasurementExtend
  <2> HIDE DEF m
  <2>5. /\ x \in RealmRec /\ x.state = "Active" /\ x.rems = m
        /\ x.rpv = rlm[r].rpv /\ x.rim = rlm[r].rim
    BY <2>1, <2>3 DEF RealmRec
  <2> HIDE DEF x
  <2>6. rlm' \in [Realm -> RealmRec] /\ rlm'[r] = x /\ \A q \in Realm \ {r} : rlm'[q] = rlm[q]
    BY <2>1, <2>4, <2>5 DEF RmmInv
  <2>7. ASSUME NEW c \in Rec
        PROVE  PartsOK(got'[c], att'[c], rlm'[OwnerOf[c]], platToken', attestKey')
    <3>1. PartsOK(got[c], att[c], rlm[OwnerOf[c]], platToken, attestKey)
      BY DEF RmmInv
    <3>2. CASE OwnerOf[c] # r
      BY <2>4, <2>6, <3>1, <3>2, RmmAssumption
    <3>3. CASE OwnerOf[c] = r
      <4> DEFINE g == got[c]
      <4>1. ASSUME g # <<>>, NEW i \in 1 .. Len(g)
            PROVE  /\ RemsIn(g[i]) \in Rems /\ Grows(RemsIn(g[i]), x.rems)
                   /\ g[i].token = TokenOf(platToken, attestKey, att[c].challenge, x, RemsIn(g[i]))
        <5>1. /\ RemsIn(g[i]) \in Rems /\ Grows(RemsIn(g[i]), rlm[r].rems)
              /\ g[i].token = TokenOf(platToken, attestKey, att[c].challenge, rlm[r], RemsIn(g[i]))
          BY <3>1, <3>3, <4>1 DEF PartsOK
        <5>2. Grows(RemsIn(g[i]), m)
          <6> DEFINE o == RemsIn(g[i])
                     n == rlm[r].rems
          <6>1. o \in Rems /\ n \in Rems /\ m \in Rems /\ Grows(o, n) /\ Grows(n, m)
            BY <2>2, <2>3, <5>1
          <6> HIDE DEF o, n, m
          <6>2. ASSUME NEW j \in Rem
                PROVE  Len(o[j]) <= Len(m[j]) /\ (Len(o[j]) = Len(m[j]) => o[j] = m[j])
            <7>1. Len(o[j]) \in Nat /\ Len(n[j]) \in Nat /\ Len(m[j]) \in Nat
              BY <6>1, SMTT(30) DEF Rems
            <7>2. Len(o[j]) <= Len(n[j]) /\ (Len(o[j]) = Len(n[j]) => o[j] = n[j])
              BY <6>1 DEF Grows
            <7>3. Len(n[j]) <= Len(m[j]) /\ (Len(n[j]) = Len(m[j]) => n[j] = m[j])
              BY <6>1 DEF Grows
            <7>4. /\ Len(o[j]) <= Len(m[j])
                  /\ Len(o[j]) = Len(m[j]) => Len(o[j]) = Len(n[j]) /\ Len(n[j]) = Len(m[j])
              BY <7>1, <7>2, <7>3, SMTT(30)
            <7> QED
              BY <7>2, <7>3, <7>4
          <6>3. Grows(o, m)
            BY <6>2 DEF Grows
          <6> QED
            BY <6>3 DEF o
        <5>3. g[i].token = TokenOf(platToken, attestKey, att[c].challenge, x, RemsIn(g[i]))
          BY <2>5, <5>1 DEF TokenOf
        <5> QED
          BY <2>5, <5>1, <5>2, <5>3
      <4>2. PartsOK(g, att[c], x, platToken, attestKey)
        BY <2>5, <3>1, <4>1 DEF PartsOK
      <4> QED
        BY <2>4, <2>6, <3>3, <4>2
    <3> QED
      BY <3>2, <3>3
  <2> QED
    BY <2>1, <2>4, <2>6, <2>7 DEF RmmInv
<1>10. ASSUME NEW d \in Rec, NEW ch \in Challenge, AttestTokenInit(d, ch) PROVE RmmInv'
  <2> USE Zenon
  <2> DEFINE a == [state |-> "AttestInProgress", challenge |-> ch, offset |-> 0]
  <2>1. a \in AttRec /\ a.offset = 0
    BY RmmAssumption, SMTT(30) DEF AttRec
  <2>2. /\ att' = [att EXCEPT ![d] = a] /\ got' = [got EXCEPT ![d] = <<>>]
        /\ UNCHANGED <<rmmBoot, attestKey, platToken, vhuk, rlm>>
    BY <1>10 DEF AttestTokenInit
  <2> HIDE DEF a
  <2>3. /\ att' \in [Rec -> AttRec] /\ att'[d] = a /\ DOMAIN got' = Rec /\ got'[d] = <<>>
        /\ \A c \in Rec \ {d} : att'[c] = att[c] /\ got'[c] = got[c]
    BY <2>1, <2>2 DEF RmmInv
  <2>4. PartsOK(<<>>, a, rlm[OwnerOf[d]], platToken, attestKey)
    BY <2>1, SeqFacts DEF PartsOK
  <2>5. \A c \in Rec : PartsOK(got'[c], att'[c], rlm'[OwnerOf[c]], platToken', attestKey')
    BY <2>2, <2>3, <2>4 DEF RmmInv
  <2> QED
    BY <2>2, <2>3, <2>5 DEF RmmInv
\* get_token_part: the next part of a token made anew.
<1>11. ASSUME NEW d \in Rec, NEW size \in 0 .. TokenLen, AttestTokenContinue(d, size)
       PROVE  RmmInv'
  <2> USE Zenon
  <2> DEFINE r == rlm[OwnerOf[d]]
             g == got[d]
             from == att[d].offset
             to == from + Smaller(size, TokenLen - from)
             part == [token |-> CcaToken(OwnerOf[d], att[d].challenge), from |-> from, to |-> to]
             state == IF to = TokenLen THEN "NoAttestInProgress" ELSE att[d].state
             a == [att[d] EXCEPT !.offset = to, !.state = state]
             h == IF to = from THEN g ELSE Append(g, part)
  <2>1. /\ r \in RealmRec /\ r.state = "Active" /\ r.rems \in Rems
        /\ att[d] \in AttRec /\ att[d].state = "AttestInProgress" /\ from \in 0 .. TokenLen
    BY <1>11, RmmAssumption DEF AttestTokenContinue, Runs, RmmInv, RealmRec, AttRec
  <2>2. PartsOK(g, att[d], r, platToken, attestKey)
    BY DEF RmmInv
  <2>3. from < TokenLen
    BY <2>1, <2>2, RmmAssumption, SMTT(30) DEF PartsOK
  <2>4. to \in 0 .. TokenLen /\ from <= to
    BY <2>1, <2>3, RmmAssumption, SMTT(30) DEF Smaller
  <2>5. /\ att' = [att EXCEPT ![d] = a] /\ got' = [got EXCEPT ![d] = h]
        /\ UNCHANGED <<rmmBoot, attestKey, platToken, vhuk, rlm>>
    <3>1. TokenPart(d, size) = part
      BY DEF TokenPart
    <3>2. part.to = to /\ part.from = from
      OBVIOUS
    <3> HIDE DEF part
    <3> QED
      BY <1>11, <3>1, <3>2 DEF AttestTokenContinue
  <2>6. /\ a \in AttRec /\ a.offset = to /\ a.challenge = att[d].challenge
        /\ a.state = "NoAttestInProgress" <=> to = TokenLen
    <3>1. /\ state \in {"NoAttestInProgress", "AttestInProgress"}
          /\ state = "NoAttestInProgress" <=> to = TokenLen
      BY <2>1
    <3> HIDE DEF state, to
    <3> QED
      BY <2>1, <2>4, <3>1 DEF AttRec
  <2>7. /\ part.from = from /\ part.to = to /\ RemsIn(part) = r.rems
        /\ part.token = TokenOf(platToken, attestKey, att[d].challenge, r, r.rems)
    BY DEF RemsIn, TokenOf, CcaToken, RealmClaims
  <2>8. Grows(r.rems, r.rems)
    BY <2>1, SMTT(30) DEF Grows, Rems
  <2> HIDE DEF a, part, to
  <2>9. PartsOK(h, a, r, platToken, attestKey)
    <3>1. CASE to = from
      BY <2>2, <2>3, <2>6, <3>1 DEF PartsOK
    <3>2. CASE to # from
      <4> DEFINE n == Len(g)
      <4>0. \A s : IsSeq(s) => Len(s) \in Nat /\ (s = <<>> <=> Len(s) = 0)
        BY SeqFacts
      <4>1. /\ IsSeq(g) /\ n \in Nat /\ IsSeq(h) /\ Len(h) = n + 1 /\ h # <<>>
            /\ h[n + 1] = part /\ \A i \in 1 .. n : h[i] = g[i]
        <5>1. IsSeq(g) /\ h = Append(g, part)
          BY <2>2, <3>2 DEF PartsOK
        <5>2. n \in Nat /\ IsSeq(h) /\ Len(h) = n + 1 /\ h[n + 1] = part /\ \A i \in 1 .. n : h[i] = g[i]
          BY <5>1, SeqFacts, SMTT(30)
        <5>3. h # <<>>
          <6> HIDE DEF h
          <6> QED
            BY <4>0, <5>2, SMTT(30)
        <5> QED
          BY <5>1, <5>2, <5>3
      <4> HIDE DEF h
      <4>2. h[1].from = 0
        <5>1. CASE g = <<>>
          <6>1. n = 0
            BY <4>0, <4>1, <5>1
          <6>2. part.from = 0
            BY <2>2, <2>7, <5>1 DEF PartsOK
          <6> QED
            BY <4>1, <6>1, <6>2, SMTT(30)
        <5>2. CASE g # <<>>
          <6>1. g[1].from = 0 /\ n # 0
            BY <2>2, <4>0, <4>1, <5>2 DEF PartsOK
          <6> QED
            BY <4>1, <6>1, SMTT(30)
        <5> QED
          BY <5>1, <5>2
      <4>3. \A i \in 1 .. n : h[i].to = h[i + 1].from
        <5> SUFFICES ASSUME NEW i \in 1 .. n PROVE h[i].to = h[i + 1].from
          OBVIOUS
        <5>1. g # <<>>
          BY <4>1, SeqFacts
        <5>2. CASE i = n
          BY <2>2, <2>7, <4>1, <5>1, <5>2 DEF PartsOK
        <5>3. CASE i # n
          <6>1. i \in 1 .. n - 1 /\ i + 1 \in 1 .. n
            BY <4>1, <5>3, SMTT(30)
          <6> QED
            BY <2>2, <4>1, <5>1, <6>1 DEF PartsOK
        <5> QED
          BY <5>2, <5>3
      <4>4. ASSUME NEW i \in 1 .. n + 1
            PROVE  /\ RemsIn(h[i]) \in Rems /\ Grows(RemsIn(h[i]), r.rems)
                   /\ h[i].token = TokenOf(platToken, attestKey, a.challenge, r, RemsIn(h[i]))
        <5>1. CASE i = n + 1
          BY <2>1, <2>6, <2>7, <2>8, <4>1, <5>1
        <5>2. CASE i # n + 1
          <6>1. i \in 1 .. n /\ g # <<>>
            BY <4>1, <5>2, SeqFacts, SMTT(30)
          <6> QED
            BY <2>2, <2>6, <4>1, <6>1 DEF PartsOK
        <5> QED
          BY <5>1, <5>2
      <4>5. ASSUME NEW i \in 1 .. n + 1, NEW j \in 1 .. n + 1, i <= j
            PROVE  Grows(RemsIn(h[i]), RemsIn(h[j]))
        <5>1. CASE j = n + 1
          BY <2>7, <4>1, <4>4, <5>1
        <5>2. CASE j # n + 1
          <6>1. i \in 1 .. n /\ j \in 1 .. n /\ g # <<>>
            BY <4>1, <4>5, <5>2, SeqFacts, SMTT(30)
          <6> QED
            BY <2>2, <4>1, <4>5, <6>1 DEF PartsOK
        <5> QED
          BY <5>1, <5>2
      <4> QED
        <5>1. Len(h) - 1 = n /\ h[Len(h)].to = a.offset
          <6>1. Len(h) = n + 1 /\ n + 1 - 1 = n
            BY <4>1, SMTT(30)
          <6>2. h[n + 1].to = a.offset
            BY <2>6, <2>7, <4>1
          <6> QED
            BY <6>1, <6>2, SMTT(30)
        <5>2. \A i \in 1 .. Len(h) - 1 : h[i].to = h[i + 1].from
          BY <4>3, <5>1
        <5>3. /\ \A i \in 1 .. Len(h) :
                    /\ RemsIn(h[i]) \in Rems /\ Grows(RemsIn(h[i]), r.rems)
                    /\ h[i].token = TokenOf(platToken, attestKey, a.challenge, r, RemsIn(h[i]))
              /\ \A i, j \in 1 .. Len(h) : i <= j => Grows(RemsIn(h[i]), RemsIn(h[j]))
          BY <4>1, <4>4, <4>5
        <5> HIDE DEF r
        <5> QED
          BY <2>1, <2>6, <4>1, <4>2, <5>1, <5>2, <5>3 DEF PartsOK
    <3> QED
      BY <3>1, <3>2
  <2> HIDE DEF h
  <2>10. /\ att' \in [Rec -> AttRec] /\ att'[d] = a /\ DOMAIN got' = Rec /\ got'[d] = h
         /\ \A c \in Rec \ {d} : att'[c] = att[c] /\ got'[c] = got[c]
    BY <2>5, <2>6 DEF RmmInv
  <2>11. \A c \in Rec : PartsOK(got'[c], att'[c], rlm'[OwnerOf[c]], platToken', attestKey')
    BY <2>5, <2>9, <2>10 DEF RmmInv
  <2> QED
    BY <2>5, <2>10, <2>11 DEF RmmInv
<1>12. ASSUME RealmStep PROVE RmmInv'
  BY <1>6, <1>7, <1>8, <1>9, <1>10, <1>11, <1>12, Zenon DEF RealmStep
<1> QED
  BY <1>2, <1>4, <1>12, Zenon DEF Next, vars, Hes, Peer, SmcCalls, SmcAnswered, SmcFails, El3Sends, El3Receives

\* What a REC collects between ATTEST_TOKEN_INIT and the SUCCESS of a CONTINUE is a
\* token without gap or overlap, over the challenge it gave, and one and the same
\* token unless a measurement was extended meanwhile; for any realms, RECs and sizes
\* of the buffers.
THEOREM TokenWholeCorrect == Spec => []TokenWhole
<1>1. RmmInv => TokenWhole
  <2> USE Zenon
  <2> SUFFICES ASSUME RmmInv, NEW c \in Rec, got[c] # <<>>
               PROVE  LET g == got[c]
                          n == Len(g)
                      IN  /\ g[1].from = 0
                          /\ \A i \in 1 .. n - 1 : g[i].to = g[i + 1].from
                          /\ g[n].to = att[c].offset
                          /\ att[c].state = "NoAttestInProgress" <=> att[c].offset = TokenLen
                          /\ \A i \in 1 .. n : g[i].token.realm.claims.challenge = att[c].challenge
                          /\ g[1].token.realm.claims.rems = g[n].token.realm.claims.rems
                                => \A i \in 1 .. n : g[i].token = g[1].token
    BY DEF TokenWhole
  <2> DEFINE g == got[c]
             n == Len(g)
             r == rlm[OwnerOf[c]]
  <2>1. PartsOK(g, att[c], r, platToken, attestKey)
    BY DEF RmmInv
  <2>2. n \in Nat /\ n # 0
    BY <2>1, SeqFacts DEF PartsOK
  <2>3. ASSUME NEW i \in 1 .. n
        PROVE  /\ RemsIn(g[i]) \in Rems
               /\ g[i].token = TokenOf(platToken, attestKey, att[c].challenge, r, RemsIn(g[i]))
               /\ Grows(RemsIn(g[1]), RemsIn(g[i])) /\ Grows(RemsIn(g[i]), RemsIn(g[n]))
    <3>1. 1 \in 1 .. n /\ n \in 1 .. n /\ 1 <= i /\ i <= n
      BY <2>2, SMTT(30)
    <3>2. RemsIn(g[i]) \in Rems /\ g[i].token = TokenOf(platToken, attestKey, att[c].challenge, r, RemsIn(g[i]))
      BY <2>1 DEF PartsOK
    <3>3. \A k, j \in 1 .. n : k <= j => Grows(RemsIn(g[k]), RemsIn(g[j]))
      BY <2>1 DEF PartsOK
    <3> QED
      BY <3>1, <3>2, <3>3
  <2>4. ASSUME NEW i \in 1 .. n PROVE g[i].token.realm.claims.challenge = att[c].challenge
    <3>1. g[i].token = TokenOf(platToken, attestKey, att[c].challenge, r, RemsIn(g[i]))
      BY <2>3
    <3>2. ASSUME NEW m PROVE TokenOf(platToken, attestKey, att[c].challenge, r, m).realm.claims.challenge
                                = att[c].challenge
      BY DEF TokenOf
    <3> QED
      BY <3>1, <3>2
  <2>5. ASSUME RemsIn(g[1]) = RemsIn(g[n]), NEW i \in 1 .. n PROVE g[i].token = g[1].token
    <3>1. RemsIn(g[i]) \in Rems /\ RemsIn(g[1]) \in Rems /\ 1 \in 1 .. n
      <4>1. 1 \in 1 .. n
        BY <2>2, SMTT(30)
      <4> QED
        BY <2>3, <4>1
    <3>2. ASSUME NEW k \in Rem PROVE RemsIn(g[i])[k] = RemsIn(g[1])[k]
      <4>1. /\ Len(RemsIn(g[1])[k]) <= Len(RemsIn(g[i])[k])
            /\ Len(RemsIn(g[i])[k]) <= Len(RemsIn(g[1])[k])
            /\ Len(RemsIn(g[1])[k]) = Len(RemsIn(g[i])[k]) => RemsIn(g[1])[k] = RemsIn(g[i])[k]
        BY <2>3, <2>5 DEF Grows
      <4>2. Len(RemsIn(g[1])[k]) \in Nat /\ Len(RemsIn(g[i])[k]) \in Nat
        BY <3>1, SMTT(30) DEF Rems
      <4> QED
        BY <4>1, <4>2, SMTT(30)
    <3>3. RemsIn(g[i]) = RemsIn(g[1])
      BY <3>1, <3>2, SMTT(30) DEF Rems
    <3> QED
      BY <2>3, <3>1, <3>3
  <2> QED
    BY <2>1, <2>4, <2>5 DEF PartsOK, RemsIn
<1> QED
  BY <1>1, RmmInvariant, PTL

\* For any realms, metadata and flags, realms that are given the same sealing key
\* have the same personalization value, the same signer or none, and without one
\* the same RIM; and no two versions have the same key.
THEOREM SealedToIdentityCorrect == Spec => []SealedToIdentity
<1>1. RmmInv => SealedToIdentity
  <2> USE Zenon
  <2> SUFFICES ASSUME RmmInv
               PROVE  \A r, q \in {x \in Realm : rlm[x].state = "Active"} :
                      \A f \in SUBSET Flag : \A s, t \in Svn :
                        /\ SealingKeyAllowed(r, f, s) /\ SealingKeyAllowed(q, f, t)
                        /\ RealmSealingKey(r, f, s) = RealmSealingKey(q, f, t)
                        => /\ rlm[r].rpv = rlm[q].rpv
                           /\ rlm[r].meta = None <=> rlm[q].meta = None
                           /\ rlm[r].meta # None => rlm[r].meta.publicKey = rlm[q].meta.publicKey
                           /\ rlm[r].meta = None => rlm[r].rim = rlm[q].rim
                           /\ rlm[r].meta # None /\ "SVN" \in f => s = t
    BY Zenon DEF SealedToIdentity
  <2> TAKE r, q \in {x \in Realm : rlm[x].state = "Active"}
  <2> TAKE f \in SUBSET Flag
  <2> TAKE s, t \in Svn
  <2> HAVE /\ SealingKeyAllowed(r, f, s) /\ SealingKeyAllowed(q, f, t)
           /\ RealmSealingKey(r, f, s) = RealmSealingKey(q, f, t)
  <2>0. r \in Realm /\ q \in Realm
    OBVIOUS
  <2>1. KdfInfo(r, f, s) = KdfInfo(q, f, t)
    BY DEF RealmSealingKey, DeriveKey
  <2>2. rlm[r].meta \in Metadata \cup {None} /\ rlm[q].meta \in Metadata \cup {None}
    BY <2>0 DEF RmmInv, RealmRec
  <2>3. ASSUME NEW x, NEW v
        PROVE  /\ KdfInfo(x, f, v).rpv = rlm[x].rpv
               /\ KdfInfo(x, f, v).publicKey = IF rlm[x].meta = None THEN None ELSE rlm[x].meta.publicKey
               /\ "SVN" \in f /\ rlm[x].meta # None => KdfInfo(x, f, v).svn = v
               /\ rlm[x].meta = None => KdfInfo(x, f, v).rim = rlm[x].rim
    BY DEF KdfInfo, NewKdfInfo
  <2>4. rlm[r].meta = None <=> rlm[q].meta = None
    BY <2>1, <2>2, <2>3, RmmAssumption, SMTT(30)
  <2>5. rlm[r].rpv = rlm[q].rpv /\ (rlm[r].meta = None => rlm[r].rim = rlm[q].rim)
    BY <2>1, <2>3, <2>4, SMTT(30)
  <2>6. /\ rlm[r].meta # None => rlm[r].meta.publicKey = rlm[q].meta.publicKey
        /\ rlm[r].meta # None /\ "SVN" \in f => s = t
    BY <2>1, <2>3, <2>4, SMTT(30)
  <2> QED
    BY <2>4, <2>5, <2>6
<1> QED
  BY <1>1, RmmInvariant, PTL

=============================================================================
