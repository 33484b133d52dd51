------------------------ MODULE ActivationOwnerProofs -----------------------
(***************************************************************************)
(* That a generator is in one place, and that code has its own registers   *)
(* until something is thrown, for any number of bodies, constructs and     *)
(* Rust calls.  Both rest on SpineInv.                                     *)
(***************************************************************************)
EXTENDS ActivationProofs

-----------------------------------------------------------------------------
(* A generator has one home.                                               *)

(* A generator is parked, or run by one frame, or neither.                 *)
RunBy(v, g) == \E i \in DOMAIN v.frames : v.frames[i].generator = g
OneHome(v, gs, pk) ==
    /\ \A i, j \in DOMAIN v.frames :
          v.frames[i].generator = v.frames[j].generator /\ v.frames[i].generator # Nobody
             => i = j
    /\ \A i \in DOMAIN v.frames : v.frames[i].generator \in gs \cup {Nobody}
    /\ \A g \in Ids : pk[g] # NotParked => g \in gs /\ ~RunBy(v, g)

(* A body that is being prepared is not a generator yet, and it is in one  *)
(* place.                                                                  *)
Apart(c, e) == c.preparing /\ e.preparing => c.of # e.of
Ready(c, gs, m) == c.preparing => c.of \in 1..m /\ c.of \notin gs
Preparations(v, rs, gs, m) ==
    /\ \A i \in DOMAIN v.frames : Ready(v.frames[i].code, gs, m)
    /\ \A k \in DOMAIN rs : Ready(rs[k].code, gs, m)
    /\ Ready(v.current, gs, m)
    /\ \A i, j \in DOMAIN v.frames : i # j => Apart(v.frames[i].code, v.frames[j].code)
    /\ \A k, l \in DOMAIN rs : k # l => Apart(rs[k].code, rs[l].code)
    /\ \A i \in DOMAIN v.frames, k \in DOMAIN rs : Apart(v.frames[i].code, rs[k].code)
    /\ \A i \in DOMAIN v.frames : Apart(v.frames[i].code, v.current)
    /\ \A k \in DOMAIN rs : Apart(rs[k].code, v.current)

Homes(v, rs, gs, pk, m) == OneHome(v, gs, pk) /\ Preparations(v, rs, gs, m)

(* Code that stands where other code stood, or is no longer being prepared. *)
Comes(c, e) == c.preparing => e.preparing /\ c.of = e.of

SameCodes(rs, ss) ==
    /\ rs \in Seq(Waits) /\ ss \in Seq(Waits) /\ Len(ss) = Len(rs)
    /\ \A k \in 1..Len(rs) : Comes(ss[k].code, rs[k].code)

FewerFrames(v, w) ==
    /\ v.frames \in Seq(Frames) /\ w.frames \in Seq(Frames)
    /\ Len(w.frames) <= Len(v.frames)
    /\ \A i \in 1..Len(w.frames) : w.frames[i] = v.frames[i]

(* What is left of v and of the Rust calls, and where its code was.        *)
Part(v, rs, w, ss) ==
    /\ FewerFrames(v, w)
    /\ rs \in Seq(Waits) /\ ss \in Seq(Waits) /\ Len(ss) <= Len(rs)
    /\ \A k \in 1..Len(ss) : Comes(ss[k].code, rs[k].code)
    /\ \/ Comes(w.current, v.current)
       \/ \E i \in Len(w.frames) + 1..Len(v.frames) : Comes(w.current, v.frames[i].code)
       \/ \E k \in Len(ss) + 1..Len(rs) : Comes(w.current, rs[k].code)

OneFrameMore(v, w, f) ==
    /\ v.frames \in Seq(Frames) /\ f \in Frames /\ w.frames = Append(v.frames, f)

LEMMA FrameAdded ==
    ASSUME NEW v, NEW w, NEW f, OneFrameMore(v, w, f)
    PROVE  \E n \in Nat : /\ Len(v.frames) = n /\ Len(w.frames) = n + 1
                          /\ DOMAIN v.frames = 1..n /\ DOMAIN w.frames = 1..n + 1
                          /\ w.frames[n + 1] = f
                          /\ \A i \in 1..n : w.frames[i] = v.frames[i]
<1>1. PICK s, t : s = v.frames /\ t = w.frames
  OBVIOUS
<1>2. s \in Seq(Frames) /\ f \in Frames /\ t = Append(s, f)
  BY <1>1 DEF OneFrameMore
<1>3. t \in Seq(Frames) /\ Len(t) = Len(s) + 1 /\ t[Len(s) + 1] = f /\ \A i \in 1..Len(s) : t[i] = s[i]
  BY ONLY <1>2, Extended
<1> QED BY <1>1, <1>2, <1>3

LEMMA CodesApart ==
    ASSUME NEW c, NEW d, NEW e, Comes(c, d), Apart(d, e) \/ Apart(e, d)
    PROVE  Apart(c, e) /\ Apart(e, c)
BY DEF Apart, Comes

LEMMA OneShrinks ==
    ASSUME NEW v, NEW w, NEW gs, NEW pk, OneHome(v, gs, pk), FewerFrames(v, w)
    PROVE  OneHome(w, gs, pk)
<1>1. /\ DOMAIN v.frames = 1..Len(v.frames) /\ DOMAIN w.frames = 1..Len(w.frames)
      /\ Len(v.frames) \in Nat /\ Len(w.frames) \in Nat
      /\ Len(w.frames) <= Len(v.frames)
      /\ \A i \in 1..Len(w.frames) : w.frames[i] = v.frames[i]
  BY DEF FewerFrames
<1>2. \A i \in DOMAIN w.frames : i \in DOMAIN v.frames /\ w.frames[i] = v.frames[i]
  BY <1>1
<1> QED BY <1>2 DEF OneHome, RunBy

LEMMA OnePushes ==
    ASSUME NEW v, NEW w, NEW f, NEW gs, NEW pk, NEW qk, OneHome(v, gs, pk),
           OneFrameMore(v, w, f), f.generator \in gs \cup {Nobody},
           f.generator # Nobody => ~RunBy(v, f.generator),
           \A g \in Ids : qk[g] # NotParked => pk[g] # NotParked /\ g # f.generator
    PROVE  OneHome(w, gs, qk)
<1>1. PICK n \in Nat : /\ DOMAIN v.frames = 1..n /\ DOMAIN w.frames = 1..n + 1
                       /\ w.frames[n + 1] = f /\ \A i \in 1..n : w.frames[i] = v.frames[i]
  BY FrameAdded
<1>2. \A i \in DOMAIN w.frames : \/ i \in DOMAIN v.frames /\ w.frames[i] = v.frames[i]
                                 \/ i = n + 1 /\ w.frames[i] = f
  BY <1>1
<1>3. \A i \in DOMAIN w.frames : w.frames[i].generator \in gs \cup {Nobody}
  BY <1>2 DEF OneHome
<1>4. \A i, j \in DOMAIN w.frames :
          w.frames[i].generator = w.frames[j].generator /\ w.frames[i].generator # Nobody
             => i = j
  BY <1>2 DEF OneHome, RunBy
<1>5. \A g \in Ids : qk[g] # NotParked => g \in gs /\ ~RunBy(w, g)
  BY <1>2 DEF OneHome, RunBy
<1> QED BY <1>3, <1>4, <1>5 DEF OneHome

LEMMA OneShelves ==
    ASSUME NEW w, NEW gs, NEW pk, NEW qk, NEW g, NEW hs, OneHome(w, gs, pk), ~RunBy(w, g),
           g \in hs, gs \subseteq hs,
           \A a \in Ids : a # g => (qk[a] # NotParked => pk[a] # NotParked)
    PROVE  OneHome(w, hs, qk)
BY DEF OneHome

LEMMA PrepShrinks ==
    ASSUME NEW v, NEW rs, NEW w, NEW ss, NEW gs, NEW m, Preparations(v, rs, gs, m),
           Part(v, rs, w, ss)
    PROVE  Preparations(w, ss, gs, m)
<1>1. PICK n \in Nat, k \in Nat, x \in Nat, y \in Nat :
         /\ n = Len(v.frames) /\ k = Len(w.frames) /\ x = Len(rs) /\ y = Len(ss)
  <2>1. Len(v.frames) \in Nat /\ Len(w.frames) \in Nat /\ Len(rs) \in Nat /\ Len(ss) \in Nat
    BY DEF Part, FewerFrames
  <2> QED BY <2>1
<1>2. /\ DOMAIN v.frames = 1..n /\ DOMAIN w.frames = 1..k
      /\ DOMAIN rs = 1..x /\ DOMAIN ss = 1..y /\ k <= n /\ y <= x
      /\ \A i \in 1..k : w.frames[i] = v.frames[i]
      /\ \A l \in 1..y : Comes(ss[l].code, rs[l].code)
  BY <1>1 DEF Part, FewerFrames
<1>3. \A i \in 1..k : i \in 1..n /\ w.frames[i].code = v.frames[i].code
  BY <1>2
<1>4. \A l \in 1..y : l \in 1..x /\ Comes(ss[l].code, rs[l].code)
  BY <1>2
<1>5. /\ \A i \in 1..k : Ready(w.frames[i].code, gs, m)
      /\ \A l \in 1..y : Ready(ss[l].code, gs, m)
  BY <1>2, <1>3, <1>4 DEF Preparations, Ready, Comes
<1>6. /\ \A i, j \in 1..k : i # j => Apart(w.frames[i].code, w.frames[j].code)
      /\ \A l, j \in 1..y : l # j => Apart(ss[l].code, ss[j].code)
      /\ \A i \in 1..k, l \in 1..y : Apart(w.frames[i].code, ss[l].code)
  <2>1. \A i, j \in 1..k : i # j => Apart(w.frames[i].code, w.frames[j].code)
    BY <1>2, <1>3 DEF Preparations
  <2>2. ASSUME NEW l \in 1..y, NEW j \in 1..y, l # j
        PROVE  Apart(ss[l].code, ss[j].code)
    <3>1. Apart(rs[l].code, rs[j].code)
      BY <1>2, <1>4, <2>2 DEF Preparations
    <3>2. Apart(ss[l].code, rs[j].code)
      BY <1>4, <3>1, CodesApart
    <3> QED BY <1>4, <3>2, CodesApart
  <2>3. ASSUME NEW i \in 1..k, NEW l \in 1..y
        PROVE  Apart(w.frames[i].code, ss[l].code)
    <3>1. Apart(w.frames[i].code, rs[l].code)
      BY <1>2, <1>3, <1>4 DEF Preparations
    <3> QED BY <1>4, <3>1, CodesApart
  <2> QED BY <2>1, <2>2, <2>3
<1>7. /\ Ready(w.current, gs, m)
      /\ \A i \in 1..k : Apart(w.frames[i].code, w.current)
      /\ \A l \in 1..y : Apart(ss[l].code, w.current)
  <2>0. \A c : /\ Comes(w.current, c) /\ Ready(c, gs, m) => Ready(w.current, gs, m)
               /\ \A e : Comes(w.current, c) /\ Apart(e, c) => Apart(e, w.current)
               /\ \A e, d : Comes(e, d) /\ Apart(d, w.current) => Apart(e, w.current)
    BY DEF Apart, Comes, Ready
  <2>1. CASE Comes(w.current, v.current)
    <3>1. PICK c : c = v.current
      OBVIOUS
    <3>2. /\ Ready(c, gs, m) /\ \A i \in 1..k : Apart(w.frames[i].code, c)
      BY <1>2, <1>3, <3>1 DEF Preparations
    <3>3. \A l \in 1..y : Apart(rs[l].code, c)
      BY <1>2, <1>4, <3>1 DEF Preparations
    <3>4. \A l \in 1..y : Apart(rs[l].code, w.current)
      BY <2>0, <2>1, <3>1, <3>3
    <3> QED BY <1>4, <2>0, <2>1, <3>1, <3>2, <3>4
  <2>2. CASE \E i \in k + 1..n : Comes(w.current, v.frames[i].code)
    <3>1. PICK j \in k + 1..n : Comes(w.current, v.frames[j].code)
      BY <2>2
    <3>2. j \in 1..n /\ \A i \in 1..k : i # j
      BY <1>2, <3>1
    <3>3. PICK c : c = v.frames[j].code
      OBVIOUS
    <3>4. /\ Ready(c, gs, m) /\ \A i \in 1..k : Apart(w.frames[i].code, c)
      BY <1>2, <1>3, <3>2, <3>3 DEF Preparations
    <3>5. \A l \in 1..y : Apart(rs[l].code, c)
      BY <1>2, <1>4, <3>2, <3>3 DEF Preparations, Apart
    <3>6. \A l \in 1..y : Apart(rs[l].code, w.current)
      BY <2>0, <3>1, <3>3, <3>5
    <3> QED BY <1>4, <2>0, <3>1, <3>3, <3>4, <3>6
  <2>3. CASE \E l \in y + 1..x : Comes(w.current, rs[l].code)
    <3>1. PICK j \in y + 1..x : Comes(w.current, rs[j].code)
      BY <2>3
    <3>2. j \in 1..x /\ \A l \in 1..y : l # j
      BY <1>2, <3>1
    <3>3. PICK c : c = rs[j].code
      OBVIOUS
    <3>4. /\ Ready(c, gs, m) /\ \A i \in 1..k : Apart(w.frames[i].code, c)
      BY <1>2, <1>3, <3>2, <3>3 DEF Preparations
    <3>5. \A l \in 1..y : Apart(rs[l].code, c)
      BY <1>2, <1>4, <3>2, <3>3 DEF Preparations
    <3>6. \A l \in 1..y : Apart(rs[l].code, w.current)
      BY <2>0, <3>1, <3>3, <3>5
    <3> QED BY <1>4, <2>0, <3>1, <3>3, <3>4, <3>6
  <2> QED BY <1>1, <2>1, <2>2, <2>3 DEF Part
<1> QED BY <1>2, <1>5, <1>6, <1>7 DEF Preparations

(* A body is entered: one that was there, or the next one.                 *)
LEMMA PrepPushes ==
    ASSUME NEW v, NEW rs, NEW w, NEW f, NEW ss, NEW gs, NEW m \in Nat, NEW q,
           Preparations(v, rs, gs, m), OneFrameMore(v, w, f), SameCodes(rs, ss),
           Comes(f.code, v.current), gs \subseteq 1..m,
           q = m \/ q = m + 1,
           w.current.preparing => w.current.of = m + 1 /\ q = m + 1
    PROVE  Preparations(w, ss, gs, q)
<1>1. PICK n \in Nat : /\ DOMAIN v.frames = 1..n /\ DOMAIN w.frames = 1..n + 1
                       /\ w.frames[n + 1] = f /\ \A i \in 1..n : w.frames[i] = v.frames[i]
  BY FrameAdded
<1>2. PICK x \in Nat : /\ DOMAIN rs = 1..x /\ DOMAIN ss = 1..x
                       /\ \A k \in 1..x : Comes(ss[k].code, rs[k].code)
  BY DEF SameCodes
<1>3. \A a \in 1..m : a \in 1..q /\ a # m + 1
  OBVIOUS
<1>4. \A i \in DOMAIN w.frames : \/ i \in 1..n /\ w.frames[i].code = v.frames[i].code
                                 \/ i = n + 1 /\ Comes(w.frames[i].code, v.current)
  BY <1>1
<1>5. /\ \A i \in DOMAIN w.frames : Ready(w.frames[i].code, gs, m)
      /\ \A k \in DOMAIN ss : Ready(ss[k].code, gs, m)
  BY <1>1, <1>2, <1>4, SMTT(30) DEF Preparations, Ready, Comes
<1>6. /\ \A i, j \in DOMAIN w.frames : i # j => Apart(w.frames[i].code, w.frames[j].code)
      /\ \A i \in DOMAIN w.frames, k \in DOMAIN ss : Apart(w.frames[i].code, ss[k].code)
      /\ \A k, l \in DOMAIN ss : k # l => Apart(ss[k].code, ss[l].code)
  <2>0. \A c, d, e : /\ Comes(c, d) /\ Apart(d, e) => Apart(c, e)
                     /\ Comes(c, d) /\ Apart(e, d) => Apart(c, e) /\ Apart(e, c)
                     /\ Apart(c, e) => Apart(e, c)
    BY DEF Apart, Comes
  <2>1. ASSUME NEW i \in DOMAIN w.frames, NEW j \in DOMAIN w.frames, i # j
        PROVE  Apart(w.frames[i].code, w.frames[j].code)
    <3>1. CASE i \in 1..n /\ j \in 1..n
      BY <1>1, <2>1, <3>1 DEF Preparations
    <3>2. CASE i = n + 1
      <4>1. j \in 1..n
        BY <1>1, <2>1, <3>2
      <4>2. Apart(w.frames[j].code, v.current)
        BY <1>1, <4>1 DEF Preparations
      <4> QED BY <1>4, <1>1, <2>0, <3>2, <4>2
    <3>3. CASE j = n + 1
      <4>1. i \in 1..n
        BY <1>1, <2>1, <3>3
      <4>2. Apart(w.frames[i].code, v.current)
        BY <1>1, <4>1 DEF Preparations
      <4> QED BY <1>4, <1>1, <2>0, <3>3, <4>2
    <3> QED BY <1>1, <3>1, <3>2, <3>3
  <2>2. ASSUME NEW i \in DOMAIN w.frames, NEW k \in DOMAIN ss
        PROVE  Apart(w.frames[i].code, ss[k].code)
    <3>1. Apart(w.frames[i].code, rs[k].code)
      <4>1. CASE i \in 1..n
        BY <1>1, <1>2, <4>1 DEF Preparations
      <4>2. CASE i = n + 1
        <5>1. Apart(rs[k].code, v.current)
          BY <1>2 DEF Preparations
        <5> QED BY <1>1, <1>4, <2>0, <4>2, <5>1
      <4> QED BY <1>1, <4>1, <4>2
    <3> QED BY <1>2, <3>1, CodesApart
  <2>3. ASSUME NEW k \in DOMAIN ss, NEW l \in DOMAIN ss, k # l
        PROVE  Apart(ss[k].code, ss[l].code)
    <3>1. Apart(rs[k].code, rs[l].code)
      BY <1>2, <2>3 DEF Preparations
    <3>2. Apart(ss[k].code, rs[l].code)
      BY <1>2, <3>1, CodesApart
    <3> QED BY <1>2, <3>2, CodesApart
  <2> QED BY <2>1, <2>2, <2>3
<1>7. Ready(w.current, gs, q)
  <2>1. w.current.preparing => m + 1 \in 1..q /\ m + 1 \notin gs
    BY <1>3
  <2> QED BY <2>1 DEF Ready
<1>8. /\ \A i \in DOMAIN w.frames : Apart(w.frames[i].code, w.current)
      /\ \A k \in DOMAIN ss : Apart(ss[k].code, w.current)
  BY <1>3, <1>5 DEF Ready, Apart
<1>9. /\ \A i \in DOMAIN w.frames : Ready(w.frames[i].code, gs, q)
      /\ \A k \in DOMAIN ss : Ready(ss[k].code, gs, q)
  BY <1>3, <1>5 DEF Ready
<1> QED BY <1>6, <1>7, <1>8, <1>9 DEF Preparations

(* Rust is called, and nobody's code runs yet.                             *)
LEMMA PrepAsks ==
    ASSUME NEW v, NEW rs, NEW w, NEW ss, NEW call, NEW gs, NEW m \in Nat, NEW q \in Nat, m <= q,
           Preparations(v, rs, gs, m), w.frames = v.frames, v.frames \in Seq(Frames),
           rs \in Seq(Waits), call \in Waits, ss = Append(rs, call),
           Comes(call.code, v.current), ~w.current.preparing
    PROVE  Preparations(w, ss, gs, q)
<1>1. PICK x \in Nat : /\ DOMAIN rs = 1..x /\ DOMAIN ss = 1..x + 1
                       /\ ss[x + 1] = call /\ \A k \in 1..x : ss[k] = rs[k]
  <2>0. Len(rs) \in Nat /\ DOMAIN rs = 1..Len(rs)
    OBVIOUS
  <2>1. ss \in Seq(Waits) /\ Len(ss) = Len(rs) + 1 /\ ss[Len(rs) + 1] = call
        /\ \A k \in 1..Len(rs) : ss[k] = rs[k]
    <3>1. rs \in Seq(Waits) /\ call \in Waits /\ ss = Append(rs, call)
      OBVIOUS
    <3> QED BY ONLY <3>1, Extended
  <2>2. DOMAIN ss = 1..Len(ss)
    BY <2>1
  <2> QED BY <2>0, <2>1, <2>2
<1>2. \A k \in DOMAIN ss : \/ k \in 1..x /\ ss[k].code = rs[k].code
                           \/ k = x + 1 /\ Comes(ss[k].code, v.current)
  BY <1>1
<1>3. \A a \in 1..m : a \in 1..q
  OBVIOUS
<1>4. /\ \A i \in DOMAIN w.frames : Ready(w.frames[i].code, gs, q)
      /\ \A k \in DOMAIN ss : Ready(ss[k].code, gs, q)
      /\ Ready(w.current, gs, q)
  BY <1>1, <1>2, <1>3 DEF Preparations, Ready, Comes
<1>5. /\ \A i, j \in DOMAIN w.frames : i # j => Apart(w.frames[i].code, w.frames[j].code)
      /\ \A i \in DOMAIN w.frames, k \in DOMAIN ss : Apart(w.frames[i].code, ss[k].code)
      /\ \A k, l \in DOMAIN ss : k # l => Apart(ss[k].code, ss[l].code)
  BY <1>1, <1>2 DEF Preparations, Apart, Comes
<1>6. /\ \A i \in DOMAIN w.frames : Apart(w.frames[i].code, w.current)
      /\ \A k \in DOMAIN ss : Apart(ss[k].code, w.current)
  BY DEF Apart
<1> QED BY <1>4, <1>5, <1>6 DEF Preparations

(* There is one generator more, and none of what is prepared is it.        *)
LEMMA PrepShelves ==
    ASSUME NEW w, NEW rs, NEW gs, NEW m, NEW g, NEW hs, Preparations(w, rs, gs, m),
           hs \subseteq gs \cup {g},
           g \in gs \/ /\ \A i \in DOMAIN w.frames : w.frames[i].code.preparing => w.frames[i].code.of # g
                       /\ \A k \in DOMAIN rs : rs[k].code.preparing => rs[k].code.of # g
                       /\ w.current.preparing => w.current.of # g
    PROVE  Preparations(w, rs, hs, m)
BY DEF Preparations, Ready

LEMMA HomesPart ==
    ASSUME NEW v, NEW rs, NEW w, NEW ss, NEW gs, NEW pk, NEW m, Homes(v, rs, gs, pk, m),
           Part(v, rs, w, ss)
    PROVE  Homes(w, ss, gs, pk, m)
<1>1. FewerFrames(v, w)
  BY DEF Part
<1> QED BY <1>1, OneShrinks, PrepShrinks DEF Homes

(* The same places, and code that stands where it stood.                   *)
LEMMA HomesSame ==
    ASSUME NEW v, NEW rs, NEW w, NEW ss, NEW gs, NEW pk, NEW m, Homes(v, rs, gs, pk, m),
           v.frames \in Seq(Frames), w.frames = v.frames, SameCodes(rs, ss),
           Comes(w.current, v.current)
    PROVE  Homes(w, ss, gs, pk, m)
<1>1. FewerFrames(v, w)
  <2>1. Len(v.frames) \in Nat
    OBVIOUS
  <2> QED BY <2>1 DEF FewerFrames
<1>2. Part(v, rs, w, ss)
  <2>1. Len(rs) \in Nat /\ Len(ss) = Len(rs) /\ rs \in Seq(Waits) /\ ss \in Seq(Waits)
        /\ \A k \in 1..Len(rs) : Comes(ss[k].code, rs[k].code)
    BY DEF SameCodes
  <2> QED BY <1>1, <2>1 DEF Part
<1> QED BY <1>2, HomesPart

LEMMA CodesSame ==
    ASSUME NEW rs \in Seq(Waits)
    PROVE  SameCodes(rs, rs)
BY DEF SameCodes, Comes

(* Nothing of the calls is left above n, and the code is one of theirs.    *)
LEMMA HomesCut ==
    ASSUME NEW v \in Vms, NEW rs \in Seq(Waits), NEW w \in Vms, NEW gs, NEW pk, NEW m,
           Homes(v, rs, gs, pk, m), NEW n \in 0..Len(v.frames),
           w.frames = Truncate(v.frames, n),
           ~w.current.preparing \/ Comes(w.current, v.current)
              \/ \E i \in n + 1..Len(v.frames) : Comes(w.current, v.frames[i].code)
    PROVE  Homes(w, rs, gs, pk, m)
<1>1. /\ v.frames \in Seq(Frames) /\ w.frames \in Seq(Frames) /\ Len(v.frames) \in Nat
  BY VmTypes
<1>2. PICK s, t : s = v.frames /\ t = w.frames
  OBVIOUS
<1>3. Len(t) = n /\ \A i \in 1..n : t[i] = s[i]
  <2>1. s \in Seq(Frames) /\ n \in 0..Len(s) /\ t = Truncate(s, n)
    BY <1>1, <1>2
  <2> QED BY ONLY <2>1, Shorter
<1>4. FewerFrames(v, w)
  BY <1>1, <1>2, <1>3 DEF FewerFrames
<1>5. ~w.current.preparing => Comes(w.current, v.current)
  BY DEF Comes
<1>6. Part(v, rs, w, rs)
  <2>1. Len(rs) \in Nat /\ \A k \in 1..Len(rs) : Comes(rs[k].code, rs[k].code)
    BY DEF Comes
  <2> QED BY <1>2, <1>3, <1>4, <1>5, <2>1 DEF Part
<1> QED BY <1>6, HomesPart

LEMMA FrontCuts ==
    ASSUME NEW S, NEW s \in Seq(S), s # <<>>
    PROVE  /\ Front(s) = Truncate(s, Len(s) - 1) /\ Len(s) - 1 \in 0..Len(s)
           /\ Len(s) \in Len(s) - 1 + 1..Len(s)
<1>1. PICK n \in Nat : n = Len(s) /\ n >= 1
  OBVIOUS
<1>2. Front(s) = SubSeq(s, 1, n - 1)
  BY <1>1 DEF Front
<1>3. n - 1 < n
  BY <1>1
<1> QED BY <1>1, <1>2, <1>3 DEF Truncate

LEMMA HomesLeaves ==
    ASSUME NEW v \in Vms, NEW rs \in Seq(Waits), NEW w \in Vms, NEW gs, NEW pk, NEW m,
           Homes(v, rs, gs, pk, m), v.frames # <<>>, w.frames = Front(v.frames),
           Comes(w.current, v.frames[Len(v.frames)].code)
    PROVE  Homes(w, rs, gs, pk, m)
<1>1. v.frames \in Seq(Frames)
  BY VmTypes
<1>2. PICK n : n = Len(v.frames) - 1
  OBVIOUS
<1>3. /\ w.frames = Truncate(v.frames, n) /\ n \in 0..Len(v.frames)
      /\ Len(v.frames) \in n + 1..Len(v.frames)
  BY <1>1, <1>2, FrontCuts
<1> QED BY <1>3, HomesCut

LEMMA HomesPushes ==
    ASSUME NEW v \in Vms, NEW rs, NEW w, NEW f, NEW ss, NEW gs, NEW pk, NEW qk, NEW m \in Nat, NEW q,
           Homes(v, rs, gs, pk, m), f \in Frames, w.frames = Append(v.frames, f),
           SameCodes(rs, ss), Comes(f.code, v.current), gs \subseteq 1..m,
           q = m \/ q = m + 1,
           w.current.preparing => w.current.of = m + 1 /\ q = m + 1,
           f.generator \in gs \cup {Nobody},
           f.generator # Nobody => ~RunBy(v, f.generator),
           \A g \in Ids : qk[g] # NotParked => pk[g] # NotParked /\ g # f.generator
    PROVE  Homes(w, ss, gs, qk, q)
<1>1. OneFrameMore(v, w, f)
  BY VmTypes DEF OneFrameMore
<1>2. OneHome(w, gs, qk)
  BY <1>1, OnePushes DEF Homes
<1>3. Preparations(w, ss, gs, q)
  BY <1>1, PrepPushes DEF Homes
<1> QED BY <1>2, <1>3 DEF Homes

LEMMA HomesAsks ==
    ASSUME NEW v \in Vms, NEW rs, NEW w, NEW ss, NEW call, NEW gs, NEW pk, NEW m \in Nat,
           NEW q \in Nat, m <= q,
           Homes(v, rs, gs, pk, m), w.frames = v.frames,
           rs \in Seq(Waits), call \in Waits, ss = Append(rs, call),
           Comes(call.code, v.current), ~w.current.preparing
    PROVE  Homes(w, ss, gs, pk, q)
<1>1. v.frames \in Seq(Frames)
  BY VmTypes
<1>2. Preparations(w, ss, gs, q)
  BY <1>1, PrepAsks DEF Homes
<1>3. OneHome(w, gs, pk)
  BY DEF Homes, OneHome, RunBy
<1> QED BY <1>2, <1>3 DEF Homes

(* Fewer are parked.                                                       *)
LEMMA HomesTakes ==
    ASSUME NEW v, NEW rs, NEW gs, NEW pk, NEW m, Homes(v, rs, gs, pk, m), NEW qk,
           \A g \in Ids : qk[g] # NotParked => pk[g] # NotParked
    PROVE  Homes(v, rs, gs, qk, m)
BY DEF Homes, OneHome

(* A throw lands in a body that was there.                                 *)
LEMMA HomesUnwinds ==
    ASSUME NEW u, NEW E \in Nat, NEW C \in BOOLEAN, NEW o, NEW m \in Nat, Fine(u, E, C, o, m),
           NEW x \in Vms, Alike(u, x), x.current.of = u.current.of,
           u.current.preparing => x.current.preparing,
           NEW rs \in Seq(Waits), NEW gs, NEW pk, NEW q, Homes(x, rs, gs, pk, q)
    PROVE  Homes(Unwind(x), rs, gs, pk, q)
<1>1. PICK w : w = Unwind(x)
  OBVIOUS
<1>2. /\ u.frames = x.frames /\ u.floor = x.floor /\ u \in Vms /\ MarksInOrder(u, E)
      /\ Len(x.frames) \in Nat
  BY FineExecutes, VmTypes DEF Alike
<1>3. CASE Len(x.handlers) > x.floor.handlers
  <2>1. PICK D : LandsIn(u, w, D)
    BY <1>1, <1>3, UnwindGoes
  <2>2. w \in Vms
    BY <1>1, <1>3, UnwindGoes DEF Landed
  <2>3. /\ D \in Nat /\ D <= Len(x.frames) /\ w.frames = Truncate(x.frames, D)
        /\ w.current.of = CodeAt(u, D).of /\ (w.current.preparing => CodeAt(u, D).preparing)
    BY <1>2, <2>1 DEF LandsIn
  <2>4. CASE D = Len(x.frames)
    <3>1. Comes(w.current, x.current)
      BY <1>2, <2>3, <2>4 DEF CodeAt, Comes
    <3> QED BY <1>1, <2>2, <2>3, <3>1, HomesCut
  <2>5. CASE D # Len(x.frames)
    <3>1. D + 1 \in D + 1..Len(x.frames) /\ D + 1 \in 1..Len(x.frames)
      BY <1>2, <2>3, <2>5
    <3>2. PICK c \in Code : c = x.frames[D + 1].code
      BY <3>1, VmTypes
    <3>3. CodeAt(u, D) = Before(c)
      BY <1>2, <2>5, <3>2 DEF CodeAt
    <3>4. Comes(w.current, c)
      BY <2>3, <3>3, CodeTypes DEF Comes
    <3> QED BY <1>1, <2>2, <2>3, <3>1, <3>2, <3>4, HomesCut
  <2> QED BY <2>4, <2>5
<1>4. CASE ~(Len(x.handlers) > x.floor.handlers)
  <2>1. w \in Vms /\ w.frames = Truncate(x.frames, x.floor.frames) /\ w.current = NoCode
    BY <1>1, <1>4, UnwindEscapes
  <2>2. x.floor.frames \in 0..Len(x.frames)
    BY <1>2, VmTypes DEF MarksInOrder
  <2>3. ~w.current.preparing
    BY <2>1 DEF NoCode
  <2> QED BY <1>1, <2>1, <2>2, <2>3, HomesCut
<1> QED BY <1>3, <1>4

(* There is nothing that could take it.                                    *)
LEMMA HomesEscapes ==
    ASSUME NEW u, NEW x, Raised(u, x), NEW rs \in Seq(Waits), NEW gs, NEW pk, NEW m,
           Homes(x, rs, gs, pk, m)
    PROVE  Homes(Unwind(x), rs, gs, pk, m)
<1>1. PICK w : w = Unwind(x)
  OBVIOUS
<1>2. /\ x \in Vms /\ x.floor.handlers = Len(x.handlers) /\ x.floor.frames = Len(x.frames)
      /\ Len(x.frames) \in Nat /\ Len(x.handlers) \in Nat
  BY VmTypes DEF Raised
<1>3. ~(Len(x.handlers) > x.floor.handlers)
  BY <1>2
<1>4. w \in Vms /\ w.frames = Truncate(x.frames, x.floor.frames) /\ w.current = NoCode
  BY <1>1, <1>2, <1>3, UnwindEscapes
<1>5. x.floor.frames \in 0..Len(x.frames) /\ ~w.current.preparing
  BY <1>2, <1>4 DEF NoCode
<1> QED BY <1>1, <1>2, <1>4, <1>5, HomesCut

HomesInv == Homes(vm, rust, generators, parked, made)

(* The machine at work, its generators at home.                            *)
AtHome(v, rs, E, C, o, m) ==
    /\ AtWork(v, rs, E, C, o, m)
    /\ Homes(v, rs, generators, parked, m) /\ SameCodes(rs, rs)
    /\ rs \in Seq(Waits) /\ generators \subseteq 1..m /\ v.frames \in Seq(Frames)

LEMMA HomesWorking ==
    ASSUME SpineInv, HomesInv, Executing
    PROVE  \E v, rs, E, C, o, m : AtHome(v, rs, E, C, o, m)
<1>1. PICK v, rs, E, C, o, m : AtWork(v, rs, E, C, o, m)
  BY Working
<1>2. /\ v = vm /\ rs = rust /\ m = made /\ Spine(v, rs, o, m, generators, parked) /\ v \in Vms
  BY <1>1 DEF AtWork
<1>3. rs \in Seq(Waits) /\ generators \subseteq 1..m /\ v.frames \in Seq(Frames)
  BY <1>2, VmTypes DEF Spine, Calling
<1>4. Homes(v, rs, generators, parked, m)
  BY <1>2 DEF HomesInv
<1> QED BY <1>1, <1>3, <1>4, CodesSame DEF AtHome

(* Constructs are opened and closed.                                       *)
LEMMA HomesStep ==
    ASSUME SpineInv, HomesInv, Step
    PROVE  HomesInv'
<1>0. Executing /\ UNCHANGED <<rust, own, made, objects>>
  BY DEF Step, PushScope, PushHandler, PushOperand, ResolveName, MayOpen, Close
<1>1. PICK v, rs, E, C, o, m : AtHome(v, rs, E, C, o, m)
  BY <1>0, HomesWorking
<1>2. /\ v = vm /\ rs = rust /\ m = made /\ v \in Vms /\ v.current \in Code
      /\ Homes(v, rs, generators, parked, m) /\ SameCodes(rs, rs) /\ v.frames \in Seq(Frames)
  BY <1>1 DEF AtHome, AtWork
<1>3. PICK w : w = vm'
  OBVIOUS
<1>4. \A x \in Constructs : Open(v.current, x).preparing = v.current.preparing
                            /\ Open(v.current, x).of = v.current.of
  BY <1>2, OpenIsCode
<1>5. w.frames = v.frames /\ Comes(w.current, v.current)
  <2>1. CASE PushScope
    <3>1. PICK c, env : c = Open(v.current, "block") /\ env = [v.regs.env EXCEPT !.level = @ + 1]
      OBVIOUS
    <3>2. w = [v EXCEPT !.current = c, !.regs.env = env]
      BY <1>2, <1>3, <2>1, <3>1 DEF PushScope, Here
    <3>3. w.frames = v.frames /\ w.current = c
      BY <1>2, <3>2 DEF Vms
    <3> QED BY <1>4, <3>1, <3>3 DEF Comes, Constructs
  <2>2. CASE PushHandler
    <3>1. PICK c, h : /\ c = Open(v.current, "try")
                      /\ h = Append(v.handlers,
                               [target |-> v.current, frames |-> Len(v.frames),
                                depth |-> Len(v.stack), env |-> v.regs.env,
                                references |-> Len(v.references)])
      OBVIOUS
    <3>2. w = [v EXCEPT !.current = c, !.handlers = h]
      BY <1>2, <1>3, <2>2, <3>1 DEF PushHandler, Here
    <3>3. w.frames = v.frames /\ w.current = c
      BY <1>2, <3>2 DEF Vms
    <3> QED BY <1>4, <3>1, <3>3 DEF Comes, Constructs
  <2>3. CASE PushOperand
    <3>1. PICK c, s : c = Open(v.current, "operand") /\ s = Append(v.stack, Mark(c))
      OBVIOUS
    <3>2. w = [v EXCEPT !.current = c, !.stack = s]
      BY <1>2, <1>3, <2>3, <3>1 DEF PushOperand, Here
    <3>3. w.frames = v.frames /\ w.current = c
      BY <1>2, <3>2 DEF Vms
    <3> QED BY <1>4, <3>1, <3>3 DEF Comes, Constructs
  <2>4. CASE ResolveName
    <3>1. PICK c, r : c = Open(v.current, "reference") /\ r = Append(v.references, Mark(c))
      OBVIOUS
    <3>2. w = [v EXCEPT !.current = c, !.references = r]
      BY <1>2, <1>3, <2>4, <3>1 DEF ResolveName, Here
    <3>3. w.frames = v.frames /\ w.current = c
      BY <1>2, <3>2 DEF Vms
    <3> QED BY <1>4, <3>1, <3>3 DEF Comes, Constructs
  <2>5. CASE Close
    <3>1. PICK c, x, s, h, env :
             /\ c = Before(v.current) /\ x = Last(v.current.open)
             /\ s = IF x = "operand" THEN Front(v.stack) ELSE v.stack
             /\ h = IF x = "try" THEN Front(v.handlers) ELSE v.handlers
             /\ env = IF x = "block" THEN [v.regs.env EXCEPT !.level = @ - 1] ELSE v.regs.env
      OBVIOUS
    <3>2. Closing(v, c, x, s, h, env)
      BY <1>2, <2>5, <3>1 DEF Closing
    <3>3. PICK r \in Seq(Marks) :
             vm' = [v EXCEPT !.current = c, !.stack = s, !.handlers = h, !.references = r,
                             !.regs.env = env]
      BY <3>2, ClosedIs, ZenonT(60)
    <3>4. w.frames = v.frames /\ w.current = Before(v.current)
      BY <1>2, <1>3, <3>1, <3>3 DEF Vms
    <3> QED BY <1>2, <3>4, CodeTypes DEF Comes
  <2> QED BY <2>1, <2>2, <2>3, <2>4, <2>5 DEF Step
<1>6. Homes(w, rs, generators, parked, m)
  BY <1>2, <1>5, HomesSame
<1> QED BY <1>0, <1>2, <1>3, <1>6 DEF HomesInv, objects

LEMMA HomesThrow ==
    ASSUME SpineInv, HomesInv, Throw
    PROVE  HomesInv'
<1>1. PICK v, rs, E, C, o, m : AtHome(v, rs, E, C, o, m)
  BY HomesWorking DEF Throw
<1>2. /\ v = vm /\ rs = rust /\ m = made /\ v \in Vms /\ Fine(v, E, C, o, m)
      /\ E \in Nat /\ C \in BOOLEAN /\ m \in Nat
      /\ Homes(v, rs, generators, parked, m) /\ rs \in Seq(Waits)
  BY <1>1 DEF AtHome, AtWork
<1>3. Homes(Unwind(v), rs, generators, parked, m)
  BY <1>2, HomesUnwinds DEF Alike
<1> QED BY <1>2, <1>3 DEF Throw, HomesInv, objects

LEMMA HomesCall ==
    ASSUME SpineInv, HomesInv, Call
    PROVE  HomesInv'
<1>1. PICK v, rs, E, C, o, m : AtHome(v, rs, E, C, o, m)
  BY HomesWorking DEF Call, MayOpen
<1>2. /\ v = vm /\ rs = rust /\ o = own /\ m = made /\ v \in Vms /\ m \in Nat
      /\ v.current \in Code /\ o \in Owners /\ m \in Ids /\ generators \subseteq 1..m
      /\ Homes(v, rs, generators, parked, m) /\ SameCodes(rs, rs)
  BY <1>1 DEF AtHome, AtWork, More
<1>3. PICK kind \in Bodies, realm \in Realms :
         EnterBody(vm, FrameFrom(vm, Open(Here, "operand"), kind), kind, realm)
  BY DEF Call
<1>4. PICK code, f : code = Open(v.current, "operand") /\ f = FrameFrom(v, code, kind)
  OBVIOUS
<1>5. code \in Code /\ Comes(code, v.current)
  BY <1>2, <1>4, OpenIsCode DEF Constructs, Comes
<1>6. /\ f \in Frames /\ f.stack_base = Len(v.stack) /\ f.code = code /\ f.generator = Nobody
  BY <1>2, <1>4, <1>5, FrameIsOne
<1>7. PICK w, p, q : w = vm' /\ p = own' /\ q = made'
  OBVIOUS
<1>8. Entering(v, f, w, o, m, p, q) /\ UNCHANGED objects
  <2>1. EnterBody(v, f, kind, realm)
    BY <1>2, <1>3, <1>4 DEF Here
  <2>2. f.stack_base <= Len(v.stack)
    BY <1>2, <1>6, VmTypes
  <2> QED BY <1>2, <1>6, <1>7, <2>1, <2>2, EntersBody DEF Call
<1>9. w.frames = Append(v.frames, f) /\ w.current.of = q /\ q = m + 1
  BY <1>8 DEF Entering
<1>10. \A g \in Ids : g # Nobody
  BY ActivationAssumption DEF Ids, Nobody
<1>11. Homes(w, rs, generators, parked, q)
  BY <1>2, <1>5, <1>6, <1>9, <1>10, HomesPushes
<1> QED BY <1>2, <1>7, <1>8, <1>11 DEF Call, HomesInv, objects

LEMMA HomesTailCall ==
    ASSUME SpineInv, HomesInv, TailCall
    PROVE  HomesInv'
<1>1. PICK v, rs, E, C, o, m : AtHome(v, rs, E, C, o, m)
  BY HomesWorking DEF TailCall
<1>2. /\ v = vm /\ rs = rust /\ o = own /\ m = made /\ v \in Vms /\ m \in Nat
      /\ o \in Owners /\ m \in Ids /\ generators \subseteq 1..m /\ rs \in Seq(Waits)
      /\ Homes(v, rs, generators, parked, m) /\ SameCodes(rs, rs) /\ v.frames \in Seq(Frames)
      /\ AtWork(v, rs, E, C, o, m)
  BY <1>1 DEF AtHome, AtWork, More
<1>3. PICK D, f, u, y : /\ D = Len(v.frames) /\ f = Last(v.frames)
                        /\ u = [v EXCEPT !.frames = Front(@)]
                        /\ y = [u EXCEPT !.current = f.code]
  OBVIOUS
<1>4. /\ v.frames # <<>> /\ f = v.frames[D] /\ f.stack_base <= Len(v.stack) /\ f \in Frames
      /\ f.code \in Code
  BY <1>2, <1>3, BodyAbove, VmTypes DEF TailCall
<1>5. f.generator = Nobody
  BY <1>2, <1>3 DEF TailCall
<1>6. PICK kind \in Bodies, realm \in Realms : EnterBody(u, f, kind, realm)
  BY <1>2, <1>3 DEF TailCall
<1>7. /\ u \in Vms /\ u.stack = v.stack /\ u.frames = Front(v.frames)
      /\ y \in Vms /\ y.frames = Front(v.frames) /\ y.current = f.code
  <2>1. Front(v.frames) \in Seq(Frames)
    BY <1>2, <1>4, Fronted
  <2> QED BY <1>2, <1>3, <1>4, <2>1 DEF Vms
<1>8. Homes(y, rs, generators, parked, m)
  <2>1. Comes(y.current, v.frames[Len(v.frames)].code)
    BY <1>3, <1>4, <1>7 DEF Comes
  <2> QED BY <1>2, <1>4, <1>7, <2>1, HomesLeaves
<1>9. PICK w, p, q : w = vm' /\ p = own' /\ q = made'
  OBVIOUS
<1>10. Entering(u, f, w, o, m, p, q) /\ UNCHANGED objects
  BY <1>2, <1>4, <1>6, <1>7, <1>9, EntersBody DEF TailCall
<1>11. w.frames = Append(y.frames, f) /\ w.current.of = q /\ q = m + 1
  BY <1>7, <1>10 DEF Entering
<1>12. \A g \in Ids : g # Nobody
  BY ActivationAssumption DEF Ids, Nobody
<1>13. Comes(f.code, y.current)
  BY <1>7 DEF Comes
<1>14. Homes(w, rs, generators, parked, q)
  <2>1. /\ y \in Vms /\ m \in Nat /\ Homes(y, rs, generators, parked, m) /\ f \in Frames
        /\ w.frames = Append(y.frames, f) /\ SameCodes(rs, rs) /\ Comes(f.code, y.current)
        /\ generators \subseteq 1..m /\ q = m + 1 /\ w.current.of = m + 1
        /\ f.generator = Nobody /\ \A g \in Ids : g # f.generator
    BY <1>2, <1>4, <1>5, <1>7, <1>8, <1>11, <1>12, <1>13
  <2> QED BY ONLY <2>1, HomesPushes
<1> QED BY <1>2, <1>9, <1>10, <1>14 DEF TailCall, HomesInv, objects

LEMMA HomesReturn ==
    ASSUME SpineInv, HomesInv, Return
    PROVE  HomesInv'
<1>1. PICK v, rs, E, C, o, m : AtHome(v, rs, E, C, o, m)
  BY HomesWorking DEF Return
<1>2. /\ v = vm /\ rs = rust /\ m = made /\ v \in Vms /\ rs \in Seq(Waits)
      /\ Homes(v, rs, generators, parked, m) /\ AtWork(v, rs, E, C, o, m)
  BY <1>1 DEF AtHome, AtWork
<1>3. /\ v.frames # <<>>
      /\ v.frames[Len(v.frames)].stack_base <= Len(v.stack)
      /\ v.frames[Len(v.frames)].handlers_base <= Len(v.handlers)
  BY <1>2, BodyAbove DEF Return
<1>4. PICK w : w = LeaveFrame(v)
  OBVIOUS
<1>5. Left(v, w)
  BY <1>2, <1>3, <1>4, LeaveFrameLeaves
<1>6. w \in Vms /\ w.frames = Front(v.frames) /\ Comes(w.current, v.frames[Len(v.frames)].code)
  BY <1>5 DEF Left, Comes
<1>7. Homes(w, rs, generators, parked, m)
  BY <1>2, <1>3, <1>6, HomesLeaves
<1> QED BY <1>2, <1>4, <1>7 DEF Return, HomesInv, objects

LEMMA HomesChunkEnds ==
    ASSUME SpineInv, HomesInv, ChunkEnds
    PROVE  HomesInv'
<1>1. PICK v, rs, E, C, o, m : AtHome(v, rs, E, C, o, m)
  BY HomesWorking DEF ChunkEnds
<1>2. /\ v = vm /\ rs = rust /\ m = made /\ v \in Vms /\ v.frames \in Seq(Frames)
      /\ Homes(v, rs, generators, parked, m) /\ SameCodes(rs, rs)
  BY <1>1 DEF AtHome, AtWork
<1>3. PICK w : w = [v EXCEPT !.current = NoCode]
  OBVIOUS
<1>4. w.frames = v.frames /\ ~w.current.preparing
  BY <1>2, <1>3 DEF Vms, NoCode
<1>5. Homes(w, rs, generators, parked, m)
  BY <1>2, <1>4, HomesSame DEF Comes
<1> QED BY <1>2, <1>3, <1>5 DEF ChunkEnds, HomesInv, objects

(* A generator is shelved, new or as it was.                               *)
LEMMA HomesShelves ==
    ASSUME NEW w, NEW rs, NEW gs, NEW pk, NEW m, Homes(w, rs, gs, pk, m), NEW g, ~RunBy(w, g),
           NEW hs, g \in hs, gs \subseteq hs, hs \subseteq gs \cup {g},
           g \in gs \/ /\ \A i \in DOMAIN w.frames :
                             w.frames[i].code.preparing => w.frames[i].code.of # g
                       /\ \A k \in DOMAIN rs : rs[k].code.preparing => rs[k].code.of # g
                       /\ w.current.preparing => w.current.of # g,
           NEW qk, \A a \in Ids : a # g => (qk[a] # NotParked => pk[a] # NotParked)
    PROVE  Homes(w, rs, hs, qk, m)
<1>1. OneHome(w, hs, qk)
  BY OneShelves DEF Homes
<1>2. Preparations(w, rs, hs, m)
  BY PrepShelves DEF Homes
<1> QED BY <1>1, <1>2 DEF Homes

(* What a body that parks leaves behind.                                   *)
Parks(v, m, g, begun, w) ==
    /\ v.frames # <<>> /\ g = v.current.of /\ g \in 1..m /\ g \in Ids /\ g # Nobody
    /\ w = vm' /\ w \in Vms /\ Left(v, w)
    /\ parked' = [parked EXCEPT ![g] = Park(v, [Open(v.current, "operand") EXCEPT !.preparing = FALSE],
                                            begun)]
    /\ \A a \in Ids : a # g => parked'[a] = parked[a]
    /\ UNCHANGED <<rust, own, made>>

LEMMA ParksIs ==
    ASSUME NEW v, NEW rs, NEW E, NEW C, NEW o, NEW m, AtWork(v, rs, E, C, o, m),
           Len(v.frames) > v.floor.frames, NEW begun, Suspend(v.current.of, begun)
    PROVE  \E w : Parks(v, m, v.current.of, begun, w)
<1>1. v = vm /\ v \in Vms /\ m \in Ids /\ Spine(v, rs, o, m, generators, parked)
  BY DEF AtWork, More
<1>2. PICK g : g = v.current.of
  OBVIOUS
<1>3. g \in 1..m /\ v.frames # <<>>
      /\ v.frames[Len(v.frames)].stack_base <= Len(v.stack)
      /\ v.frames[Len(v.frames)].handlers_base <= Len(v.handlers)
  BY <1>2, BodyAbove
<1>4. g \in Ids /\ g # Nobody
  BY <1>1, <1>3, ActivationAssumption DEF Ids, Nobody
<1>5. PICK w : w = [LeaveFrame(v) EXCEPT !.references = <<>>]
  OBVIOUS
<1>6. Left(v, w)
  BY <1>1, <1>3, <1>5, LeaveFrameLeaves
<1>7. /\ parked' = [parked EXCEPT ![g] = Park(v, [Open(v.current, "operand") EXCEPT !.preparing = FALSE],
                                              begun)]
      /\ vm' = w /\ UNCHANGED <<rust, own, made>>
  BY <1>1, <1>2, <1>5 DEF Suspend, Here
<1>8. \A a \in Ids : a # g => parked'[a] = parked[a]
  <2>1. parked \in [Ids -> Shelves \cup {NotParked}]
    BY <1>1 DEF Spine
  <2> QED BY <1>7, <2>1
<1>9. Parks(v, m, g, begun, w)
  BY <1>2, <1>3, <1>4, <1>6, <1>7, <1>8 DEF Parks, Left
<1> QED BY <1>2, <1>9

LEMMA HomesStarts ==
    ASSUME SpineInv, HomesInv, GeneratorStart
    PROVE  HomesInv'
<1>1. PICK v, rs, E, C, o, m : AtHome(v, rs, E, C, o, m)
  BY HomesWorking DEF GeneratorStart
<1>2. /\ v = vm /\ rs = rust /\ o = own /\ m = made /\ v \in Vms /\ rs \in Seq(Waits)
      /\ Homes(v, rs, generators, parked, m) /\ SameCodes(rs, rs) /\ v.frames \in Seq(Frames)
      /\ AtWork(v, rs, E, C, o, m)
  BY <1>1 DEF AtHome, AtWork
<1>3. v.current.preparing /\ Suspend(v.current.of, FALSE)
      /\ generators' = generators \cup {v.current.of}
  BY <1>2 DEF GeneratorStart, Here
<1>4. Len(v.frames) > v.floor.frames
  <2>1. o[v.current.of].kind = "generator"
    BY <1>2, <1>3, BodyAbove
  <2>2. InBody
    BY <1>2, <2>1 DEF InBody, Bodies, Here
  <2> QED BY <1>2, <2>2, BodyAbove
<1>5. PICK g, w : g = v.current.of /\ Parks(v, m, g, FALSE, w)
  BY <1>2, <1>3, <1>4, ParksIs
<1>6. /\ v.frames # <<>> /\ g \in 1..m /\ g \in Ids /\ g # Nobody /\ w = vm' /\ w \in Vms
      /\ Left(v, w) /\ \A a \in Ids : a # g => parked'[a] = parked[a]
      /\ UNCHANGED <<rust, own, made>>
  BY <1>5 DEF Parks
<1>7. PICK y : y = [v EXCEPT !.current = NoCode]
  OBVIOUS
<1>8. y \in Vms /\ y.frames = v.frames /\ y.current = NoCode /\ ~y.current.preparing
  BY <1>2, <1>7, NoCodeIsCode DEF Vms, NoCode
<1>9. Homes(y, rs, generators, parked, m)
  BY <1>2, <1>8, HomesSame DEF Comes
<1>10. g \notin generators
  BY <1>2, <1>3, <1>5 DEF Homes, Preparations, Ready
<1>11. ~RunBy(y, g)
  BY <1>6, <1>9, <1>10 DEF Homes, OneHome, RunBy
<1>12. /\ \A i \in DOMAIN y.frames : y.frames[i].code.preparing => y.frames[i].code.of # g
       /\ \A k \in DOMAIN rs : rs[k].code.preparing => rs[k].code.of # g
  BY <1>2, <1>3, <1>5, <1>8 DEF Homes, Preparations, Apart
<1>13. Homes(y, rs, generators', parked', m)
  <2>1. PICK hs, qk : hs = generators' /\ qk = parked'
    OBVIOUS
  <2>2. /\ g \in hs /\ generators \subseteq hs /\ hs \subseteq generators \cup {g}
        /\ \A a \in Ids : a # g => (qk[a] # NotParked => parked[a] # NotParked)
    BY <1>3, <1>5, <1>6, <2>1
  <2>3. Homes(y, rs, hs, qk, m)
    BY <1>8, <1>9, <1>11, <1>12, <2>2, HomesShelves
  <2> QED BY <2>1, <2>3
<1>14. w.frames = Front(y.frames) /\ Comes(w.current, y.frames[Len(y.frames)].code)
  BY <1>6, <1>8 DEF Left, Comes
<1>15. Homes(w, rs, generators', parked', m)
  BY <1>2, <1>6, <1>8, <1>13, <1>14, HomesLeaves
<1> QED BY <1>2, <1>6, <1>15 DEF HomesInv

LEMMA HomesYields ==
    ASSUME SpineInv, HomesInv, Yield
    PROVE  HomesInv'
<1>1. PICK v, rs, E, C, o, m : AtHome(v, rs, E, C, o, m)
  BY HomesWorking DEF Yield, MayOpen
<1>2. /\ v = vm /\ rs = rust /\ o = own /\ m = made /\ v \in Vms /\ rs \in Seq(Waits)
      /\ Homes(v, rs, generators, parked, m) /\ v.frames \in Seq(Frames)
      /\ AtWork(v, rs, E, C, o, m)
  BY <1>1 DEF AtHome, AtWork
<1>3. /\ own[v.current.of].kind = "generator" /\ ~v.current.preparing
      /\ Last(v.frames).generator # Nobody
      /\ Suspend(Last(v.frames).generator, TRUE) /\ generators' = generators
  BY <1>2 DEF Yield, Here
<1>4. Len(v.frames) > v.floor.frames
  <2>1. InBody
    BY <1>2, <1>3 DEF InBody, Bodies, Here
  <2> QED BY <1>2, <2>1, BodyAbove
<1>5. v.current.of = Last(v.frames).generator /\ Last(v.frames) = v.frames[Len(v.frames)]
  BY <1>2, <1>3, <1>4, BodyAbove
<1>6. PICK g, w : g = v.current.of /\ Parks(v, m, g, TRUE, w)
  BY <1>2, <1>3, <1>4, <1>5, ParksIs
<1>7. /\ v.frames # <<>> /\ g \in 1..m /\ g \in Ids /\ g # Nobody /\ w = vm' /\ w \in Vms
      /\ Left(v, w) /\ \A a \in Ids : a # g => parked'[a] = parked[a]
      /\ UNCHANGED <<rust, own, made>>
  BY <1>6 DEF Parks
<1>8. PICK n \in Nat : n = Len(v.frames) /\ n \in DOMAIN v.frames
  BY <1>2, <1>7
<1>9. v.frames[n].generator = g
  BY <1>5, <1>6, <1>8
<1>10. g \in generators
  BY <1>2, <1>7, <1>8, <1>9 DEF Homes, OneHome
<1>11. w.frames = Front(v.frames) /\ Comes(w.current, v.frames[Len(v.frames)].code)
  BY <1>7 DEF Left, Comes
<1>12. Homes(w, rs, generators, parked, m)
  BY <1>2, <1>7, <1>11, HomesLeaves
<1>13. ~RunBy(w, g)
  <2>1. \A i \in DOMAIN w.frames : i \in DOMAIN v.frames /\ w.frames[i] = v.frames[i] /\ i # n
    <3>1. PICK s, t : s = v.frames /\ t = w.frames
      OBVIOUS
    <3>2. s \in Seq(Frames) /\ s # <<>> /\ t = Front(s) /\ n = Len(s)
      BY <1>2, <1>7, <1>8, <1>11, <3>1
    <3>3. t \in Seq(Frames) /\ Len(t) = Len(s) - 1 /\ \A i \in 1..Len(s) - 1 : t[i] = s[i]
      BY ONLY <3>2, Fronted
    <3>4. DOMAIN t = 1..n - 1 /\ DOMAIN s = 1..n /\ \A i \in 1..n - 1 : t[i] = s[i]
      BY <3>2, <3>3
    <3> QED BY <3>1, <3>4
  <2> QED BY <1>2, <1>7, <1>8, <1>9, <2>1 DEF Homes, OneHome, RunBy
<1>14. Homes(w, rs, generators', parked', m)
  <2>1. PICK hs, qk : hs = generators' /\ qk = parked'
    OBVIOUS
  <2>2. /\ g \in hs /\ generators \subseteq hs /\ hs \subseteq generators \cup {g}
        /\ \A a \in Ids : a # g => (qk[a] # NotParked => parked[a] # NotParked)
    BY <1>3, <1>7, <1>10, <2>1
  <2>3. Homes(w, rs, hs, qk, m)
    BY <1>10, <1>12, <1>13, <2>2, HomesShelves
  <2> QED BY <2>1, <2>3
<1> QED BY <1>2, <1>7, <1>14 DEF HomesInv

LEMMA HomesResumes ==
    ASSUME SpineInv, HomesInv, CallResume
    PROVE  HomesInv'
<1>1. PICK v, rs, E, C, o, m : AtHome(v, rs, E, C, o, m)
  BY HomesWorking DEF CallResume, MayOpen
<1>2. /\ v = vm /\ rs = rust /\ m = made /\ v \in Vms /\ m \in Nat /\ E \in Nat /\ C \in BOOLEAN
      /\ v.current \in Code /\ Fine(v, E, C, o, m) /\ rs \in Seq(Waits)
      /\ Homes(v, rs, generators, parked, m) /\ SameCodes(rs, rs) /\ v.frames \in Seq(Frames)
      /\ AtWork(v, rs, E, C, o, m) /\ generators \subseteq 1..m
  BY <1>1 DEF AtHome, AtWork
<1>3. PICK g \in generators, how \in {"next", "throw", "return"} :
         Resume(vm, Open(Here, "operand"), g, how)
  BY DEF CallResume
<1>4. PICK code : code = Open(v.current, "operand")
  OBVIOUS
<1>5. /\ Resume(v, code, g, how) /\ code \in Code
      /\ rust' = rs /\ own' = own /\ made' = m /\ generators' = generators
      /\ Comes(code, v.current)
  BY <1>2, <1>3, <1>4, OpenIsCode DEF CallResume, Here, Resume, Constructs, Comes
<1>6. Homes(Unwind(v), rs, generators, parked, m)
  BY <1>2, HomesUnwinds DEF Alike
<1>7. Homes(Results(v, code), rs, generators, parked, m)
  <2>1. PICK w : w = Results(v, code)
    OBVIOUS
  <2>2. w.frames = v.frames /\ w.current = code
    BY <1>2, <1>5, <2>1, ResultsAre
  <2>3. Homes(w, rs, generators, parked, m)
    BY <1>2, <1>5, <2>2, HomesSame
  <2> QED BY <2>1, <2>3
<1>8. SUFFICES Homes(vm', rs, generators, parked', m)
  BY <1>5 DEF HomesInv
<1>9. CASE ResumeRunning(v, g)
  BY <1>6, <1>9 DEF ResumeRunning
<1>10. CASE ResumeFinished(v, code, g, how)
  BY <1>6, <1>7, <1>10 DEF ResumeFinished
<1>11. CASE ResumeParked(v, code, g, how)
  <2>1. PICK w, p, f : Reviving(v, E, C, o, m, code, g, how, w, p, f)
    BY <1>2, <1>4, <1>11, ReviveIs
  <2>2. PICK qk : qk = parked'
    OBVIOUS
  <2>3. \A a \in Ids : qk[a] # NotParked => parked[a] # NotParked /\ a # g
    BY <2>1, <2>2 DEF Reviving
  <2>4. /\ f \in Frames /\ w.frames = Append(v.frames, f) /\ f.code = code /\ f.generator = g
        /\ ~w.current.preparing /\ ~RunBy(v, g) /\ w \in Vms /\ Fine(w, E, C, o, m)
        /\ \/ vm' = Unwind(w)
           \/ vm' = Results(v, code)
           \/ vm' = w
    BY <1>2, <2>1 DEF Reviving, Revived, Shelved, Running, RunBy
  <2>5. Homes(w, rs, generators, qk, m)
    <3>1. /\ v \in Vms /\ m \in Nat /\ Homes(v, rs, generators, parked, m) /\ f \in Frames
          /\ w.frames = Append(v.frames, f) /\ SameCodes(rs, rs) /\ Comes(f.code, v.current)
          /\ generators \subseteq 1..m /\ ~w.current.preparing
          /\ f.generator \in generators \cup {Nobody}
          /\ f.generator # Nobody => ~RunBy(v, f.generator)
          /\ \A a \in Ids : qk[a] # NotParked => parked[a] # NotParked /\ a # f.generator
      BY <1>2, <1>5, <2>3, <2>4
    <3> QED BY ONLY <3>1, HomesPushes
  <2>6. Homes(Unwind(w), rs, generators, qk, m)
    BY <1>2, <2>4, <2>5, HomesUnwinds DEF Alike
  <2>7. Homes(Results(v, code), rs, generators, qk, m)
    BY <1>7, <2>3, HomesTakes
  <2> QED BY <2>2, <2>4, <2>5, <2>6, <2>7
<1> QED BY <1>5, <1>9, <1>10, <1>11 DEF Resume

(* From Rust and back.                                                     *)
LEMMA CallsComes ==
    ASSUME NEW v \in Vms, NEW call, call.code = Open(v.current, "operand")
    PROVE  Comes(call.code, v.current)
<1>1. v.current \in Code
  BY VmTypes
<1> QED BY <1>1, OpenIsCode DEF Constructs, Comes

LEMMA HomesConverts ==
    ASSUME SpineInv, HomesInv, Convert
    PROVE  HomesInv'
<1>1. PICK v, rs, E, C, o, m : AtHome(v, rs, E, C, o, m)
  BY HomesWorking DEF Convert, MayReenter, MayOpen
<1>2. /\ v = vm /\ rs = rust /\ m = made /\ v \in Vms /\ rs \in Seq(Waits) /\ m \in Nat
      /\ Homes(v, rs, generators, parked, m) /\ AtWork(v, rs, E, C, o, m)
      /\ generators \subseteq 1..m
  BY <1>1 DEF AtHome, AtWork
<1>3. PICK call, u, f, w, p, q : Converts(v, rs, o, m, call, u, f, w, p, q)
  BY <1>2, ConvertIs
<1>4. /\ call \in Waits /\ Comes(call.code, v.current) /\ f \in Frames /\ f.code = NoCode
      /\ f.generator = Nobody /\ u.frames = v.frames
      /\ w = vm' /\ q = made' /\ rust' = Append(rs, call) /\ UNCHANGED objects
      /\ w.frames = Append(u.frames, f) /\ w.current.of = q /\ q = m + 1
  BY <1>2, <1>3, CallsComes DEF Converts, Entering
<1>5. PICK y, ss : y = [v EXCEPT !.current = NoCode] /\ ss = Append(rs, call)
  OBVIOUS
<1>6. y \in Vms /\ y.frames = v.frames /\ y.current = NoCode /\ ~y.current.preparing
  BY <1>2, <1>5, NoCodeIsCode DEF Vms, NoCode
<1>7. ss \in Seq(Waits)
  BY <1>2, <1>4, <1>5
<1>8. Homes(y, ss, generators, parked, m)
  <2>1. m <= m
    BY <1>2
  <2> QED BY <1>2, <1>4, <1>5, <1>6, <2>1, HomesAsks
<1>9. \A g \in Ids : g # Nobody
  BY ActivationAssumption DEF Ids, Nobody
<1>10. Homes(w, ss, generators, parked, q)
  <2>1. /\ y \in Vms /\ m \in Nat /\ Homes(y, ss, generators, parked, m) /\ f \in Frames
        /\ w.frames = Append(y.frames, f) /\ SameCodes(ss, ss) /\ Comes(f.code, y.current)
        /\ generators \subseteq 1..m /\ q = m + 1 /\ w.current.of = m + 1
        /\ f.generator = Nobody /\ \A g \in Ids : g # f.generator
    BY <1>2, <1>4, <1>6, <1>7, <1>8, <1>9, CodesSame DEF Comes
  <2> QED BY ONLY <2>1, HomesPushes
<1> QED BY <1>4, <1>5, <1>10 DEF HomesInv, objects

LEMMA HomesCallsNative ==
    ASSUME SpineInv, HomesInv, CallNative
    PROVE  HomesInv'
<1>1. PICK v, rs, E, C, o, m : AtHome(v, rs, E, C, o, m)
  BY HomesWorking DEF CallNative, MayReenter, MayOpen
<1>2. /\ v = vm /\ rs = rust /\ m = made /\ v \in Vms /\ rs \in Seq(Waits) /\ m \in Nat
      /\ Homes(v, rs, generators, parked, m) /\ AtWork(v, rs, E, C, o, m)
  BY <1>1 DEF AtHome, AtWork
<1>3. PICK call, w, realm : Builtin(v, rs, call, w, realm)
  BY <1>2, CallNativeIs
<1>4. /\ call \in Waits /\ Comes(call.code, v.current)
      /\ w = vm' /\ rust' = Append(rs, call) /\ UNCHANGED <<own, made, objects>>
      /\ w.frames = v.frames /\ ~w.current.preparing
  BY <1>2, <1>3, CallsComes DEF Builtin, NoCode
<1>5. PICK ss : ss = Append(rs, call)
  OBVIOUS
<1>6. Homes(w, ss, generators, parked, m)
  <2>1. m <= m
    BY <1>2
  <2> QED BY <1>2, <1>4, <1>5, <2>1, HomesAsks
<1> QED BY <1>2, <1>4, <1>5, <1>6 DEF HomesInv, objects

LEMMA HomesEvals ==
    ASSUME SpineInv, HomesInv, DirectEval
    PROVE  HomesInv'
<1>1. PICK v, rs, E, C, o, m : AtHome(v, rs, E, C, o, m)
  BY HomesWorking DEF DirectEval, MayReenter, MayOpen
<1>2. /\ v = vm /\ rs = rust /\ m = made /\ v \in Vms /\ rs \in Seq(Waits) /\ m \in Nat
      /\ Homes(v, rs, generators, parked, m) /\ AtWork(v, rs, E, C, o, m)
  BY <1>1 DEF AtHome, AtWork
<1>3. PICK call, u, c, env, w, p, id : Evals(v, rs, o, m, call, u, c, env, w, p, id)
  BY <1>2, EvalIs
<1>4. /\ call \in Waits /\ Comes(call.code, v.current) /\ m <= id /\ id \in Nat
      /\ w = vm' /\ id = made' /\ rust' = Append(rs, call) /\ UNCHANGED objects
      /\ w.frames = v.frames /\ ~w.current.preparing
  BY <1>2, <1>3, CallsComes DEF Evals
<1>5. PICK ss : ss = Append(rs, call)
  OBVIOUS
<1>6. Homes(w, ss, generators, parked, id)
  BY <1>2, <1>4, <1>5, HomesAsks
<1> QED BY <1>4, <1>5, <1>6 DEF HomesInv, objects

(* The code of a Rust call comes back.                                     *)
LEMMA HomesReturns ==
    ASSUME NEW v, NEW rs, NEW n, NEW call, NEW u, NEW ts, NEW o, NEW m, NEW gs, NEW pk,
           Returns(v, rs, n, call, u, ts, o, m, gs, pk), Homes(v, rs, gs, pk, m),
           NEW w, w.frames = v.frames, w.current = call.code
    PROVE  Homes(w, ts, gs, pk, m)
<1>1. /\ n = Len(rs) /\ n \in Nat /\ call = rs[n] /\ call \in Waits /\ rs = Append(ts, call)
      /\ ts \in Seq(Waits) /\ rs \in Seq(Waits) /\ v \in Vms
  BY DEF Returns
<1>2. v.frames \in Seq(Frames) /\ Len(v.frames) \in Nat /\ Len(ts) \in Nat
  BY <1>1, VmTypes
<1>3. Len(rs) = Len(ts) + 1 /\ \A k \in 1..Len(ts) : rs[k] = ts[k]
  <2>1. ts \in Seq(Waits) /\ call \in Waits /\ rs = Append(ts, call)
    BY <1>1
  <2> QED BY ONLY <2>1, Extended
<1>4. FewerFrames(v, w)
  BY <1>2 DEF FewerFrames
<1>5. \A k \in 1..Len(ts) : Comes(ts[k].code, rs[k].code)
  BY <1>3 DEF Comes
<1>6. n \in Len(ts) + 1..Len(rs) /\ Len(ts) <= Len(rs)
  BY <1>1, <1>2, <1>3
<1>7. Comes(w.current, rs[n].code)
  BY <1>1 DEF Comes
<1>8. Part(v, rs, w, ts)
  BY <1>1, <1>4, <1>5, <1>6, <1>7 DEF Part
<1> QED BY <1>8, HomesPart

LEMMA HomesFails ==
    ASSUME NEW v, NEW rs, NEW n, NEW call, NEW u, NEW ts, NEW o, NEW m, NEW gs, NEW pk,
           Returns(v, rs, n, call, u, ts, o, m, gs, pk), Homes(v, rs, gs, pk, m),
           NEW x \in Vms, Alike(u, x), x.current = call.code
    PROVE  Homes(Unwind(x), ts, gs, pk, m)
<1>1. /\ Spine(u, ts, o, m, gs, pk) /\ u.current # NoCode /\ x.current.of = u.current.of
      /\ u.frames = v.frames /\ ts \in Seq(Waits) /\ m \in Nat
      /\ call.code = Open(u.current, "operand") /\ u.current \in Code
  BY DEF Returns
<1>2. PICK E, C : E = EntryOf(ts, Len(ts)) /\ C = ChunkOf(ts, Len(ts))
  OBVIOUS
<1>3. E \in Nat /\ C \in BOOLEAN /\ Fine(u, E, C, o, m)
  BY <1>1, <1>2, TopFine
<1>4. x.frames = v.frames
  BY <1>1 DEF Alike
<1>5. Homes(x, ts, gs, pk, m)
  BY <1>4, HomesReturns
<1>6. u.current.preparing => x.current.preparing
  BY <1>1, OpenIsCode DEF Constructs
<1> QED BY <1>1, <1>3, <1>5, <1>6, HomesUnwinds

LEMMA HomesNativeAnswers ==
    ASSUME SpineInv, HomesInv, NativeAnswers
    PROVE  HomesInv'
<1>1. PICK n, call, u, ts : /\ Returns(vm, rust, n, call, u, ts, own, made, generators, parked)
                            /\ ~call.running /\ call = Last(rust)
  BY NativeReturning DEF NativeAnswers
<1>2. vm \in Vms /\ ts = Front(rust) /\ call \in Waits
  BY <1>1 DEF Returns
<1>3. PICK w, x : w = vm' /\ x = Answered(vm, call)
  OBVIOUS
<1>4. /\ w = [x EXCEPT !.regs.realm = call.realm] /\ rust' = ts
      /\ UNCHANGED <<own, made, generators, parked>>
  BY <1>1, <1>2, <1>3 DEF NativeAnswers, objects
<1>5. x \in Vms /\ x.current = call.code /\ x.frames = vm.frames
  BY <1>1, <1>2, <1>3, AnsweredIs
<1>6. call.realm \in Realms
  BY <1>2 DEF Waits
<1>7. w.current = call.code /\ w.frames = vm.frames
  BY <1>4, <1>5, <1>6, RealmBack DEF Alike
<1>8. Homes(w, ts, generators, parked, made)
  BY <1>1, <1>7, HomesReturns DEF HomesInv
<1> QED BY <1>3, <1>4, <1>8 DEF HomesInv

LEMMA HomesNativeThrows ==
    ASSUME SpineInv, HomesInv, NativeThrows
    PROVE  HomesInv'
<1>1. PICK n, call, u, ts : /\ Returns(vm, rust, n, call, u, ts, own, made, generators, parked)
                            /\ ~call.running /\ call = Last(rust)
  BY NativeReturning DEF NativeThrows
<1>2. /\ vm \in Vms /\ ts = Front(rust) /\ call \in Waits /\ vm.floor = call.floor
      /\ u.frames = vm.frames /\ u.handlers = vm.handlers /\ u.floor = call.floor
      /\ ts \in Seq(Waits)
  BY <1>1 DEF Returns
<1>3. PICK x \in Vms : /\ Failed(vm, call) = Unwind(x)
                       /\ x.stack = u.stack /\ x.current = call.code
                       /\ x.frames = vm.frames /\ x.handlers = vm.handlers
                       /\ x.floor = vm.floor
  BY <1>1, <1>2, FailedIs
<1>4. PICK y, w : y = Unwind(x) /\ w = vm'
  OBVIOUS
<1>5. Alike(u, x)
  BY <1>2, <1>3 DEF Alike
<1>6. Spine(y, ts, own, made, generators, parked)
  BY <1>1, <1>3, <1>4, <1>5, SpineFails
<1>7. Homes(y, ts, generators, parked, made)
  BY <1>1, <1>3, <1>4, <1>5, HomesFails DEF HomesInv
<1>8. /\ w = [y EXCEPT !.regs.realm = call.realm] /\ rust' = ts
      /\ UNCHANGED <<own, made, generators, parked>>
  BY <1>1, <1>2, <1>3, <1>4 DEF NativeThrows, objects
<1>9. call.realm \in Realms /\ y \in Vms
  BY <1>2, <1>6 DEF Waits, Spine
<1>10. w.frames = y.frames /\ w.current = y.current /\ y.frames \in Seq(Frames)
  BY <1>8, <1>9, RealmBack, VmTypes DEF Alike
<1>11. Homes(w, ts, generators, parked, made)
  BY <1>2, <1>7, <1>10, CodesSame, HomesSame DEF Comes
<1> QED BY <1>4, <1>8, <1>11 DEF HomesInv

(* The call that waited is the one in control, or the other way round.     *)
LEMMA CodesReplaced ==
    ASSUME NEW v, NEW rs, NEW n, NEW call, NEW u, NEW ts, NEW o, NEW m, NEW gs, NEW pk,
           Returns(v, rs, n, call, u, ts, o, m, gs, pk),
           NEW d \in Waits, d.code = call.code
    PROVE  SameCodes(rs, Append(ts, d))
<1>1. /\ n = Len(rs) /\ n \in Nat /\ call = rs[n] /\ call \in Waits /\ rs = Append(ts, call)
      /\ ts \in Seq(Waits) /\ rs \in Seq(Waits)
  BY DEF Returns
<1>2. PICK ss : ss = Append(ts, d)
  OBVIOUS
<1>3. /\ Len(rs) = Len(ts) + 1 /\ rs[Len(ts) + 1] = call /\ \A k \in 1..Len(ts) : rs[k] = ts[k]
  <2>1. ts \in Seq(Waits) /\ call \in Waits /\ rs = Append(ts, call)
    BY <1>1
  <2> QED BY ONLY <2>1, Extended
<1>4. /\ ss \in Seq(Waits) /\ Len(ss) = Len(ts) + 1 /\ ss[Len(ts) + 1] = d
      /\ \A k \in 1..Len(ts) : ss[k] = ts[k]
  <2>1. ts \in Seq(Waits) /\ d \in Waits /\ ss = Append(ts, d)
    BY <1>1, <1>2
  <2> QED BY ONLY <2>1, Extended
<1>5. Len(ts) \in Nat
  BY <1>1
<1>6. \A k \in 1..Len(rs) : ss[k].code = rs[k].code
  BY <1>3, <1>4, <1>5
<1> QED BY <1>1, <1>2, <1>3, <1>4, <1>6 DEF SameCodes, Comes

LEMMA HomesEnds ==
    ASSUME SpineInv, HomesInv, ExecutionEnds
    PROVE  HomesInv'
<1>1. PICK n, call, u, ts, b : Ending(n, call, u, ts, b)
  BY EndingIs
<1>2. Returns(vm, rust, n, call, u, ts, own, made, generators, parked)
  BY <1>1 DEF Ending
<1>3. /\ vm \in Vms /\ call \in Waits /\ ts = Front(rust) /\ rust \in Seq(Waits)
      /\ u.frames = vm.frames /\ u.handlers = vm.handlers /\ call = rust[n] /\ n = Len(rust)
      /\ b \in Vms /\ b.floor = u.floor /\ b.stack = u.stack
      /\ b.frames = u.frames /\ b.handlers = u.handlers /\ b.current = NoCode
      /\ UNCHANGED <<own, made, generators, parked>>
  BY <1>1 DEF Ending
<1>4. IF call.kind = "native"
      THEN /\ vm' = b
           /\ rust' = [rust EXCEPT ![Len(rust)].running = FALSE,
                                   ![Len(rust)].failed = vm.escaped]
      ELSE /\ rust' = ts
           /\ vm' = IF vm.escaped THEN Failed(b, call) ELSE Answered(b, call)
  BY <1>1 DEF Ending
<1>5. rust # <<>>
  BY DEF ExecutionEnds
<1>6. CASE call.kind = "native"
  <2>1. PICK d, ss : /\ d = [call EXCEPT !.running = FALSE, !.failed = vm.escaped]
                     /\ ss = rust'
    OBVIOUS
  <2>2. d \in Waits /\ d.code = call.code
    <3>1. vm.escaped \in BOOLEAN
      BY <1>3 DEF Vms
    <3> QED BY <1>3, <2>1, <3>1 DEF Waits
  <2>3. ss = Append(ts, d)
    <3>1. n \in DOMAIN rust
      BY <1>3, <1>5
    <3>2. ss = [rust EXCEPT ![n] = d]
      BY <1>3, <1>4, <1>6, <2>1, <3>1
    <3>3. [rust EXCEPT ![Len(rust)] = d] = Append(Front(rust), d)
      BY <1>3, <1>5, <2>2, LastReplaced
    <3> QED BY <1>3, <3>2, <3>3
  <2>4. SameCodes(rust, ss)
    BY <1>2, <2>2, <2>3, CodesReplaced
  <2>5. Homes(b, ss, generators, parked, made)
    <3>1. vm.frames \in Seq(Frames) /\ b.frames = vm.frames /\ ~b.current.preparing
      BY <1>3, VmTypes DEF NoCode
    <3> QED BY <2>4, <3>1, HomesSame DEF HomesInv, Comes
  <2> QED BY <1>3, <1>4, <1>6, <2>1, <2>5 DEF HomesInv
<1>7. CASE call.kind # "native"
  <2>1. PICK x, y : x = Answered(b, call) /\ y = Failed(b, call)
    OBVIOUS
  <2>2. Homes(x, ts, generators, parked, made)
    <3>1. x.current = call.code /\ x.frames = vm.frames
      BY <1>2, <1>3, <2>1, AnsweredIs
    <3> QED BY <1>2, <3>1, HomesReturns DEF HomesInv
  <2>3. Homes(y, ts, generators, parked, made)
    <3>1. PICK z \in Vms : /\ Failed(b, call) = Unwind(z)
                           /\ z.stack = u.stack /\ z.current = call.code
                           /\ z.frames = b.frames /\ z.handlers = b.handlers
                           /\ z.floor = b.floor
      BY <1>2, <1>3, FailedIs
    <3>2. Alike(u, z)
      BY <1>3, <3>1 DEF Alike
    <3> QED BY <1>2, <2>1, <3>1, <3>2, HomesFails DEF HomesInv
  <2>4. rust' = ts /\ (vm' = x \/ vm' = y)
    BY <1>4, <1>7, <2>1
  <2> QED BY <1>3, <2>2, <2>3, <2>4 DEF HomesInv
<1> QED BY <1>6, <1>7

LEMMA HomesCallsBack ==
    ASSUME SpineInv, HomesInv, CallBack
    PROVE  HomesInv'
<1>1. PICK n, call, u, ts, x, d, w, p, q : CallsBack(n, call, u, ts, x, d, w, p, q)
  BY CallBackIs
<1>2. /\ Returns(vm, rust, n, call, u, ts, own, made, generators, parked)
      /\ Spine(u, ts, own, made, generators, parked)
      /\ made \in Ids /\ made \in Nat /\ Raised(u, x) /\ x \in Vms
      /\ d \in Waits /\ d.code = call.code /\ x.frames = vm.frames /\ x.current = NoCode
      /\ rust' = Append(ts, d) /\ w = vm' /\ p = own' /\ q = made'
      /\ generators \subseteq 1..made
  BY <1>1 DEF CallsBack, Raised, Spine, Returns, Waits
<1>3. PICK ss : ss = Append(ts, d)
  OBVIOUS
<1>4. SameCodes(rust, ss) /\ ss \in Seq(Waits) /\ SameCodes(ss, ss)
  <2>1. SameCodes(rust, ss)
    BY <1>2, <1>3, CodesReplaced
  <2> QED BY <2>1, CodesSame DEF SameCodes
<1>5. Homes(x, ss, generators, parked, made) /\ Comes(NoCode, x.current)
  <2>1. x.frames \in Seq(Frames) /\ vm.frames = x.frames /\ ~x.current.preparing
    BY <1>2, VmTypes DEF NoCode
  <2>2. Homes(x, ss, generators, parked, made)
    BY <1>4, <2>1, HomesSame DEF HomesInv, Comes
  <2> QED BY <2>2 DEF Comes, NoCode
<1>6. ASSUME NEW f, Entering(x, f, w, own, made, p, q), UNCHANGED objects,
             f \in Frames, f.code = NoCode, f.generator = Nobody
      PROVE  HomesInv'
  <2>1. w.frames = Append(x.frames, f) /\ w.current.of = q /\ q = made + 1
    BY <1>6 DEF Entering
  <2>2. \A g \in Ids : g # Nobody
    BY ActivationAssumption DEF Ids, Nobody
  <2>3. /\ x \in Vms /\ made \in Nat /\ Homes(x, ss, generators, parked, made) /\ f \in Frames
        /\ w.frames = Append(x.frames, f) /\ SameCodes(ss, ss) /\ Comes(f.code, x.current)
        /\ generators \subseteq 1..made /\ q = made + 1 /\ w.current.of = made + 1
        /\ f.generator = Nobody /\ \A g \in Ids : g # f.generator
    BY <1>2, <1>4, <1>5, <1>6, <2>1, <2>2
  <2>4. Homes(w, ss, generators, parked, q)
    BY ONLY <2>3, HomesPushes
  <2> QED BY <1>2, <1>3, <1>6, <2>4 DEF HomesInv, objects
<1>7. ASSUME NEW g \in generators, NEW how, Resume(x, NoCode, g, how)
      PROVE  HomesInv'
  <2>1. own' = own /\ made' = made /\ generators' = generators
    BY <1>7 DEF Resume
  <2>2. Homes(Unwind(x), ss, generators, parked, made)
    BY <1>2, <1>4, <1>5, HomesEscapes
  <2>3. Homes(Results(x, NoCode), ss, generators, parked, made)
    <3>1. PICK z : z = Results(x, NoCode)
      OBVIOUS
    <3>2. z.frames = x.frames /\ z.current = NoCode /\ x.frames \in Seq(Frames)
      BY <1>2, <3>1, ResultsAre, NoCodeIsCode, VmTypes
    <3>3. Homes(z, ss, generators, parked, made)
      BY <1>4, <1>5, <3>2, HomesSame
    <3> QED BY <3>1, <3>3
  <2>4. SUFFICES Homes(vm', ss, generators, parked', made)
    BY <1>2, <1>3, <2>1 DEF HomesInv
  <2>5. CASE ResumeRunning(x, g)
    BY <2>2, <2>5 DEF ResumeRunning
  <2>6. CASE ResumeFinished(x, NoCode, g, how)
    BY <2>2, <2>3, <2>6 DEF ResumeFinished
  <2>7. CASE ResumeParked(x, NoCode, g, how)
    <3>1. PICK y, k, f : Rejoining(x, own, made, g, how, y, k, f)
      BY <1>2, <2>7, RejoinIs
    <3>2. PICK qk, top : qk = parked' /\ top = Len(x.stack)
      OBVIOUS
    <3>3. \A a \in Ids : qk[a] # NotParked => parked[a] # NotParked /\ a # g
      BY <3>1, <3>2 DEF Rejoining
    <3>4. /\ f \in Frames /\ y.frames = Append(x.frames, f) /\ f.code = NoCode /\ f.generator = g
          /\ ~y.current.preparing /\ ~RunBy(x, g) /\ y \in Vms /\ Fine(y, top, FALSE, own, made)
          /\ \/ vm' = Unwind(y)
             \/ vm' = Results(x, NoCode)
             \/ vm' = y
      BY <1>2, <3>1, <3>2 DEF Rejoining, Revived, Shelved, Running, RunBy
    <3>5. Homes(y, ss, generators, qk, made)
      <4>1. /\ x \in Vms /\ made \in Nat /\ Homes(x, ss, generators, parked, made) /\ f \in Frames
            /\ y.frames = Append(x.frames, f) /\ SameCodes(ss, ss) /\ Comes(f.code, x.current)
            /\ generators \subseteq 1..made /\ ~y.current.preparing
            /\ f.generator \in generators \cup {Nobody}
            /\ f.generator # Nobody => ~RunBy(x, f.generator)
            /\ \A a \in Ids : qk[a] # NotParked => parked[a] # NotParked /\ a # f.generator
        BY <1>2, <1>4, <1>5, <3>3, <3>4
      <4> QED BY ONLY <4>1, HomesPushes
    <3>6. Homes(Unwind(y), ss, generators, qk, made)
      <4>1. PICK C \in BOOLEAN : C = FALSE
        OBVIOUS
      <4>2. Fine(y, top, C, own, made) /\ top \in Nat
        BY <1>2, <3>2, <3>4, <4>1, VmTypes
      <4> QED BY <1>2, <1>4, <3>4, <3>5, <4>2, HomesUnwinds DEF Alike
    <3>7. Homes(Results(x, NoCode), ss, generators, qk, made)
      BY <2>3, <3>3, HomesTakes
    <3> QED BY <3>2, <3>4, <3>5, <3>6, <3>7
  <2> QED BY <1>7, <2>5, <2>6, <2>7 DEF Resume
<1> QED BY <1>1, <1>6, <1>7 DEF CallsBack

LEMMA HomesBegin ==
    ASSUME Init
    PROVE  HomesInv
<1>1. /\ vm.frames = <<>> /\ rust = <<>> /\ ~vm.current.preparing /\ generators = {}
      /\ \A g \in Ids : parked[g] = NotParked
  BY DEF Init, NoCode
<1> QED BY <1>1 DEF HomesInv, Homes, OneHome, Preparations, Ready, Apart

LEMMA HomesStay ==
    ASSUME SpineInv, HomesInv, [Next]_vars
    PROVE  HomesInv'
<1>1. CASE UNCHANGED vars
  BY <1>1 DEF vars, objects, HomesInv
<1>2. CASE Next
  BY <1>2, HomesStep, HomesThrow, HomesCall, HomesTailCall, HomesReturn, HomesChunkEnds,
     HomesStarts, HomesYields, HomesResumes, HomesConverts, HomesCallsNative, HomesCallsBack,
     HomesNativeAnswers, HomesNativeThrows, HomesEvals, HomesEnds DEF Next
<1> QED BY <1>1, <1>2

LEMMA HomesAreOne ==
    ASSUME SpineInv, HomesInv
    PROVE  GeneratorHasOneHome
<1>1. SUFFICES ASSUME NEW g \in Ids
               PROVE  /\ parked[g] # NotParked => ~Running(g) /\ parked[g].code.of = g
                      /\ Cardinality({i \in DOMAIN vm.frames : vm.frames[i].generator = g}) <= 1
  BY DEF GeneratorHasOneHome
<1>2. parked[g] # NotParked => ~Running(g)
  BY DEF HomesInv, Homes, OneHome, RunBy, Running
<1>3. parked[g] # NotParked => parked[g].code.of = g
  BY DEF SpineInv, Spine, Shelved
<1>4. PICK S : S = {i \in DOMAIN vm.frames : vm.frames[i].generator = g}
  OBVIOUS
<1>5. g # Nobody
  BY ActivationAssumption DEF Ids, Nobody
<1>6. \A i, j \in S : i = j
  BY <1>4, <1>5 DEF HomesInv, Homes, OneHome
<1>7. Cardinality(S) <= 1
  <2>1. CASE S = {}
    BY <2>1, FS_EmptySet
  <2>2. CASE S # {}
    <3>1. PICK i \in S : S = {i}
      BY <1>6, <2>2
    <3>2. Cardinality({i}) = 1
      BY FS_Singleton, Zenon
    <3>3. Cardinality(S) = 1
      BY <3>1, <3>2, Zenon
    <3> QED BY <3>3
  <2> QED BY <2>1, <2>2
<1> QED BY <1>2, <1>3, <1>4, <1>7

(* A generator's execution cannot be entered twice: it is parked, or run by *)
(* one frame, or over.  By induction over SpineInv and HomesInv, which adds *)
(* that the frames and the parked share out the generators there are, and   *)
(* that what is still being prepared is none of them and in one place.      *)
THEOREM GeneratorsStayHome == Spec => []GeneratorHasOneHome
<1>1. Init => SpineInv /\ HomesInv
  BY SpineStarts, HomesBegin
<1>2. SpineInv /\ HomesInv /\ [Next]_vars => SpineInv' /\ HomesInv'
  BY SpineStays, HomesStay
<1>3. SpineInv /\ HomesInv => GeneratorHasOneHome
  BY HomesAreOne
<1> QED BY <1>1, <1>2, <1>3, PTL DEF Spec

-----------------------------------------------------------------------------
(* Registers, until something is thrown.                                   *)

(* What the activation they serve was entered with.                        *)
RegsFit(regs, id, o) ==
    /\ regs.var = o[id].regs.var
    /\ regs.this = o[id].regs.this
    /\ regs.target = o[id].regs.target
    /\ o[id].kind \notin {"generator", "eval"} => regs.realm = o[id].regs.realm
Fits(regs, id, o, m) == id \in 1..m /\ RegsFit(regs, id, o)

(* What an execution must leave for the Rust call that waits for it: the   *)
(* registers that the call does not put back itself.                       *)
GivesBack(regs, call) ==
    /\ regs.target = call.regs.target
    /\ call.kind # "native" => regs.realm = call.realm
    /\ call.kind = "eval" => regs.this = call.regs.this

(* The registers of the instruction that made a Rust call.                 *)
CallRegs(v, call) == [(IF call.running THEN call.regs ELSE v.regs) EXCEPT !.realm = call.realm]

(* The k-th Rust call's execution has its frames above FloorAt, up to      *)
(* CeilingAt, and ends with the registers that the lowest of them saved.   *)
FloorAt(v, rs, k) == IF k < Len(rs) THEN rs[k + 1].floor.frames ELSE v.floor.frames
CeilingAt(v, rs, k) ==
    IF k < Len(rs) /\ rs[k + 1].running THEN FloorAt(v, rs, k + 1) ELSE Len(v.frames)
EndsWith(v, rs, k) ==
    IF FloorAt(v, rs, k) < CeilingAt(v, rs, k) THEN v.frames[FloorAt(v, rs, k) + 1].regs
    ELSE IF k < Len(rs) THEN CallRegs(v, rs[k + 1])
    ELSE v.regs

FramesOwn(v, o, m) ==
    \A i \in DOMAIN v.frames :
        v.frames[i].code # NoCode => Fits(v.frames[i].regs, v.frames[i].code.of, o, m)
CallsOwn(v, rs, o, m) ==
    \A k \in DOMAIN rs : Fits(CallRegs(v, rs[k]), rs[k].code.of, o, m)
CallsGivenBack(v, rs) ==
    \A k \in DOMAIN rs : rs[k].running => GivesBack(EndsWith(v, rs, k), rs[k])
ShelvesOwn(pk, o) ==
    \A g \in Ids : pk[g] # NotParked =>
        /\ o[g].kind = "generator"
        /\ pk[g].var = o[g].regs.var
        /\ pk[g].this = o[g].regs.this
        /\ pk[g].target = o[g].regs.target

Giving(v, rs, o, m, pk) ==
    /\ FramesOwn(v, o, m)
    /\ v.current # NoCode => Fits(v.regs, v.current.of, o, m)
    /\ CallsOwn(v, rs, o, m)
    /\ CallsGivenBack(v, rs)
    /\ ShelvesOwn(pk, o)

GivingInv == ~vm.thrown => Giving(vm, rust, own, made, parked)

SameRegs(r, s) == r.var = s.var /\ r.this = s.this /\ r.target = s.target /\ r.realm = s.realm

LEMMA SameFits ==
    ASSUME NEW r, NEW s, SameRegs(r, s), NEW id, NEW o, NEW m, Fits(r, id, o, m)
    PROVE  Fits(s, id, o, m)
BY DEF SameRegs, Fits, RegsFit

LEMMA SameGives ==
    ASSUME NEW r, NEW s, SameRegs(r, s), NEW call, GivesBack(r, call)
    PROVE  GivesBack(s, call)
BY DEF SameRegs, GivesBack

LEMMA SameRelation ==
    ASSUME NEW r, NEW s
    PROVE  SameRegs(r, r) /\ (SameRegs(r, s) => SameRegs(s, r))
BY DEF SameRegs

(* The Rust calls all wait, over floors that rise to the machine's.        *)
Waiters(v, rs) ==
    /\ v \in Vms /\ rs \in Seq(Waits)
    /\ \A k \in DOMAIN rs : rs[k].running /\ rs[k].floor.frames <= v.floor.frames
    /\ v.floor.frames <= Len(v.frames)

LEMMA WaitersTypes ==
    ASSUME NEW v, NEW rs, Waiters(v, rs)
    PROVE  /\ Len(rs) \in Nat /\ DOMAIN rs = 1..Len(rs)
           /\ v.frames \in Seq(Frames) /\ Len(v.frames) \in Nat
           /\ v.floor.frames \in Nat /\ v.floor.frames <= Len(v.frames)
           /\ \A k \in 1..Len(rs) : /\ rs[k].running /\ rs[k].floor.frames \in Nat
                                    /\ rs[k].floor.frames <= v.floor.frames
<1>1. v \in Vms /\ rs \in Seq(Waits)
  BY DEF Waiters
<1>2. \A k \in DOMAIN rs : rs[k].floor.frames \in Nat
  BY <1>1, WaitTypes
<1>3. Len(rs) \in Nat /\ DOMAIN rs = 1..Len(rs)
  BY <1>1
<1> QED BY <1>1, <1>2, <1>3, VmTypes DEF Waiters

LEMMA SpineWaiters ==
    ASSUME NEW v, NEW rs, NEW o, NEW m, NEW gs, NEW pk, Spine(v, rs, o, m, gs, pk),
           ~InControl(rs)
    PROVE  Waiters(v, rs)
<1>1. /\ v \in Vms /\ Calling(v, rs) /\ rs \in Seq(Waits)
      /\ \A k \in DOMAIN rs : rs[k].floor.frames <= v.floor.frames
  BY DEF Spine, Calling
<1>2. MarksInOrder(v, EntryOf(rs, Len(rs)))
  BY TopMarks
<1>3. v.floor.frames <= Len(v.frames)
  BY <1>2 DEF MarksInOrder
<1> QED BY <1>1, <1>3, AllRunning DEF Waiters

(* Below the execution that runs, nothing changes while its floor stands.  *)
LEMMA EndsBelow ==
    ASSUME NEW v, NEW rs, Waiters(v, rs), NEW w, w.floor = v.floor,
           \A i \in 1..v.floor.frames : w.frames[i] = v.frames[i],
           NEW k \in 1..Len(rs), k # Len(rs)
    PROVE  EndsWith(w, rs, k) = EndsWith(v, rs, k)
<1>1. /\ k < Len(rs) /\ k + 1 \in 1..Len(rs) /\ Len(rs) \in Nat
      /\ rs[k + 1].running
  BY WaitersTypes
<1>2. PICK F, T : F = FloorAt(v, rs, k) /\ T = CeilingAt(v, rs, k)
  OBVIOUS
<1>3. F = FloorAt(w, rs, k) /\ T = CeilingAt(w, rs, k)
  BY <1>1, <1>2 DEF FloorAt, CeilingAt
<1>4. F \in Nat /\ T \in Nat /\ T <= v.floor.frames /\ v.floor.frames \in Nat
  <2>1. F = rs[k + 1].floor.frames
    BY <1>1, <1>2 DEF FloorAt
  <2>2. T = IF k + 1 < Len(rs) THEN rs[k + 2].floor.frames ELSE v.floor.frames
    <3>1. (k + 1) + 1 = k + 2
      BY <1>1
    <3> QED BY <1>1, <1>2, <3>1 DEF FloorAt, CeilingAt
  <2>3. k + 1 < Len(rs) => k + 2 \in 1..Len(rs)
    BY <1>1
  <2> QED BY <1>1, <2>1, <2>2, <2>3, WaitersTypes
<1>5. F < T => w.frames[F + 1] = v.frames[F + 1]
  <2>1. F < T => F + 1 \in 1..v.floor.frames
    BY <1>4
  <2> QED BY <2>1
<1>6. CallRegs(w, rs[k + 1]) = CallRegs(v, rs[k + 1])
  BY <1>1 DEF CallRegs
<1> QED BY <1>1, <1>2, <1>3, <1>5, <1>6 DEF EndsWith

LEMMA CallsOwnStay ==
    ASSUME NEW v, NEW rs, Waiters(v, rs), NEW o, NEW m, CallsOwn(v, rs, o, m), NEW w
    PROVE  CallsOwn(w, rs, o, m)
BY DEF CallsOwn, CallRegs, Waiters

(* The execution that runs goes on, with the same frames.                  *)
LEMMA GivingSame ==
    ASSUME NEW v, NEW rs, Waiters(v, rs), NEW o, NEW m, NEW pk, Giving(v, rs, o, m, pk),
           NEW w, w.frames = v.frames, w.floor = v.floor, SameRegs(w.regs, v.regs),
           w.current # NoCode => v.current # NoCode /\ w.current.of = v.current.of
    PROVE  Giving(w, rs, o, m, pk)
<1>1. FramesOwn(w, o, m) /\ CallsOwn(w, rs, o, m)
  BY CallsOwnStay DEF Giving, FramesOwn
<1>2. w.current # NoCode => Fits(w.regs, w.current.of, o, m)
  BY SameFits, SameRelation DEF Giving
<1>3. ASSUME NEW k \in DOMAIN rs
      PROVE  GivesBack(EndsWith(w, rs, k), rs[k])
  <2>1. GivesBack(EndsWith(v, rs, k), rs[k]) /\ k \in 1..Len(rs) /\ Len(rs) \in Nat
    BY WaitersTypes DEF Giving, CallsGivenBack
  <2>2. CASE k # Len(rs)
    BY <2>1, <2>2, EndsBelow
  <2>3. CASE k = Len(rs)
    <3>1. PICK F, T : F = FloorAt(v, rs, k) /\ T = CeilingAt(v, rs, k)
      OBVIOUS
    <3>2. F = FloorAt(w, rs, k) /\ T = CeilingAt(w, rs, k) /\ ~(k < Len(rs))
      BY <2>1, <2>3, <3>1 DEF FloorAt, CeilingAt
    <3>3. \/ EndsWith(w, rs, k) = EndsWith(v, rs, k)
          \/ EndsWith(w, rs, k) = w.regs /\ EndsWith(v, rs, k) = v.regs
      BY <3>1, <3>2 DEF EndsWith
    <3> QED BY <2>1, <3>3, SameGives, SameRelation
  <2> QED BY <2>2, <2>3
<1>4. CallsGivenBack(w, rs)
  BY <1>3 DEF CallsGivenBack
<1> QED BY <1>1, <1>2, <1>4 DEF Giving

(* A frame more: it keeps the registers that were the machine's, and the   *)
(* machine takes those of the activation it enters.                        *)
LEMMA GivingPushes ==
    ASSUME NEW v, NEW rs, Waiters(v, rs), NEW o, NEW m, NEW pk, Giving(v, rs, o, m, pk),
           NEW w, NEW f, OneFrameMore(v, w, f), w.floor = v.floor, SameRegs(f.regs, v.regs),
           f.code # NoCode => v.current # NoCode /\ f.code.of = v.current.of,
           w.current # NoCode => Fits(w.regs, w.current.of, o, m)
    PROVE  Giving(w, rs, o, m, pk)
<1>1. PICK n \in Nat : /\ Len(v.frames) = n /\ Len(w.frames) = n + 1
                       /\ DOMAIN v.frames = 1..n /\ DOMAIN w.frames = 1..n + 1
                       /\ w.frames[n + 1] = f /\ \A i \in 1..n : w.frames[i] = v.frames[i]
  BY FrameAdded
<1>2. v.floor.frames \in Nat /\ v.floor.frames <= n
  BY <1>1, WaitersTypes
<1>3. FramesOwn(w, o, m)
  <2>1. \A i \in 1..n + 1 : i \in 1..n \/ i = n + 1
    BY <1>1
  <2>2. f.code # NoCode => Fits(f.regs, f.code.of, o, m)
    BY SameFits, SameRelation DEF Giving
  <2> QED BY <1>1, <2>1, <2>2 DEF Giving, FramesOwn
<1>4. CallsOwn(w, rs, o, m)
  BY CallsOwnStay DEF Giving
<1>5. ASSUME NEW k \in DOMAIN rs
      PROVE  GivesBack(EndsWith(w, rs, k), rs[k])
  <2>1. GivesBack(EndsWith(v, rs, k), rs[k]) /\ k \in 1..Len(rs) /\ Len(rs) \in Nat
    BY WaitersTypes DEF Giving, CallsGivenBack
  <2>2. CASE k # Len(rs)
    <3>1. \A i \in 1..v.floor.frames : w.frames[i] = v.frames[i]
      BY <1>1, <1>2
    <3> QED BY <2>1, <2>2, <3>1, EndsBelow
  <2>3. CASE k = Len(rs)
    <3>1. PICK F \in Nat : F = v.floor.frames
      BY <1>2
    <3>2. /\ FloorAt(v, rs, k) = F /\ FloorAt(w, rs, k) = F
          /\ CeilingAt(v, rs, k) = n /\ CeilingAt(w, rs, k) = n + 1 /\ ~(k < Len(rs))
      BY <1>1, <2>1, <2>3, <3>1 DEF FloorAt, CeilingAt
    <3>3. CASE F < n
      <4>1. F < n + 1 /\ w.frames[F + 1] = v.frames[F + 1]
        BY <1>1, <3>3
      <4> QED BY <2>1, <3>2, <3>3, <4>1 DEF EndsWith
    <3>4. CASE ~(F < n)
      <4>1. F < n + 1 /\ F + 1 = n + 1
        BY <1>1, <1>2, <3>1, <3>4
      <4>2. EndsWith(w, rs, k) = f.regs /\ EndsWith(v, rs, k) = v.regs
        BY <1>1, <3>2, <3>4, <4>1 DEF EndsWith
      <4> QED BY <2>1, <4>2, SameGives, SameRelation
    <3> QED BY <3>3, <3>4
  <2> QED BY <2>2, <2>3
<1>6. CallsGivenBack(w, rs)
  BY <1>5 DEF CallsGivenBack
<1> QED BY <1>3, <1>4, <1>6 DEF Giving

(* A frame less: its registers are the machine's, and its code goes on.    *)
LEMMA GivingPops ==
    ASSUME NEW v, NEW rs, Waiters(v, rs), NEW o, NEW m, NEW pk, Giving(v, rs, o, m, pk),
           NEW w, NEW f, OneFrameMore(w, v, f), w.floor = v.floor, w.regs = f.regs,
           w.current = f.code, v.floor.frames < Len(v.frames)
    PROVE  Giving(w, rs, o, m, pk)
<1>1. PICK n \in Nat : /\ Len(w.frames) = n /\ Len(v.frames) = n + 1
                       /\ DOMAIN w.frames = 1..n /\ DOMAIN v.frames = 1..n + 1
                       /\ v.frames[n + 1] = f /\ \A i \in 1..n : v.frames[i] = w.frames[i]
  BY FrameAdded
<1>2. v.floor.frames \in Nat /\ v.floor.frames <= n
  BY <1>1, WaitersTypes
<1>3. FramesOwn(w, o, m)
  <2>1. \A i \in 1..n : i \in 1..n + 1
    BY <1>1
  <2> QED BY <1>1, <2>1 DEF Giving, FramesOwn
<1>4. w.current # NoCode => Fits(w.regs, w.current.of, o, m)
  <2>1. n + 1 \in 1..n + 1
    BY <1>1
  <2> QED BY <1>1, <2>1 DEF Giving, FramesOwn
<1>5. CallsOwn(w, rs, o, m)
  BY CallsOwnStay DEF Giving
<1>6. ASSUME NEW k \in DOMAIN rs
      PROVE  GivesBack(EndsWith(w, rs, k), rs[k])
  <2>1. GivesBack(EndsWith(v, rs, k), rs[k]) /\ k \in 1..Len(rs) /\ Len(rs) \in Nat
    BY WaitersTypes DEF Giving, CallsGivenBack
  <2>2. CASE k # Len(rs)
    <3>1. \A i \in 1..v.floor.frames : w.frames[i] = v.frames[i]
      BY <1>1, <1>2
    <3> QED BY <2>1, <2>2, <3>1, EndsBelow
  <2>3. CASE k = Len(rs)
    <3>1. PICK F \in Nat : F = v.floor.frames
      BY <1>2
    <3>2. /\ FloorAt(v, rs, k) = F /\ FloorAt(w, rs, k) = F
          /\ CeilingAt(v, rs, k) = n + 1 /\ CeilingAt(w, rs, k) = n /\ ~(k < Len(rs))
      BY <1>1, <2>1, <2>3, <3>1 DEF FloorAt, CeilingAt
    <3>3. CASE F < n
      <4>1. F < n + 1 /\ w.frames[F + 1] = v.frames[F + 1]
        BY <1>1, <3>3, SMTT(30)
      <4> QED BY <2>1, <3>2, <3>3, <4>1 DEF EndsWith
    <3>4. CASE ~(F < n)
      <4>1. F < n + 1 /\ F + 1 = n + 1
        BY <1>1, <1>2, <3>1, <3>4
      <4>2. EndsWith(v, rs, k) = f.regs /\ EndsWith(w, rs, k) = w.regs
        BY <1>1, <3>2, <3>4, <4>1 DEF EndsWith
      <4> QED BY <2>1, <4>2
    <3> QED BY <3>3, <3>4
  <2> QED BY <2>2, <2>3
<1>7. CallsGivenBack(w, rs)
  BY <1>6 DEF CallsGivenBack
<1> QED BY <1>3, <1>4, <1>5, <1>7 DEF Giving

(* Rust is called by, or has answered, code whose registers are v's: with  *)
(* the call on top of the others it is w that runs, without it v.          *)
Calls(v, rs, w, ss, call) ==
    /\ rs \in Seq(Waits) /\ call \in Waits /\ ss = Append(rs, call)
    /\ \A k \in DOMAIN rs : rs[k].running
    /\ w.frames = v.frames /\ v.frames \in Seq(Frames)
    /\ call.floor = v.floor
    /\ call.running => w.floor.frames = Len(v.frames)
    /\ ~call.running => w.floor = v.floor
    /\ SameRegs(CallRegs(w, call), v.regs)
    /\ v.current # NoCode /\ call.code.of = v.current.of

OneMoreCall(rs, ss, call, n) ==
    /\ Len(rs) = n /\ Len(ss) = n + 1 /\ DOMAIN rs = 1..n /\ DOMAIN ss = 1..n + 1
    /\ ss[n + 1] = call
    /\ \A k \in 1..n : ss[k] = rs[k] /\ rs[k].running

LEMMA CallAdded ==
    ASSUME NEW v, NEW rs, NEW w, NEW ss, NEW call, Calls(v, rs, w, ss, call)
    PROVE  \E n \in Nat : OneMoreCall(rs, ss, call, n)
<1>1. rs \in Seq(Waits) /\ call \in Waits /\ ss = Append(rs, call)
  BY DEF Calls
<1>2. /\ ss \in Seq(Waits) /\ Len(ss) = Len(rs) + 1 /\ ss[Len(rs) + 1] = call
      /\ \A i \in 1..Len(rs) : ss[i] = rs[i]
  BY ONLY <1>1, Extended
<1>3. Len(rs) \in Nat /\ DOMAIN rs = 1..Len(rs) /\ DOMAIN ss = 1..Len(ss)
  BY <1>1, <1>2
<1>4. \A k \in 1..Len(rs) : rs[k].running
  BY <1>3 DEF Calls
<1>5. OneMoreCall(rs, ss, call, Len(rs))
  BY ONLY <1>2, <1>3, <1>4 DEF OneMoreCall
<1> QED BY ONLY <1>3, <1>5

LEMMA EndsAsCalled ==
    ASSUME NEW v, NEW rs, NEW w, NEW ss, NEW call, Calls(v, rs, w, ss, call), NEW k \in DOMAIN rs
    PROVE  SameRegs(EndsWith(w, ss, k), EndsWith(v, rs, k))
<1>0. PICK n \in Nat : OneMoreCall(rs, ss, call, n)
  BY CallAdded
<1>1. /\ Len(rs) = n /\ Len(ss) = n + 1
      /\ DOMAIN rs = 1..n /\ DOMAIN ss = 1..n + 1
      /\ ss[n + 1] = call
      /\ \A i \in 1..n : ss[i] = rs[i] /\ rs[i].running
  BY ONLY <1>0 DEF OneMoreCall
<1>2. k \in 1..n /\ k < n + 1 /\ w.frames = v.frames /\ call.floor = v.floor
  BY <1>1 DEF Calls
<1>3. CASE k = n
  <2>1. FloorAt(w, ss, k) = v.floor.frames /\ FloorAt(v, rs, k) = v.floor.frames
    BY <1>1, <1>2, <1>3 DEF FloorAt
  <2>2. CeilingAt(w, ss, k) = Len(v.frames) /\ CeilingAt(v, rs, k) = Len(v.frames)
    <3>1. FloorAt(w, ss, k + 1) = w.floor.frames
      BY <1>1, <1>3 DEF FloorAt
    <3> QED BY <1>1, <1>2, <1>3, <3>1 DEF CeilingAt, Calls
  <2>3. \/ EndsWith(w, ss, k) = EndsWith(v, rs, k)
        \/ EndsWith(w, ss, k) = CallRegs(w, call) /\ EndsWith(v, rs, k) = v.regs
    BY <1>1, <1>2, <1>3, <2>1, <2>2 DEF EndsWith
  <2> QED BY <2>3, SameRelation DEF Calls
<1>4. CASE k # n
  <2>1. k < n /\ k + 1 \in 1..n /\ ss[k + 1] = rs[k + 1] /\ rs[k + 1].running
    BY <1>1, <1>2, <1>4
  <2>2. FloorAt(w, ss, k) = FloorAt(v, rs, k)
    BY <1>1, <1>2, <2>1 DEF FloorAt
  <2>3. CeilingAt(w, ss, k) = CeilingAt(v, rs, k)
    <3>1. CASE k + 1 = n
      <4>1. FloorAt(w, ss, k + 1) = v.floor.frames /\ FloorAt(v, rs, k + 1) = v.floor.frames
        BY <1>1, <1>2, <3>1 DEF FloorAt
      <4> QED BY <1>1, <1>2, <2>1, <4>1 DEF CeilingAt
    <3>2. CASE k + 1 # n
      <4>1. k + 1 < n /\ k + 1 < n + 1 /\ (k + 1) + 1 \in 1..n
        BY <1>1, <2>1, <3>2
      <4>2. ss[(k + 1) + 1] = rs[(k + 1) + 1]
        BY <1>1, <4>1
      <4>3. FloorAt(w, ss, k + 1) = FloorAt(v, rs, k + 1)
        BY <1>1, <4>1, <4>2 DEF FloorAt
      <4> QED BY <1>1, <1>2, <2>1, <4>3 DEF CeilingAt
    <3> QED BY <3>1, <3>2
  <2>4. CallRegs(w, ss[k + 1]) = CallRegs(v, rs[k + 1])
    BY <2>1 DEF CallRegs
  <2>5. EndsWith(w, ss, k) = EndsWith(v, rs, k)
    BY <1>1, <1>2, <2>1, <2>2, <2>3, <2>4 DEF EndsWith
  <2> QED BY <2>5, SameRelation
<1> QED BY <1>3, <1>4

LEMMA GivingAsks ==
    ASSUME NEW v, NEW rs, NEW w, NEW ss, NEW call, Calls(v, rs, w, ss, call),
           NEW o, NEW m, NEW pk, Giving(v, rs, o, m, pk),
           w.current # NoCode => Fits(w.regs, w.current.of, o, m),
           call.running => GivesBack(w.regs, call)
    PROVE  Giving(w, ss, o, m, pk)
<1>0. PICK n \in Nat : OneMoreCall(rs, ss, call, n)
  BY CallAdded
<1>1. /\ Len(rs) = n /\ Len(ss) = n + 1
      /\ DOMAIN rs = 1..n /\ DOMAIN ss = 1..n + 1
      /\ ss[n + 1] = call
      /\ \A i \in 1..n : ss[i] = rs[i] /\ rs[i].running
  BY ONLY <1>0 DEF OneMoreCall
<1>2. \A k \in 1..n + 1 : k \in 1..n \/ k = n + 1
  BY <1>1
<1>3. FramesOwn(w, o, m)
  BY DEF Giving, FramesOwn, Calls
<1>4. CallsOwn(w, ss, o, m)
  <2>1. ASSUME NEW k \in 1..n
        PROVE  Fits(CallRegs(w, ss[k]), ss[k].code.of, o, m)
    <3>1. Fits(CallRegs(v, rs[k]), rs[k].code.of, o, m) /\ ss[k] = rs[k] /\ rs[k].running
      BY <1>1 DEF Giving, CallsOwn
    <3> QED BY <3>1 DEF CallRegs
  <2>2. Fits(CallRegs(w, call), call.code.of, o, m)
    <3>1. Fits(v.regs, call.code.of, o, m) /\ SameRegs(CallRegs(w, call), v.regs)
      BY DEF Giving, Calls
    <3> QED BY <3>1, SameFits, SameRelation
  <2> QED BY <1>1, <1>2, <2>1, <2>2 DEF CallsOwn
<1>5. CallsGivenBack(w, ss)
  <2>1. ASSUME NEW k \in 1..n
        PROVE  GivesBack(EndsWith(w, ss, k), ss[k])
    <3>1. GivesBack(EndsWith(v, rs, k), rs[k]) /\ ss[k] = rs[k]
      BY <1>1 DEF Giving, CallsGivenBack
    <3>2. SameRegs(EndsWith(w, ss, k), EndsWith(v, rs, k))
      BY <1>1, EndsAsCalled
    <3> QED BY <3>1, <3>2, SameGives, SameRelation
  <2>2. ASSUME call.running
        PROVE  GivesBack(EndsWith(w, ss, n + 1), call)
    <3>1. /\ FloorAt(w, ss, n + 1) = Len(v.frames) /\ CeilingAt(w, ss, n + 1) = Len(v.frames)
          /\ Len(v.frames) \in Nat
      BY <1>1, <2>2 DEF FloorAt, CeilingAt, Calls
    <3>2. EndsWith(w, ss, n + 1) = w.regs
      BY <1>1, <3>1 DEF EndsWith
    <3> QED BY <2>2, <3>2
  <2> QED BY <1>1, <1>2, <2>1, <2>2 DEF CallsGivenBack
<1> QED BY <1>3, <1>4, <1>5 DEF Giving

LEMMA GivingAnswers ==
    ASSUME NEW v, NEW rs, NEW w, NEW ss, NEW call, Calls(v, rs, w, ss, call),
           NEW o, NEW m, NEW pk, Giving(w, ss, o, m, pk)
    PROVE  Giving(v, rs, o, m, pk)
<1>0. PICK n \in Nat : OneMoreCall(rs, ss, call, n)
  BY CallAdded
<1>1. /\ Len(rs) = n /\ Len(ss) = n + 1
      /\ DOMAIN rs = 1..n /\ DOMAIN ss = 1..n + 1
      /\ ss[n + 1] = call
      /\ \A k \in 1..n : ss[k] = rs[k] /\ rs[k].running
  BY ONLY <1>0 DEF OneMoreCall
<1>2. (\A k \in 1..n : k \in 1..n + 1) /\ n + 1 \in 1..n + 1
  BY <1>1
<1>3. FramesOwn(v, o, m)
  BY DEF Giving, FramesOwn, Calls
<1>4. CallsOwn(v, rs, o, m)
  <2>1. ASSUME NEW k \in 1..n
        PROVE  Fits(CallRegs(v, rs[k]), rs[k].code.of, o, m)
    <3>1. Fits(CallRegs(w, ss[k]), ss[k].code.of, o, m) /\ ss[k] = rs[k] /\ rs[k].running
      BY <1>1, <1>2 DEF Giving, CallsOwn
    <3> QED BY <3>1 DEF CallRegs
  <2> QED BY <1>1, <2>1 DEF CallsOwn
<1>5. Fits(v.regs, v.current.of, o, m)
  <2>1. Fits(CallRegs(w, call), call.code.of, o, m)
    BY <1>1, <1>2 DEF Giving, CallsOwn
  <2>2. SameRegs(CallRegs(w, call), v.regs) /\ call.code.of = v.current.of
    BY DEF Calls
  <2> QED BY <2>1, <2>2, SameFits
<1>6. CallsGivenBack(v, rs)
  <2>1. ASSUME NEW k \in 1..n
        PROVE  GivesBack(EndsWith(v, rs, k), rs[k])
    <3>1. GivesBack(EndsWith(w, ss, k), rs[k])
      BY <1>1, <1>2 DEF Giving, CallsGivenBack
    <3>2. SameRegs(EndsWith(w, ss, k), EndsWith(v, rs, k))
      BY <1>1, EndsAsCalled
    <3> QED BY <3>1, <3>2, SameGives
  <2> QED BY <1>1, <2>1 DEF CallsGivenBack
<1> QED BY <1>3, <1>4, <1>5, <1>6 DEF Giving

LEMMA FitsMore ==
    ASSUME NEW r, NEW id, NEW o, NEW m, NEW p, NEW q, More(o, m, p, q), Fits(r, id, o, m)
    PROVE  Fits(r, id, p, q)
<1>1. m \in Nat /\ q \in Nat /\ m <= q /\ \A a \in 1..m : p[a] = o[a]
  BY DEF More, Ids
<1>2. id \in 1..m /\ id \in 1..q /\ p[id] = o[id]
  BY <1>1 DEF Fits
<1> QED BY <1>2 DEF Fits, RegsFit

(* A body more: what the others were entered with stays.                   *)
LEMMA GivingMore ==
    ASSUME NEW v, NEW rs, NEW o, NEW m, NEW pk, Giving(v, rs, o, m, pk),
           NEW p, NEW q, More(o, m, p, q), \A g \in Ids : pk[g] # NotParked => g \in 1..m
    PROVE  Giving(v, rs, p, q, pk)
<1>1. FramesOwn(v, p, q)
  BY FitsMore DEF Giving, FramesOwn
<1>2. v.current # NoCode => Fits(v.regs, v.current.of, p, q)
  BY FitsMore DEF Giving
<1>3. CallsOwn(v, rs, p, q)
  BY FitsMore DEF Giving, CallsOwn
<1>4. ShelvesOwn(pk, p)
  BY DEF Giving, ShelvesOwn, More
<1> QED BY <1>1, <1>2, <1>3, <1>4 DEF Giving

(* A throw is remembered.                                                  *)
LEMMA UnwindThrows ==
    ASSUME NEW x \in Vms
    PROVE  Unwind(x).thrown
<1>1. PICK t \in Vms : t = [x EXCEPT !.thrown = TRUE]
  BY DEF Vms
<1>2. t.thrown = TRUE
  BY <1>1 DEF Vms
<1>3. PICK hs, hd : hs = Front(t.handlers) /\ hd = Last(x.handlers)
  OBVIOUS
<1>4. PICK y : y = [t EXCEPT !.handlers = hs]
  OBVIOUS
<1>5. DOMAIN y = DOMAIN t /\ "thrown" \in DOMAIN y /\ y.thrown = TRUE
  BY <1>1, <1>2, <1>4 DEF Vms
<1>6. PICK a : a = Abandon(y, hd.frames)
  OBVIOUS
<1>7. "thrown" \in DOMAIN a /\ a.thrown = TRUE
  BY <1>5, <1>6 DEF Abandon
<1>8. Land(a, hd).thrown = TRUE
  BY <1>7 DEF Land
<1>9. Escape(t).thrown = TRUE
  BY <1>2 DEF Escape, Vms
<1>10. Unwind(x) = Land(a, hd) \/ Unwind(x) = Escape(t)
  BY <1>1, <1>3, <1>4, <1>6 DEF Unwind
<1> QED BY <1>8, <1>9, <1>10

LEMMA LeaveFrameGoesOn ==
    ASSUME NEW v \in Vms
    PROVE  /\ LeaveFrame(v).thrown = v.thrown
           /\ [LeaveFrame(v) EXCEPT !.references = <<>>].thrown = v.thrown
<1>1. PICK w : w = LeaveFrame(v)
  OBVIOUS
<1>2. "thrown" \in DOMAIN w /\ w.thrown = v.thrown
  BY <1>1 DEF LeaveFrame, Vms
<1> QED BY <1>1, <1>2

(* The machine at work, nothing thrown.                                    *)
AtEase(v, rs, E, C, o, m) ==
    /\ AtWork(v, rs, E, C, o, m) /\ Waiters(v, rs)
    /\ ~v.thrown => Giving(v, rs, o, m, parked)
    /\ \A g \in Ids : parked[g] # NotParked => g \in 1..m

LEMMA GivingWorking ==
    ASSUME SpineInv, GivingInv, Executing
    PROVE  \E v, rs, E, C, o, m : AtEase(v, rs, E, C, o, m)
<1>1. PICK v, rs, E, C, o, m : AtWork(v, rs, E, C, o, m)
  BY Working
<1>2. /\ v = vm /\ rs = rust /\ o = own /\ m = made /\ Spine(v, rs, o, m, generators, parked)
      /\ v.current # NoCode
  BY <1>1 DEF AtWork
<1>3. Waiters(v, rs)
  <2>1. ~InControl(rs)
    BY <1>2, TopFine
  <2> QED BY <1>2, <2>1, SpineWaiters
<1>4. \A g \in Ids : parked[g] # NotParked => g \in 1..m
  BY <1>2 DEF Spine
<1> QED BY <1>1, <1>2, <1>3, <1>4 DEF AtEase, GivingInv

(* Constructs are opened and closed.                                       *)
LEMMA GivingStep ==
    ASSUME SpineInv, GivingInv, Step
    PROVE  GivingInv'
<1>0. Executing /\ UNCHANGED <<rust, own, made, objects>>
  BY DEF Step, PushScope, PushHandler, PushOperand, ResolveName, MayOpen, Close
<1>1. PICK v, rs, E, C, o, m : AtEase(v, rs, E, C, o, m)
  BY <1>0, GivingWorking
<1>2. /\ v = vm /\ rs = rust /\ o = own /\ m = made /\ v \in Vms /\ v.current \in Code
      /\ v.current # NoCode /\ Waiters(v, rs) /\ (~v.thrown => Giving(v, rs, o, m, parked))
  BY <1>1 DEF AtEase, AtWork
<1>3. PICK w : w = vm'
  OBVIOUS
<1>4. \A x \in Constructs : Open(v.current, x).of = v.current.of
  BY <1>2, OpenIsCode
<1>5. PICK regs : regs = v.regs /\ regs \in Registers
  BY <1>2, VmTypes
<1>6. /\ w.frames = v.frames /\ w.floor = v.floor /\ w.thrown = v.thrown
      /\ SameRegs(w.regs, regs) /\ w.current.of = v.current.of
  <2>1. CASE PushScope
    <3>1. PICK c, env : c = Open(v.current, "block") /\ env = [v.regs.env EXCEPT !.level = @ + 1]
      OBVIOUS
    <3>2. w = [v EXCEPT !.current = c, !.regs.env = env]
      BY <1>2, <1>3, <2>1, <3>1 DEF PushScope, Here
    <3>3. /\ w.frames = v.frames /\ w.current = c /\ w.floor = v.floor /\ w.thrown = v.thrown
          /\ w.regs = [regs EXCEPT !.env = env]
      BY <1>2, <1>5, <3>2 DEF Vms
    <3>4. SameRegs(w.regs, regs)
      BY <1>5, <3>3 DEF SameRegs, Registers
    <3> QED BY <1>4, <3>1, <3>3, <3>4 DEF Constructs
  <2>2. CASE PushHandler
    <3>1. PICK c, h : /\ c = Open(v.current, "try")
                      /\ h = Append(v.handlers,
                               [target |-> v.current, frames |-> Len(v.frames),
                                depth |-> Len(v.stack), env |-> v.regs.env,
                                references |-> Len(v.references)])
      OBVIOUS
    <3>2. w = [v EXCEPT !.current = c, !.handlers = h]
      BY <1>2, <1>3, <2>2, <3>1 DEF PushHandler, Here
    <3>3. /\ w.frames = v.frames /\ w.current = c /\ w.floor = v.floor /\ w.thrown = v.thrown
          /\ w.regs = regs
      BY <1>2, <1>5, <3>2 DEF Vms
    <3> QED BY <1>4, <3>1, <3>3, SameRelation DEF Constructs
  <2>3. CASE PushOperand
    <3>1. PICK c, s : c = Open(v.current, "operand") /\ s = Append(v.stack, Mark(c))
      OBVIOUS
    <3>2. w = [v EXCEPT !.current = c, !.stack = s]
      BY <1>2, <1>3, <2>3, <3>1 DEF PushOperand, Here
    <3>3. /\ w.frames = v.frames /\ w.current = c /\ w.floor = v.floor /\ w.thrown = v.thrown
          /\ w.regs = regs
      BY <1>2, <1>5, <3>2 DEF Vms
    <3> QED BY <1>4, <3>1, <3>3, SameRelation DEF Constructs
  <2>4. CASE ResolveName
    <3>1. PICK c, r : c = Open(v.current, "reference") /\ r = Append(v.references, Mark(c))
      OBVIOUS
    <3>2. w = [v EXCEPT !.current = c, !.references = r]
      BY <1>2, <1>3, <2>4, <3>1 DEF ResolveName, Here
    <3>3. /\ w.frames = v.frames /\ w.current = c /\ w.floor = v.floor /\ w.thrown = v.thrown
          /\ w.regs = regs
      BY <1>2, <1>5, <3>2 DEF Vms
    <3> QED BY <1>4, <3>1, <3>3, SameRelation DEF Constructs
  <2>5. CASE Close
    <3>1. PICK c, x, s, h, env :
             /\ c = Before(v.current) /\ x = Last(v.current.open)
             /\ s = IF x = "operand" THEN Front(v.stack) ELSE v.stack
             /\ h = IF x = "try" THEN Front(v.handlers) ELSE v.handlers
             /\ env = IF x = "block" THEN [v.regs.env EXCEPT !.level = @ - 1] ELSE v.regs.env
      OBVIOUS
    <3>2. Closing(v, c, x, s, h, env)
      BY <1>2, <2>5, <3>1 DEF Closing
    <3>3. PICK r \in Seq(Marks) :
             vm' = [v EXCEPT !.current = c, !.stack = s, !.handlers = h, !.references = r,
                             !.regs.env = env]
      BY <3>2, ClosedIs, ZenonT(60)
    <3>4. /\ w.frames = v.frames /\ w.current = c /\ w.floor = v.floor /\ w.thrown = v.thrown
          /\ w.regs = [regs EXCEPT !.env = env]
      BY <1>2, <1>3, <1>5, <3>3 DEF Vms
    <3>5. SameRegs(w.regs, regs)
      BY <1>5, <3>4 DEF SameRegs, Registers
    <3>6. c.of = v.current.of
      BY <1>2, <3>1 DEF Before, Code
    <3> QED BY <3>4, <3>5, <3>6
  <2> QED BY <2>1, <2>2, <2>3, <2>4, <2>5 DEF Step
<1>7. SUFFICES ASSUME ~w.thrown
               PROVE  Giving(w, rs, o, m, parked)
  BY <1>0, <1>2, <1>3 DEF GivingInv, objects
<1>8. Giving(v, rs, o, m, parked)
  BY <1>2, <1>6, <1>7
<1> QED BY <1>2, <1>5, <1>6, <1>8, GivingSame

LEMMA GivingThrow ==
    ASSUME SpineInv, Throw
    PROVE  GivingInv'
<1>1. vm \in Vms /\ vm' = Unwind(vm)
  BY DEF SpineInv, Spine, Throw
<1>2. vm'.thrown
  BY <1>1, UnwindThrows
<1> QED BY <1>2 DEF GivingInv

LEMMA GivingChunkEnds ==
    ASSUME SpineInv, GivingInv, ChunkEnds
    PROVE  GivingInv'
<1>1. PICK v, rs, E, C, o, m : AtEase(v, rs, E, C, o, m)
  BY GivingWorking DEF ChunkEnds
<1>2. /\ v = vm /\ rs = rust /\ o = own /\ m = made /\ v \in Vms
      /\ Waiters(v, rs) /\ (~v.thrown => Giving(v, rs, o, m, parked))
  BY <1>1 DEF AtEase, AtWork
<1>3. PICK w : w = [v EXCEPT !.current = NoCode]
  OBVIOUS
<1>4. /\ w.frames = v.frames /\ w.floor = v.floor /\ w.thrown = v.thrown /\ w.regs = v.regs
      /\ w.current = NoCode
  BY <1>2, <1>3 DEF Vms
<1>5. Giving(v, rs, o, m, parked) => Giving(w, rs, o, m, parked)
  BY <1>2, <1>4, SameRelation, GivingSame
<1> QED BY <1>2, <1>3, <1>4, <1>5 DEF ChunkEnds, GivingInv, objects

LEMMA GivingCall ==
    ASSUME SpineInv, GivingInv, Call
    PROVE  GivingInv'
<1>1. PICK v, rs, E, C, o, m : AtEase(v, rs, E, C, o, m)
  BY GivingWorking DEF Call, MayOpen
<1>2. /\ v = vm /\ rs = rust /\ o = own /\ m = made /\ v \in Vms /\ v.current \in Code
      /\ v.current # NoCode /\ o \in Owners /\ m \in Ids
      /\ Waiters(v, rs) /\ (~v.thrown => Giving(v, rs, o, m, parked))
      /\ \A g \in Ids : parked[g] # NotParked => g \in 1..m
  BY <1>1 DEF AtEase, AtWork, More
<1>3. PICK kind \in Bodies, realm \in Realms :
         EnterBody(vm, FrameFrom(vm, Open(Here, "operand"), kind), kind, realm)
  BY DEF Call
<1>4. PICK code, f : code = Open(v.current, "operand") /\ f = FrameFrom(v, code, kind)
  OBVIOUS
<1>5. code \in Code /\ code.of = v.current.of
  BY <1>2, <1>4, OpenIsCode DEF Constructs
<1>6. /\ f \in Frames /\ f.stack_base = Len(v.stack) /\ f.code = code /\ f.regs = v.regs
  BY <1>2, <1>4, <1>5, FrameIsOne
<1>7. PICK w, p, q : w = vm' /\ p = own' /\ q = made'
  OBVIOUS
<1>8. Entering(v, f, w, o, m, p, q) /\ UNCHANGED objects
  <2>1. EnterBody(v, f, kind, realm)
    BY <1>2, <1>3, <1>4 DEF Here
  <2>2. f.stack_base <= Len(v.stack)
    BY <1>2, <1>6, VmTypes
  <2> QED BY <1>2, <1>6, <1>7, <2>1, <2>2, EntersBody DEF Call
<1>9. SUFFICES ASSUME ~w.thrown
               PROVE  Giving(w, rs, p, q, parked)
  BY <1>2, <1>7, <1>8 DEF Call, GivingInv, objects
<1>10. Giving(v, rs, p, q, parked)
  <2>1. Giving(v, rs, o, m, parked) /\ More(o, m, p, q)
    BY <1>2, <1>8, <1>9 DEF Entering
  <2> QED BY <1>2, <2>1, GivingMore
<1>11. /\ OneFrameMore(v, w, f) /\ w.floor = v.floor /\ SameRegs(f.regs, v.regs)
       /\ Fits(w.regs, w.current.of, p, q)
  <2>1. v.frames \in Seq(Frames)
    BY <1>2, VmTypes
  <2> QED BY <1>6, <1>8, <2>1, SameRelation DEF OneFrameMore, Entering, Fits, RegsFit
<1> QED BY <1>2, <1>5, <1>6, <1>10, <1>11, GivingPushes

LEMMA GivingTailCall ==
    ASSUME SpineInv, GivingInv, TailCall
    PROVE  GivingInv'
<1>1. PICK v, rs, E, C, o, m : AtEase(v, rs, E, C, o, m)
  BY GivingWorking DEF TailCall
<1>2. /\ v = vm /\ rs = rust /\ o = own /\ m = made /\ v \in Vms
      /\ o \in Owners /\ m \in Ids /\ AtWork(v, rs, E, C, o, m)
      /\ Waiters(v, rs) /\ (~v.thrown => Giving(v, rs, o, m, parked))
      /\ \A g \in Ids : parked[g] # NotParked => g \in 1..m
  BY <1>1 DEF AtEase, AtWork, More
<1>3. PICK D, f, u, y : /\ D = Len(v.frames) /\ f = Last(v.frames)
                        /\ u = [v EXCEPT !.frames = Front(@)]
                        /\ y = [u EXCEPT !.current = f.code, !.regs = f.regs]
  BY Zenon
<1>4. /\ v.frames # <<>> /\ f = v.frames[D] /\ f.stack_base <= Len(v.stack) /\ f \in Frames
      /\ f.code \in Code /\ f.regs \in Registers /\ v.floor.frames < Len(v.frames)
      /\ v.frames \in Seq(Frames) /\ D \in Nat
  BY <1>2, <1>3, BodyAbove, VmTypes DEF TailCall
<1>5. PICK kind \in Bodies, realm \in Realms : EnterBody(u, f, kind, realm)
  BY <1>2, <1>3 DEF TailCall
<1>6. PICK fs \in Seq(Frames) : fs = Front(v.frames) /\ v.frames = Append(fs, f) /\ Len(fs) = D - 1
  <2>1. PICK s, t, n : s = v.frames /\ t = Front(s) /\ n = Len(s)
    OBVIOUS
  <2>2. s \in Seq(Frames) /\ s # <<>> /\ t = Front(s) /\ n = Len(s)
    BY <1>4, <2>1
  <2>3. t \in Seq(Frames) /\ Len(t) = n - 1 /\ s = Append(t, s[n])
    BY ONLY <2>2, FrontIs
  <2> QED BY <1>3, <1>4, <2>1, <2>3
<1>7. /\ u \in Vms /\ u.stack = v.stack /\ u.frames = fs /\ u.floor = v.floor
      /\ u.thrown = v.thrown
      /\ y \in Vms /\ y.frames = fs /\ y.current = f.code /\ y.regs = f.regs /\ y.floor = v.floor
  BY <1>2, <1>3, <1>4, <1>6 DEF Vms
<1>8. PICK w, p, q : w = vm' /\ p = own' /\ q = made'
  OBVIOUS
<1>9. Entering(u, f, w, o, m, p, q) /\ UNCHANGED objects
  BY <1>2, <1>4, <1>5, <1>7, <1>8, EntersBody DEF TailCall
<1>10. SUFFICES ASSUME ~w.thrown
                PROVE  Giving(w, rs, p, q, parked)
  BY <1>2, <1>8, <1>9 DEF TailCall, GivingInv, objects
<1>11. Giving(v, rs, p, q, parked)
  <2>1. Giving(v, rs, o, m, parked) /\ More(o, m, p, q)
    BY <1>2, <1>7, <1>9, <1>10 DEF Entering
  <2> QED BY <1>2, <2>1, GivingMore
<1>12. Waiters(y, rs)
  <2>1. v.floor.frames \in Nat /\ v.floor.frames <= Len(y.frames)
    BY <1>2, <1>3, <1>4, <1>6, <1>7, VmTypes
  <2> QED BY <1>2, <1>7, <2>1, SMTT(30) DEF Waiters
<1>13. Giving(y, rs, p, q, parked)
  <2>1. OneFrameMore(y, v, f)
    BY <1>4, <1>6, <1>7 DEF OneFrameMore
  <2> QED BY <1>2, <1>4, <1>7, <1>11, <2>1, GivingPops
<1>14. /\ OneFrameMore(y, w, f) /\ w.floor = y.floor /\ SameRegs(f.regs, y.regs)
       /\ Fits(w.regs, w.current.of, p, q)
  BY <1>4, <1>6, <1>7, <1>9, SameRelation DEF OneFrameMore, Entering, Fits, RegsFit
<1> QED BY <1>7, <1>12, <1>13, <1>14, GivingPushes

(* A body leaves.                                                          *)
LEMMA GivingLeaves ==
    ASSUME NEW v \in Vms, NEW rs, Waiters(v, rs), NEW o, NEW m, NEW pk,
           Giving(v, rs, o, m, pk), v.floor.frames < Len(v.frames), NEW w, Left(v, w)
    PROVE  Giving(w, rs, o, m, pk)
<1>1. PICK n \in Nat : n = Len(v.frames) /\ n \in 1..n /\ v.frames # <<>>
  <2>1. Len(v.frames) \in Nat /\ v.floor.frames \in Nat /\ v.frames \in Seq(Frames)
    BY VmTypes
  <2> QED BY <2>1
<1>2. PICK f \in Frames : f = v.frames[n]
  BY <1>1, VmTypes
<1>3. OneFrameMore(w, v, f)
  <2>1. PICK s, t : s = v.frames /\ t = w.frames
    BY SMTT(30)
  <2>2. s \in Seq(Frames) /\ s # <<>> /\ t = Front(s) /\ n = Len(s)
    BY <1>1, <2>1, VmTypes DEF Left
  <2>3. t \in Seq(Frames) /\ s = Append(t, s[n])
    BY ONLY <2>2, FrontIs
  <2> QED BY <1>2, <2>1, <2>3 DEF OneFrameMore
<1>4. w.floor = v.floor /\ w.regs = f.regs /\ w.current = f.code
  BY <1>1, <1>2 DEF Left
<1> QED BY <1>3, <1>4, GivingPops

LEMMA GivingReturn ==
    ASSUME SpineInv, GivingInv, Return
    PROVE  GivingInv'
<1>1. PICK v, rs, E, C, o, m : AtEase(v, rs, E, C, o, m)
  BY GivingWorking DEF Return
<1>2. /\ v = vm /\ rs = rust /\ o = own /\ m = made /\ v \in Vms
      /\ AtWork(v, rs, E, C, o, m)
      /\ Waiters(v, rs) /\ (~v.thrown => Giving(v, rs, o, m, parked))
  BY <1>1 DEF AtEase, AtWork
<1>3. /\ v.frames # <<>> /\ v.floor.frames < Len(v.frames)
      /\ v.frames[Len(v.frames)].stack_base <= Len(v.stack)
      /\ v.frames[Len(v.frames)].handlers_base <= Len(v.handlers)
  BY <1>2, BodyAbove DEF Return
<1>4. PICK w : w = LeaveFrame(v)
  OBVIOUS
<1>5. Left(v, w) /\ w.thrown = v.thrown
  BY <1>2, <1>3, <1>4, LeaveFrameLeaves, LeaveFrameGoesOn
<1>6. Giving(v, rs, o, m, parked) => Giving(w, rs, o, m, parked)
  BY <1>2, <1>3, <1>5, GivingLeaves
<1> QED BY <1>2, <1>4, <1>5, <1>6 DEF Return, GivingInv, objects

(* The shelves may change, the machine as it is.                           *)
LEMMA GivingShelves ==
    ASSUME NEW v, NEW rs, NEW o, NEW m, NEW pk, Giving(v, rs, o, m, pk),
           NEW qk, ShelvesOwn(qk, o)
    PROVE  Giving(v, rs, o, m, qk)
BY DEF Giving

LEMMA GivingTakes ==
    ASSUME NEW v, NEW rs, NEW o, NEW m, NEW pk, Giving(v, rs, o, m, pk),
           NEW qk, \A g \in Ids : qk[g] # NotParked => qk[g] = pk[g]
    PROVE  Giving(v, rs, o, m, qk)
BY DEF Giving, ShelvesOwn

LEMMA ParkedRegisters ==
    ASSUME NEW v, NEW resumed, NEW begun
    PROVE  /\ Park(v, resumed, begun).var = v.regs.var
           /\ Park(v, resumed, begun).this = v.regs.this
           /\ Park(v, resumed, begun).target = v.regs.target
BY DEF Park

(* A body parks what it was entered with.                                  *)
LEMMA GivingParks ==
    ASSUME NEW v, NEW rs, NEW E, NEW C, NEW o, NEW m, AtEase(v, rs, E, C, o, m),
           Len(v.frames) > v.floor.frames, o[v.current.of].kind = "generator",
           NEW begun, Suspend(v.current.of, begun)
    PROVE  GivingInv'
<1>1. /\ v = vm /\ rs = rust /\ o = own /\ m = made /\ v \in Vms
      /\ AtWork(v, rs, E, C, o, m) /\ v.current # NoCode
      /\ Waiters(v, rs) /\ (~v.thrown => Giving(v, rs, o, m, parked))
      /\ Spine(v, rs, o, m, generators, parked)
  BY DEF AtEase, AtWork
<1>2. PICK g, w : g = v.current.of /\ Parks(v, m, g, begun, w)
  BY <1>1, ParksIs
<1>3. PICK qk : qk = parked'
  OBVIOUS
<1>4. PICK e : e = Park(v, [Open(v.current, "operand") EXCEPT !.preparing = FALSE], begun)
  OBVIOUS
<1>5. /\ g \in Ids /\ w = vm' /\ Left(v, w) /\ qk = [parked EXCEPT ![g] = e]
      /\ \A a \in Ids : a # g => qk[a] = parked[a]
      /\ UNCHANGED <<rust, own, made>>
  BY <1>2, <1>3, <1>4 DEF Parks
<1>6. qk[g] = e
  <2>1. parked \in [Ids -> Shelves \cup {NotParked}]
    BY <1>1 DEF Spine
  <2> QED BY <1>5, <2>1
<1>7. w.thrown = v.thrown
  <2>1. w = [LeaveFrame(v) EXCEPT !.references = <<>>]
    BY <1>1, <1>5 DEF Suspend
  <2> QED BY <1>1, <2>1, LeaveFrameGoesOn
<1>8. SUFFICES ASSUME ~w.thrown
               PROVE  Giving(w, rs, o, m, qk)
  BY <1>1, <1>3, <1>5 DEF GivingInv
<1>9. Giving(v, rs, o, m, parked)
  BY <1>1, <1>7, <1>8
<1>10. Giving(w, rs, o, m, parked)
  BY <1>1, <1>5, <1>9, GivingLeaves
<1>11. ShelvesOwn(qk, o)
  <2>1. ShelvesOwn(parked, o) /\ Fits(v.regs, g, o, m)
    BY <1>1, <1>2, <1>9 DEF Giving
  <2>2. e.var = v.regs.var /\ e.this = v.regs.this /\ e.target = v.regs.target
    BY <1>4, ParkedRegisters
  <2> QED BY <1>2, <1>5, <1>6, <2>1, <2>2 DEF ShelvesOwn, Fits, RegsFit
<1> QED BY <1>10, <1>11, GivingShelves

LEMMA GivingStarts ==
    ASSUME SpineInv, GivingInv, GeneratorStart
    PROVE  GivingInv'
<1>1. PICK v, rs, E, C, o, m : AtEase(v, rs, E, C, o, m)
  BY GivingWorking DEF GeneratorStart
<1>2. v = vm /\ o = own /\ AtWork(v, rs, E, C, o, m)
  BY <1>1 DEF AtEase, AtWork
<1>3. v.current.preparing /\ Suspend(v.current.of, FALSE)
  BY <1>2 DEF GeneratorStart, Here
<1>4. o[v.current.of].kind = "generator" /\ Len(v.frames) > v.floor.frames
  <2>1. o[v.current.of].kind = "generator"
    BY <1>2, <1>3, BodyAbove
  <2>2. InBody
    BY <1>2, <2>1 DEF InBody, Bodies, Here
  <2> QED BY <1>2, <2>1, <2>2, BodyAbove
<1> QED BY <1>1, <1>3, <1>4, GivingParks

LEMMA GivingYields ==
    ASSUME SpineInv, GivingInv, Yield
    PROVE  GivingInv'
<1>1. PICK v, rs, E, C, o, m : AtEase(v, rs, E, C, o, m)
  BY GivingWorking DEF Yield, MayOpen
<1>2. v = vm /\ o = own /\ AtWork(v, rs, E, C, o, m)
  BY <1>1 DEF AtEase, AtWork
<1>3. /\ o[v.current.of].kind = "generator"
      /\ Last(v.frames).generator # Nobody
      /\ Suspend(Last(v.frames).generator, TRUE)
  BY <1>2 DEF Yield, Here
<1>4. Len(v.frames) > v.floor.frames
  <2>1. InBody
    BY <1>2, <1>3 DEF InBody, Bodies, Here
  <2> QED BY <1>2, <2>1, BodyAbove
<1>5. v.current.of = Last(v.frames).generator
  BY <1>2, <1>3, <1>4, BodyAbove
<1>6. Suspend(v.current.of, TRUE)
  BY <1>3, <1>5
<1> QED BY <1>1, <1>3, <1>4, <1>6, GivingParks

(* What a resumption puts back, with the realm of the one that resumes.    *)
LEMMA RevivedFits ==
    ASSUME NEW regs \in Registers, NEW pk, NEW o, NEW m, ShelvesOwn(pk, o),
           NEW g \in Ids, g \in 1..m, pk[g] # NotParked
    PROVE  Fits(RevivedRegisters(regs, pk[g]), g, o, m)
<1>1. PICK p, r : p = pk[g] /\ r = RevivedRegisters(regs, p)
  OBVIOUS
<1>2. r.var = p.var /\ r.this = p.this /\ r.target = p.target
  BY <1>1 DEF RevivedRegisters, Registers
<1> QED BY <1>1, <1>2 DEF ShelvesOwn, Fits, RegsFit

LEMMA GivingRevives ==
    ASSUME NEW v \in Vms, NEW rs, Waiters(v, rs), NEW o, NEW m, NEW pk, Giving(v, rs, o, m, pk),
           NEW code \in Code, code # NoCode => v.current # NoCode /\ code.of = v.current.of,
           NEW g \in Ids, NEW w, NEW p, Revived(v, code, g, w, p), p = pk[g],
           g \in 1..m, p # NotParked, p.code.of = g, RevivedFrame(v, code, g) \in Frames
    PROVE  Giving(w, rs, o, m, pk)
<1>1. PICK f : f = RevivedFrame(v, code, g)
  OBVIOUS
<1>2. /\ f.code = code /\ f.regs = v.regs /\ w.frames = Append(v.frames, f)
      /\ w.floor = v.floor /\ w.current.of = g /\ w.regs = RevivedRegisters(v.regs, p)
      /\ f \in Frames
  BY <1>1 DEF Revived, Pushed
<1>3. v.regs \in Registers /\ v.frames \in Seq(Frames)
  BY VmTypes
<1>4. Fits(w.regs, w.current.of, o, m)
  BY <1>2, <1>3, RevivedFits DEF Giving
<1>5. OneFrameMore(v, w, f) /\ SameRegs(f.regs, v.regs)
  BY <1>2, <1>3, SameRelation DEF OneFrameMore
<1> QED BY <1>2, <1>4, <1>5, GivingPushes

LEMMA GivingResumes ==
    ASSUME SpineInv, GivingInv, CallResume
    PROVE  GivingInv'
<1>1. PICK v, rs, E, C, o, m : AtEase(v, rs, E, C, o, m)
  BY GivingWorking DEF CallResume, MayOpen
<1>2. /\ v = vm /\ rs = rust /\ o = own /\ m = made /\ v \in Vms /\ v.current \in Code
      /\ v.current # NoCode /\ AtWork(v, rs, E, C, o, m)
      /\ Waiters(v, rs) /\ (~v.thrown => Giving(v, rs, o, m, parked))
  BY <1>1 DEF AtEase, AtWork
<1>3. PICK g \in generators, how \in {"next", "throw", "return"} :
         Resume(vm, Open(Here, "operand"), g, how)
  BY DEF CallResume
<1>4. PICK code : code = Open(v.current, "operand")
  OBVIOUS
<1>5. /\ Resume(v, code, g, how) /\ code \in Code /\ code.of = v.current.of
      /\ rust' = rs /\ own' = o /\ made' = m
  BY <1>2, <1>3, <1>4, OpenIsCode DEF CallResume, Here, Resume, Constructs
<1>6. SUFFICES ASSUME ~vm'.thrown
               PROVE  Giving(vm', rs, o, m, parked')
  BY <1>5 DEF GivingInv
<1>7. vm' # Unwind(v)
  BY <1>2, <1>6, UnwindThrows
<1>8. /\ Results(v, code).thrown = v.thrown
      /\ Giving(v, rs, o, m, parked) => Giving(Results(v, code), rs, o, m, parked)
  <2>1. PICK w : w = Results(v, code)
    OBVIOUS
  <2>2. /\ w.frames = v.frames /\ w.current = code /\ w.floor = v.floor /\ w.regs = v.regs
        /\ w.thrown = v.thrown
    BY <1>2, <1>5, <2>1, ResultsAre
  <2>3. Giving(v, rs, o, m, parked) => Giving(w, rs, o, m, parked)
    BY <1>2, <1>5, <2>2, SameRelation, GivingSame
  <2> QED BY <2>1, <2>2, <2>3
<1>9. CASE ResumeRunning(v, g)
  BY <1>7, <1>9 DEF ResumeRunning
<1>10. CASE ResumeFinished(v, code, g, how)
  <2>1. vm' = Results(v, code) /\ parked' = parked
    BY <1>7, <1>10 DEF ResumeFinished
  <2> QED BY <1>2, <1>6, <1>8, <2>1
<1>11. CASE ResumeParked(v, code, g, how)
  <2>1. PICK w, p, f : Reviving(v, E, C, o, m, code, g, how, w, p, f)
    BY <1>2, <1>4, <1>11, ReviveIs
  <2>2. /\ w \in Vms /\ Revived(v, code, g, w, p) /\ p = parked[g] /\ p # NotParked
        /\ g \in Ids /\ g \in 1..m /\ p.code.of = g /\ f = RevivedFrame(v, code, g)
        /\ f \in Frames /\ w.thrown = v.thrown
        /\ \/ vm' = Unwind(w)
           \/ vm' = Results(v, code)
           \/ vm' = w
    BY <2>1 DEF Reviving, Revived, Shelved
  <2>3. PICK qk : qk = parked'
    OBVIOUS
  <2>4. \A a \in Ids : qk[a] # NotParked => qk[a] = parked[a]
    BY <2>1, <2>3 DEF Reviving
  <2>5. vm' = Results(v, code) \/ vm' = w
    BY <1>6, <2>2, UnwindThrows
  <2>6. Giving(v, rs, o, m, parked)
    BY <1>2, <1>6, <1>8, <2>2, <2>5
  <2>7. Giving(w, rs, o, m, parked)
    BY <1>2, <1>5, <2>2, <2>6, GivingRevives
  <2>8. Giving(vm', rs, o, m, parked)
    BY <1>8, <2>5, <2>6, <2>7
  <2> QED BY <2>3, <2>4, <2>8, GivingTakes
<1> QED BY <1>5, <1>9, <1>10, <1>11 DEF Resume

(* An execution begins over the one that waits for it.                     *)
LEMMA WaitersAsks ==
    ASSUME NEW v, NEW rs, NEW w \in Vms, NEW ss, NEW call, Calls(v, rs, w, ss, call),
           call.running, v \in Vms, v.floor.frames <= Len(v.frames),
           \A k \in DOMAIN rs : rs[k].floor.frames <= v.floor.frames
    PROVE  Waiters(w, ss)
<1>0. PICK n \in Nat : OneMoreCall(rs, ss, call, n)
  BY CallAdded
<1>1. /\ Len(rs) = n /\ Len(ss) = n + 1
      /\ DOMAIN rs = 1..n /\ DOMAIN ss = 1..n + 1
      /\ ss[n + 1] = call
      /\ \A i \in 1..n : ss[i] = rs[i] /\ rs[i].running
  BY ONLY <1>0 DEF OneMoreCall
<1>2. /\ ss \in Seq(Waits) /\ rs \in Seq(Waits) /\ call.floor = v.floor /\ w.frames = v.frames
      /\ w.floor.frames = Len(v.frames)
  BY DEF Calls
<1>3. v.floor.frames \in Nat /\ Len(v.frames) \in Nat
  BY VmTypes
<1>4. ASSUME NEW k \in 1..n + 1
      PROVE  ss[k].running /\ ss[k].floor.frames <= w.floor.frames
  <2>1. CASE k = n + 1
    BY <1>1, <1>2, <2>1
  <2>2. CASE k # n + 1
    <3>1. k \in 1..n /\ ss[k] = rs[k]
      BY <1>1, <2>2
    <3>2. rs[k].floor.frames \in Nat
      BY <1>1, <1>2, <3>1, WaitTypes
    <3> QED BY <1>1, <1>2, <1>3, <3>1, <3>2, SMTT(30)
  <2> QED BY <2>1, <2>2
<1> QED BY <1>1, <1>2, <1>3, <1>4 DEF Waiters

LEMMA GivingConverts ==
    ASSUME SpineInv, GivingInv, Convert
    PROVE  GivingInv'
<1>1. PICK v, rs, E, C, o, m : AtEase(v, rs, E, C, o, m)
  BY GivingWorking DEF Convert, MayReenter, MayOpen
<1>2. /\ v = vm /\ rs = rust /\ o = own /\ m = made /\ v \in Vms /\ v.current \in Code
      /\ v.current # NoCode /\ AtWork(v, rs, E, C, o, m)
      /\ Waiters(v, rs) /\ (~v.thrown => Giving(v, rs, o, m, parked))
      /\ \A g \in Ids : parked[g] # NotParked => g \in 1..m
  BY <1>1 DEF AtEase, AtWork
<1>3. PICK call, u, f, w, p, q : Converts(v, rs, o, m, call, u, f, w, p, q)
  BY <1>2, ConvertIs
<1>4. /\ call \in Waits /\ call.running /\ call.kind = "conversion"
      /\ call.code = Open(v.current, "operand")
      /\ call.realm = v.regs.realm /\ call.floor = v.floor /\ call.regs = v.regs
      /\ u \in Vms /\ u.frames = v.frames /\ u.floor.frames = Len(v.frames)
      /\ f \in Frames /\ f.code = NoCode /\ f.regs = v.regs
      /\ w = vm' /\ p = own' /\ q = made' /\ rust' = Append(rs, call) /\ UNCHANGED objects
      /\ Entering(u, f, w, o, m, p, q) /\ w.thrown = v.thrown
  BY <1>3 DEF Converts, Entering
<1>5. PICK y, ss : y = [v EXCEPT !.current = NoCode, !.floor = u.floor] /\ ss = Append(rs, call)
  OBVIOUS
<1>6. SUFFICES ASSUME ~w.thrown
               PROVE  Giving(w, ss, p, q, parked)
  BY <1>4, <1>5 DEF GivingInv, objects
<1>7. /\ y \in Vms /\ y.frames = v.frames /\ y.current = NoCode /\ y.floor = u.floor
      /\ y.regs = v.regs
  BY <1>2, <1>4, <1>5, NoCodeIsCode DEF Vms
<1>8. Calls(v, rs, y, ss, call)
  <2>1. SameRegs(CallRegs(y, call), v.regs)
    <3>1. v.regs \in Registers
      BY <1>2, VmTypes
    <3> QED BY <1>4, <3>1 DEF CallRegs, SameRegs, Registers
  <2>2. call.code.of = v.current.of
    BY <1>2, <1>4, OpenIsCode DEF Constructs
  <2>3. /\ rs \in Seq(Waits) /\ v.frames \in Seq(Frames) /\ \A k \in DOMAIN rs : rs[k].running
    BY <1>2, VmTypes DEF Waiters
  <2> QED BY <1>2, <1>4, <1>5, <1>7, <2>1, <2>2, <2>3 DEF Calls
<1>9. Giving(y, ss, p, q, parked)
  <2>1. Giving(v, rs, o, m, parked) /\ More(o, m, p, q)
    BY <1>2, <1>4, <1>6 DEF Entering
  <2>2. Giving(v, rs, p, q, parked)
    BY <1>2, <2>1, GivingMore
  <2>3. GivesBack(y.regs, call)
    BY <1>4, <1>7 DEF GivesBack
  <2> QED BY <1>7, <1>8, <2>2, <2>3, GivingAsks
<1>10. Waiters(y, ss)
  BY <1>2, <1>4, <1>7, <1>8, WaitersAsks DEF Waiters
<1>11. /\ OneFrameMore(y, w, f) /\ w.floor = y.floor /\ SameRegs(f.regs, y.regs)
       /\ Fits(w.regs, w.current.of, p, q)
  <2>1. v.frames \in Seq(Frames)
    BY <1>2, VmTypes
  <2> QED BY <1>4, <1>7, <2>1, SameRelation DEF OneFrameMore, Entering, Fits, RegsFit
<1> QED BY <1>4, <1>9, <1>10, <1>11, GivingPushes

LEMMA GivingCallsNative ==
    ASSUME SpineInv, GivingInv, CallNative
    PROVE  GivingInv'
<1>1. PICK v, rs, E, C, o, m : AtEase(v, rs, E, C, o, m)
  BY GivingWorking DEF CallNative, MayReenter, MayOpen
<1>2. /\ v = vm /\ rs = rust /\ o = own /\ m = made /\ v \in Vms /\ v.current \in Code
      /\ v.current # NoCode /\ AtWork(v, rs, E, C, o, m)
      /\ Waiters(v, rs) /\ (~v.thrown => Giving(v, rs, o, m, parked))
  BY <1>1 DEF AtEase, AtWork
<1>3. PICK call, w, realm : Builtin(v, rs, call, w, realm)
  BY <1>2, CallNativeIs
<1>4. /\ call \in Waits /\ ~call.running
      /\ call.code = Open(v.current, "operand")
      /\ call.realm = v.regs.realm /\ call.floor = v.floor /\ call.regs = v.regs
      /\ w = vm' /\ w \in Vms /\ w.current = NoCode /\ w.regs = [v.regs EXCEPT !.realm = realm]
      /\ w.frames = v.frames /\ w.floor = v.floor /\ w.thrown = v.thrown
      /\ rust' = Append(rs, call) /\ UNCHANGED <<own, made, objects>>
  BY <1>3 DEF Builtin
<1>5. PICK ss : ss = Append(rs, call)
  OBVIOUS
<1>6. SUFFICES ASSUME ~w.thrown
               PROVE  Giving(w, ss, o, m, parked)
  BY <1>2, <1>4, <1>5 DEF GivingInv, objects
<1>7. Calls(v, rs, w, ss, call)
  <2>1. SameRegs(CallRegs(w, call), v.regs)
    <3>1. v.regs \in Registers
      BY <1>2, VmTypes
    <3> QED BY <1>4, <3>1 DEF CallRegs, SameRegs, Registers
  <2>2. call.code.of = v.current.of
    BY <1>2, <1>4, OpenIsCode DEF Constructs
  <2>3. /\ rs \in Seq(Waits) /\ v.frames \in Seq(Frames) /\ \A k \in DOMAIN rs : rs[k].running
    BY <1>2, VmTypes DEF Waiters
  <2> QED BY <1>2, <1>4, <1>5, <2>1, <2>2, <2>3 DEF Calls
<1>8. Giving(v, rs, o, m, parked)
  BY <1>2, <1>4, <1>6
<1> QED BY <1>4, <1>7, <1>8, GivingAsks

LEMMA GivingEvals ==
    ASSUME SpineInv, GivingInv, DirectEval
    PROVE  GivingInv'
<1>1. PICK v, rs, E, C, o, m : AtEase(v, rs, E, C, o, m)
  BY GivingWorking DEF DirectEval, MayReenter, MayOpen
<1>2. /\ v = vm /\ rs = rust /\ o = own /\ m = made /\ v \in Vms /\ v.current \in Code
      /\ v.current # NoCode /\ AtWork(v, rs, E, C, o, m) /\ o \in Owners /\ m \in Ids
      /\ Waiters(v, rs) /\ (~v.thrown => Giving(v, rs, o, m, parked))
      /\ \A g \in Ids : parked[g] # NotParked => g \in 1..m
  BY <1>1 DEF AtEase, AtWork, More
<1>3. PICK call, u, c, env, w, p, id : Evals(v, rs, o, m, call, u, c, env, w, p, id)
  BY <1>2, EvalIs
<1>4. /\ call \in Waits /\ call.running /\ call.kind = "eval"
      /\ call.code = Open(v.current, "operand")
      /\ call.realm = v.regs.realm /\ call.floor = v.floor /\ call.regs = v.regs
      /\ u.floor.frames = Len(v.frames) /\ id \in 1..id /\ id \in Ids /\ m <= id
      /\ c.of = id
      /\ w \in Vms /\ w.current = c /\ w.regs = [v.regs EXCEPT !.env = env]
      /\ w.frames = v.frames /\ w.floor.frames = Len(v.frames) /\ w.thrown = v.thrown
      /\ p \in Owners /\ p[id].kind = "eval" /\ p[id].regs = [o[v.current.of].regs EXCEPT !.env = env]
      /\ \A a \in 1..m : p[a] = o[a]
      /\ w = vm' /\ p = own' /\ id = made' /\ rust' = Append(rs, call) /\ UNCHANGED objects
  BY <1>3 DEF Evals
<1>5. PICK ss : ss = Append(rs, call)
  OBVIOUS
<1>6. SUFFICES ASSUME ~w.thrown
               PROVE  Giving(w, ss, p, id, parked)
  BY <1>4, <1>5 DEF GivingInv, objects
<1>7. v.regs \in Registers /\ w.regs.var = v.regs.var /\ w.regs.this = v.regs.this
      /\ w.regs.target = v.regs.target /\ w.regs.realm = v.regs.realm
  <2>1. v.regs \in Registers
    BY <1>2, VmTypes
  <2> QED BY <1>4, <2>1 DEF Registers
<1>8. Calls(v, rs, w, ss, call)
  <2>1. SameRegs(CallRegs(w, call), v.regs)
    BY <1>4, <1>7 DEF CallRegs, SameRegs, Registers
  <2>2. call.code.of = v.current.of
    BY <1>2, <1>4, OpenIsCode DEF Constructs
  <2>3. /\ rs \in Seq(Waits) /\ v.frames \in Seq(Frames) /\ \A k \in DOMAIN rs : rs[k].running
    BY <1>2, VmTypes DEF Waiters
  <2> QED BY <1>2, <1>4, <1>5, <2>1, <2>2, <2>3 DEF Calls
<1>9. Giving(v, rs, o, m, parked) /\ Giving(v, rs, p, id, parked)
  <2>1. More(o, m, p, id)
    BY <1>2, <1>4 DEF More
  <2> QED BY <1>2, <1>4, <1>6, <2>1, GivingMore
<1>10. Fits(w.regs, c.of, p, id)
  <2>1. Fits(v.regs, v.current.of, o, m)
    BY <1>2, <1>9 DEF Giving
  <2>2. v.current.of \in Ids
    BY <1>2, <2>1, ActivationAssumption DEF Fits, Ids
  <2>3. o[v.current.of].regs \in Registers
    BY <1>2, <2>2 DEF Owners
  <2>4. /\ p[id].regs.var = o[v.current.of].regs.var
        /\ p[id].regs.this = o[v.current.of].regs.this
        /\ p[id].regs.target = o[v.current.of].regs.target
    BY <1>4, <2>3 DEF Registers
  <2> QED BY <1>4, <1>7, <2>1, <2>4 DEF Fits, RegsFit
<1>11. GivesBack(w.regs, call)
  BY <1>4, <1>7 DEF GivesBack
<1> QED BY <1>4, <1>8, <1>9, <1>10, <1>11, GivingAsks

(* A Rust call comes back: the code that made it, as it was.               *)
LEMMA ReturnsCalls ==
    ASSUME NEW v, NEW rs, NEW n, NEW call, NEW u, NEW ts, NEW o, NEW m, NEW gs, NEW pk,
           Returns(v, rs, n, call, u, ts, o, m, gs, pk)
    PROVE  Waiters(u, ts) /\ Calls(u, ts, v, rs, call)
<1>1. /\ Spine(v, rs, o, m, gs, pk) /\ Spine(u, ts, o, m, gs, pk)
      /\ u.current # NoCode /\ u \in Vms /\ v.current = NoCode
      /\ call = Last(rs) /\ call \in Waits /\ rs = Append(ts, call) /\ ts \in Seq(Waits)
      /\ u.frames = v.frames /\ u.floor = call.floor /\ call.code.of = u.current.of
      /\ u.regs = CallRegs(v, call) /\ (~call.running => v.floor = call.floor)
  BY DEF Returns, CallRegs
<1>2. Waiters(u, ts)
  <2>1. ~InControl(ts)
    BY <1>1, TopFine
  <2> QED BY <1>1, <2>1, SpineWaiters
<1>3. call.running => v.floor.frames = Len(u.frames)
  <2>1. call.running => ~InControl(rs)
    BY <1>1 DEF InControl
  <2>2. call.running => Over(v, EntryOf(rs, Len(rs)))
    BY <1>1, <2>1 DEF Spine, TopIsFine
  <2> QED BY <1>1, <2>2 DEF Over
<1>4. u.frames \in Seq(Frames) /\ \A k \in DOMAIN ts : ts[k].running
  BY <1>1, <1>2, VmTypes DEF Waiters
<1>5. SameRegs(CallRegs(v, call), u.regs)
  BY <1>1, SameRelation
<1> QED BY <1>1, <1>2, <1>3, <1>4, <1>5 DEF Calls

LEMMA GivingReturns ==
    ASSUME NEW v, NEW rs, NEW n, NEW call, NEW u, NEW ts, NEW o, NEW m, NEW gs, NEW pk,
           Returns(v, rs, n, call, u, ts, o, m, gs, pk), Giving(v, rs, o, m, pk)
    PROVE  Waiters(u, ts) /\ Giving(u, ts, o, m, pk)
<1>1. Waiters(u, ts) /\ Calls(u, ts, v, rs, call)
  BY ReturnsCalls
<1> QED BY <1>1, GivingAnswers

(* And goes on from the answer.                                            *)
LEMMA GivingGoesOn ==
    ASSUME NEW v, NEW rs, NEW n, NEW call, NEW u, NEW ts, NEW o, NEW m, NEW gs, NEW pk,
           Returns(v, rs, n, call, u, ts, o, m, gs, pk), Giving(v, rs, o, m, pk),
           NEW w, w.frames = v.frames, w.floor = call.floor, w.current = call.code,
           SameRegs(w.regs, u.regs)
    PROVE  Giving(w, ts, o, m, pk)
<1>1. Waiters(u, ts) /\ Giving(u, ts, o, m, pk)
  BY GivingReturns
<1>2. /\ u.frames = v.frames /\ u.floor = call.floor /\ u.current # NoCode
      /\ call.code.of = u.current.of
  BY DEF Returns
<1> QED BY <1>1, <1>2, GivingSame

LEMMA GivingNativeAnswers ==
    ASSUME SpineInv, GivingInv, NativeAnswers
    PROVE  GivingInv'
<1>1. PICK n, call, u, ts : /\ Returns(vm, rust, n, call, u, ts, own, made, generators, parked)
                            /\ ~call.running /\ call = Last(rust)
  BY NativeReturning DEF NativeAnswers
<1>2. /\ vm \in Vms /\ ts = Front(rust) /\ call \in Waits /\ vm.floor = call.floor
      /\ u.regs = [vm.regs EXCEPT !.realm = call.realm]
  BY <1>1 DEF Returns
<1>3. PICK w, x : w = vm' /\ x = Answered(vm, call)
  OBVIOUS
<1>4. /\ w = [x EXCEPT !.regs.realm = call.realm] /\ rust' = ts
      /\ UNCHANGED <<own, made, generators, parked>>
  BY <1>1, <1>2, <1>3 DEF NativeAnswers, objects
<1>5. /\ x \in Vms /\ x.current = call.code /\ x.frames = vm.frames /\ x.floor = vm.floor
      /\ x.regs = vm.regs /\ x.thrown = vm.thrown
  BY <1>1, <1>2, <1>3, AnsweredIs
<1>6. call.realm \in Realms
  BY <1>2 DEF Waits
<1>7. /\ w.current = call.code /\ w.frames = vm.frames /\ w.floor = call.floor
      /\ w.regs = u.regs /\ w.thrown = vm.thrown
  BY <1>2, <1>4, <1>5, <1>6, RealmBack DEF Alike
<1>8. SUFFICES ASSUME ~w.thrown
               PROVE  Giving(w, ts, own, made, parked)
  BY <1>3, <1>4 DEF GivingInv
<1>9. Giving(vm, rust, own, made, parked)
  BY <1>7, <1>8 DEF GivingInv
<1> QED BY <1>1, <1>7, <1>9, SameRelation, GivingGoesOn

LEMMA GivingNativeThrows ==
    ASSUME SpineInv, NativeThrows
    PROVE  GivingInv'
<1>1. PICK n, call, u, ts : /\ Returns(vm, rust, n, call, u, ts, own, made, generators, parked)
                            /\ ~call.running /\ call = Last(rust)
  BY NativeReturning DEF NativeThrows
<1>2. vm \in Vms /\ call \in Waits /\ vm.stack = u.stack
  BY <1>1 DEF Returns
<1>3. PICK x \in Vms : Failed(vm, call) = Unwind(x)
  BY <1>1, <1>2, FailedIs
<1>4. PICK y : y = Unwind(x)
  OBVIOUS
<1>5. y.thrown
  BY <1>4, UnwindThrows
<1>6. vm' = [y EXCEPT !.regs.realm = call.realm]
  BY <1>1, <1>3, <1>4 DEF NativeThrows
<1>7. vm'.thrown
  <2>1. "thrown" \in DOMAIN y \/ vm'.thrown = y.thrown
    BY <1>6
  <2> QED BY <1>5, <1>6, <2>1
<1> QED BY <1>7 DEF GivingInv

(* What an execution leaves is what the call put back does not.            *)
LEMMA EndsGiving ==
    ASSUME NEW n, NEW call, NEW u, NEW ts, NEW b, Ending(n, call, u, ts, b),
           Giving(vm, rust, own, made, parked)
    PROVE  /\ b.regs.var = u.regs.var /\ b.regs.this = u.regs.this
           /\ b.regs.target = u.regs.target
           /\ call.kind # "native" => b.regs.realm = u.regs.realm
<1>1. /\ Returns(vm, rust, n, call, u, ts, own, made, generators, parked) /\ call.running
      /\ vm \in Vms /\ call = rust[n] /\ n = Len(rust) /\ rust \in Seq(Waits) /\ call \in Waits
      /\ u.regs = [call.regs EXCEPT !.realm = call.realm] /\ b.regs = GivenBack(call)
  BY DEF Ending
<1>2. n \in DOMAIN rust /\ n \in Nat
  <2>1. rust = Append(ts, call) /\ ts \in Seq(Waits)
    BY <1>1 DEF Returns
  <2> QED BY <1>1, <2>1, SMTT(30)
<1>3. Len(vm.frames) = vm.floor.frames /\ vm.floor.frames \in Nat
  <2>1. ~InControl(rust) /\ vm.current = NoCode
    BY <1>1, SMTT(30) DEF InControl, Returns
  <2>2. Over(vm, EntryOf(rust, Len(rust)))
    BY <1>1, <2>1 DEF Returns, Spine, TopIsFine
  <2> QED BY <1>1, <2>2, VmTypes, SMTT(30) DEF Over
<1>4. GivesBack(vm.regs, call)
  <2>1. GivesBack(EndsWith(vm, rust, n), call)
    BY <1>1, <1>2 DEF Giving, CallsGivenBack
  <2>2. /\ FloorAt(vm, rust, n) = vm.floor.frames /\ CeilingAt(vm, rust, n) = vm.floor.frames
        /\ ~(n < Len(rust))
    BY <1>1, <1>2, <1>3 DEF FloorAt, CeilingAt
  <2>3. EndsWith(vm, rust, n) = vm.regs
    BY <1>3, <2>2 DEF EndsWith
  <2> QED BY <2>1, <2>3
<1>5. vm.regs \in Registers /\ call.regs \in Registers
  BY <1>1, VmTypes DEF Waits
<1>6. /\ b.regs.var = call.regs.var /\ b.regs.target = vm.regs.target
      /\ b.regs.this = (IF call.kind = "eval" THEN vm.regs.this ELSE call.regs.this)
      /\ b.regs.realm = vm.regs.realm
  BY <1>1, <1>5 DEF GivenBack, Registers
<1>7. /\ u.regs.var = call.regs.var /\ u.regs.target = call.regs.target
      /\ u.regs.this = call.regs.this /\ u.regs.realm = call.realm
  BY <1>1, <1>5 DEF Registers
<1> QED BY <1>4, <1>6, <1>7 DEF GivesBack

LEMMA GivingEnds ==
    ASSUME SpineInv, GivingInv, ExecutionEnds
    PROVE  GivingInv'
<1>1. PICK n, call, u, ts, b : Ending(n, call, u, ts, b)
  BY EndingIs
<1>2. Returns(vm, rust, n, call, u, ts, own, made, generators, parked) /\ call.running
  BY <1>1 DEF Ending
<1>3. /\ vm \in Vms /\ call \in Waits /\ ts = Front(rust) /\ rust \in Seq(Waits)
      /\ u.frames = vm.frames /\ u.floor = call.floor /\ call = rust[n] /\ n = Len(rust)
      /\ b \in Vms /\ b.floor = call.floor /\ b.stack = u.stack
      /\ b.frames = vm.frames /\ b.current = NoCode /\ b.thrown = vm.thrown
      /\ UNCHANGED <<own, made, generators, parked>>
  BY <1>1 DEF Ending
<1>4. IF call.kind = "native"
      THEN /\ vm' = b
           /\ rust' = [rust EXCEPT ![Len(rust)].running = FALSE,
                                   ![Len(rust)].failed = vm.escaped]
      ELSE /\ rust' = ts
           /\ vm' = IF vm.escaped THEN Failed(b, call) ELSE Answered(b, call)
  BY <1>1 DEF Ending
<1>5. rust # <<>>
  BY DEF ExecutionEnds
<1>6. CASE call.kind = "native"
  <2>1. PICK d, ss : /\ d = [call EXCEPT !.running = FALSE, !.failed = vm.escaped]
                     /\ ss = rust'
    OBVIOUS
  <2>2. /\ d \in Waits /\ d.code = call.code /\ ~d.running /\ d.realm = call.realm
        /\ d.floor = call.floor
    <3>1. vm.escaped \in BOOLEAN
      BY <1>3 DEF Vms
    <3> QED BY <1>3, <2>1, <3>1 DEF Waits
  <2>3. ss = Append(ts, d)
    <3>1. n \in DOMAIN rust
      BY <1>3, <1>5
    <3>2. ss = [rust EXCEPT ![n] = d]
      BY <1>3, <1>4, <1>6, <2>1, <3>1
    <3>3. [rust EXCEPT ![Len(rust)] = d] = Append(Front(rust), d)
      BY <1>3, <1>5, <2>2, LastReplaced
    <3> QED BY <1>3, <3>2, <3>3
  <2>4. SUFFICES ASSUME ~b.thrown
                 PROVE  Giving(b, ss, own, made, parked)
    BY <1>3, <1>4, <1>6, <2>1 DEF GivingInv
  <2>5. Giving(vm, rust, own, made, parked)
    BY <1>3, <2>4 DEF GivingInv
  <2>6. Waiters(u, ts) /\ Giving(u, ts, own, made, parked)
    BY <1>2, <2>5, GivingReturns
  <2>7. Calls(u, ts, b, ss, d)
    <3>1. SameRegs(CallRegs(b, d), u.regs)
      <4>1. CallRegs(b, d) = [b.regs EXCEPT !.realm = call.realm] /\ b.regs \in Registers
        BY <1>3, <2>2, VmTypes DEF CallRegs
      <4>2. /\ b.regs.var = u.regs.var /\ b.regs.this = u.regs.this
            /\ b.regs.target = u.regs.target
        BY <1>1, <2>5, EndsGiving
      <4>3. u.regs.realm = call.realm
        BY <1>1 DEF Ending
      <4> QED BY <4>1, <4>2, <4>3 DEF SameRegs, Registers
    <3>2. /\ ts \in Seq(Waits) /\ u.frames \in Seq(Frames) /\ \A k \in DOMAIN ts : ts[k].running
      BY <2>6, VmTypes DEF Waiters
    <3>3. u.current # NoCode /\ d.code.of = u.current.of
      BY <1>2, <2>2 DEF Returns
    <3> QED BY <1>3, <2>2, <2>3, <3>1, <3>2, <3>3 DEF Calls
  <2> QED BY <1>3, <2>2, <2>6, <2>7, GivingAsks
<1>7. CASE call.kind # "native"
  <2>1. PICK x, y : x = Answered(b, call) /\ y = Failed(b, call)
    OBVIOUS
  <2>2. y.thrown
    <3>1. PICK z \in Vms : Failed(b, call) = Unwind(z)
      BY <1>2, <1>3, FailedIs
    <3> QED BY <2>1, <3>1, UnwindThrows
  <2>3. rust' = ts /\ (vm' = x \/ vm' = y)
    BY <1>4, <1>7, <2>1
  <2>4. SUFFICES ASSUME ~x.thrown
                 PROVE  Giving(x, ts, own, made, parked)
    BY <1>3, <2>2, <2>3 DEF GivingInv
  <2>5. /\ x.current = call.code /\ x.frames = vm.frames /\ x.floor = call.floor
        /\ x.regs = b.regs /\ x.thrown = vm.thrown
    BY <1>2, <1>3, <2>1, AnsweredIs
  <2>6. Giving(vm, rust, own, made, parked)
    BY <2>4, <2>5 DEF GivingInv
  <2>7. SameRegs(x.regs, u.regs)
    BY <1>1, <1>7, <2>5, <2>6, EndsGiving DEF SameRegs
  <2> QED BY <1>2, <2>5, <2>6, <2>7, GivingGoesOn
<1> QED BY <1>6, <1>7

(* A built-in calls back, and waits.                                       *)
LEMMA GivingReaches ==
    ASSUME NEW n, NEW call, NEW u, NEW ts, NEW x, NEW d, NEW w, NEW p, NEW q,
           CallsBack(n, call, u, ts, x, d, w, p, q), Giving(vm, rust, own, made, parked)
    PROVE  \E ss : /\ rust' = ss /\ Waiters(x, ss) /\ Giving(x, ss, own, made, parked)
<1>1. /\ Returns(vm, rust, n, call, u, ts, own, made, generators, parked) /\ ~call.running
      /\ x.regs = vm.regs /\ x \in Vms /\ Raised(u, x)
      /\ d = [call EXCEPT !.running = TRUE, !.failed = FALSE,
                          !.regs = vm.regs, !.floor = vm.floor]
      /\ d \in Waits /\ rust' = Append(ts, d)
  BY DEF CallsBack
<1>2. /\ call \in Waits /\ call.kind = "native" /\ vm.floor = call.floor /\ u.floor = call.floor
      /\ u.regs = [vm.regs EXCEPT !.realm = call.realm] /\ call.code.of = u.current.of
      /\ u.current # NoCode /\ u \in Vms
  BY <1>1 DEF Returns
<1>3. /\ d.running /\ d.kind = "native" /\ d.regs = vm.regs /\ d.floor = u.floor
      /\ d.code = call.code /\ d.realm = call.realm
  BY <1>1, <1>2 DEF Waits
<1>4. Waiters(u, ts) /\ Giving(u, ts, own, made, parked)
  BY <1>1, GivingReturns
<1>5. PICK ss : ss = Append(ts, d)
  OBVIOUS
<1>6. x.frames = u.frames /\ x.floor.frames = Len(u.frames) /\ x.current = NoCode
  BY <1>1 DEF Raised
<1>7. Calls(u, ts, x, ss, d)
  <2>1. SameRegs(CallRegs(x, d), u.regs)
    <3>1. CallRegs(x, d) = u.regs
      BY <1>2, <1>3 DEF CallRegs
    <3> QED BY <3>1, SameRelation
  <2>2. /\ ts \in Seq(Waits) /\ u.frames \in Seq(Frames) /\ \A k \in DOMAIN ts : ts[k].running
    BY <1>2, <1>4, VmTypes DEF Waiters
  <2> QED BY <1>1, <1>2, <1>3, <1>5, <1>6, <2>1, <2>2 DEF Calls
<1>8. GivesBack(x.regs, d)
  BY <1>1, <1>3 DEF GivesBack
<1>9. Giving(x, ss, own, made, parked)
  BY <1>4, <1>6, <1>7, <1>8, GivingAsks
<1>10. Waiters(x, ss)
  <2>1. /\ x \in Vms /\ u \in Vms /\ Calls(u, ts, x, ss, d) /\ d.running
        /\ u.floor.frames <= Len(u.frames)
        /\ \A k \in DOMAIN ts : ts[k].floor.frames <= u.floor.frames
    BY <1>1, <1>2, <1>3, <1>4, <1>7 DEF Waiters
  <2> QED BY ONLY <2>1, WaitersAsks
<1> QED BY <1>1, <1>5, <1>9, <1>10

LEMMA GivingCallsBack ==
    ASSUME SpineInv, GivingInv, CallBack
    PROVE  GivingInv'
<1>1. PICK n, call, u, ts, x, d, w, p, q : CallsBack(n, call, u, ts, x, d, w, p, q)
  BY CallBackIs
<1>2. /\ Spine(u, ts, own, made, generators, parked)
      /\ made \in Ids /\ Raised(u, x) /\ x \in Vms /\ x.thrown = vm.thrown
      /\ w = vm' /\ p = own' /\ q = made'
  BY <1>1 DEF CallsBack
<1>3. \A g \in Ids : parked[g] # NotParked => g \in 1..made
  BY <1>2 DEF Spine
<1>4. ASSUME ~vm.thrown
      PROVE  \E ss : /\ rust' = ss /\ Waiters(x, ss) /\ Giving(x, ss, own, made, parked)
  <2>1. Giving(vm, rust, own, made, parked)
    BY <1>4 DEF GivingInv
  <2> QED BY <1>1, <2>1, GivingReaches
<1>5. SUFFICES ASSUME ~vm'.thrown
               PROVE  Giving(vm', rust', own', made', parked')
  BY DEF GivingInv
<1>6. ASSUME NEW f, Entering(x, f, w, own, made, p, q), UNCHANGED objects,
             f \in Frames, f.code = NoCode, f.regs = x.regs
      PROVE  Giving(vm', rust', own', made', parked')
  <2>1. ~vm.thrown
    BY <1>2, <1>5, <1>6 DEF Entering
  <2>2. PICK ss : rust' = ss /\ Waiters(x, ss) /\ Giving(x, ss, own, made, parked)
    BY <1>4, <2>1
  <2>3. Giving(x, ss, p, q, parked)
    <3>1. More(own, made, p, q)
      BY <1>6 DEF Entering
    <3> QED BY <1>3, <2>2, <3>1, GivingMore
  <2>4. /\ OneFrameMore(x, w, f) /\ w.floor = x.floor /\ SameRegs(f.regs, x.regs)
        /\ Fits(w.regs, w.current.of, p, q)
    <3>1. x.frames \in Seq(Frames)
      BY <1>2, VmTypes
    <3> QED BY <1>6, <3>1, SameRelation DEF OneFrameMore, Entering, Fits, RegsFit
  <2>5. Giving(w, ss, p, q, parked)
    BY <1>6, <2>2, <2>3, <2>4, GivingPushes
  <2> QED BY <1>2, <1>6, <2>2, <2>5 DEF objects
<1>7. ASSUME NEW g \in generators, NEW how, Resume(x, NoCode, g, how)
      PROVE  Giving(vm', rust', own', made', parked')
  <2>1. own' = own /\ made' = made
    BY <1>7 DEF Resume
  <2>2. vm' # Unwind(x)
    BY <1>2, <1>5, UnwindThrows
  <2>3. PICK z : z = Results(x, NoCode)
    OBVIOUS
  <2>4. /\ z.frames = x.frames /\ z.current = NoCode /\ z.floor = x.floor /\ z.regs = x.regs
        /\ z.thrown = x.thrown
    BY <1>2, <2>3, ResultsAre, NoCodeIsCode
  <2>5. ASSUME vm' = z, parked' = parked \/ \A a \in Ids : parked'[a] # NotParked => parked'[a] = parked[a]
        PROVE  Giving(vm', rust', own', made', parked')
    <3>1. ~vm.thrown
      BY <1>2, <1>5, <2>4, <2>5
    <3>2. PICK ss : rust' = ss /\ Waiters(x, ss) /\ Giving(x, ss, own, made, parked)
      BY <1>4, <3>1
    <3>3. Giving(z, ss, own, made, parked)
      BY <2>4, <3>2, SameRelation, GivingSame
    <3>4. PICK qk : qk = parked'
      OBVIOUS
    <3>5. \A a \in Ids : qk[a] # NotParked => qk[a] = parked[a]
      BY <2>5, <3>4
    <3>6. Giving(z, ss, own, made, qk)
      BY <3>3, <3>5, GivingTakes
    <3> QED BY <2>1, <2>5, <3>2, <3>4, <3>6
  <2>6. CASE ResumeRunning(x, g)
    BY <2>2, <2>6 DEF ResumeRunning
  <2>7. CASE ResumeFinished(x, NoCode, g, how)
    BY <2>2, <2>3, <2>5, <2>7 DEF ResumeFinished
  <2>8. CASE ResumeParked(x, NoCode, g, how)
    <3>1. PICK y, k, f : Rejoining(x, own, made, g, how, y, k, f)
      BY <1>2, <2>8, RejoinIs
    <3>2. /\ y \in Vms /\ Revived(x, NoCode, g, y, k) /\ k = parked[g] /\ k # NotParked
          /\ g \in Ids /\ g \in 1..made /\ k.code.of = g /\ f = RevivedFrame(x, NoCode, g)
          /\ f \in Frames /\ y.thrown = x.thrown
          /\ \/ vm' = Unwind(y)
             \/ vm' = Results(x, NoCode)
             \/ vm' = y
      BY <3>1 DEF Rejoining, Revived, Shelved
    <3>3. PICK qk : qk = parked'
      OBVIOUS
    <3>4. \A a \in Ids : qk[a] # NotParked => qk[a] = parked[a]
      BY <3>1, <3>3 DEF Rejoining
    <3>5. vm' = z \/ vm' = y
      BY <1>5, <2>3, <3>2, UnwindThrows
    <3>6. CASE vm' = z
      BY <2>5, <3>3, <3>4, <3>6
    <3>7. CASE vm' = y
      <4>1. ~vm.thrown
        BY <1>2, <1>5, <3>2, <3>7
      <4>2. PICK ss : rust' = ss /\ Waiters(x, ss) /\ Giving(x, ss, own, made, parked)
        BY <1>4, <4>1
      <4>3. Giving(y, ss, own, made, parked)
        BY <1>2, <3>2, <4>2, NoCodeIsCode, GivingRevives
      <4>4. Giving(y, ss, own, made, qk)
        BY <3>4, <4>3, GivingTakes
      <4> QED BY <2>1, <3>3, <3>7, <4>2, <4>4
    <3> QED BY <3>5, <3>6, <3>7
  <2> QED BY <1>7, <2>6, <2>7, <2>8 DEF Resume
<1> QED BY <1>1, <1>6, <1>7 DEF CallsBack

LEMMA GivingBegins ==
    ASSUME Init
    PROVE  GivingInv
<1>1. PICK regs : regs = [NoRegisters EXCEPT !.env.of = 1, !.var = 1, !.this = 1]
  OBVIOUS
<1>2. /\ vm.frames = <<>> /\ rust = <<>> /\ vm.regs = regs /\ vm.current.of = 1
      /\ own = [a \in Ids |-> [kind |-> "script", regs |-> regs]] /\ made = 1
      /\ \A g \in Ids : parked[g] = NotParked
  BY <1>1 DEF Init, NoCode
<1>3. 1 \in Ids
  BY ActivationAssumption DEF Ids
<1>4. Fits(vm.regs, 1, own, made)
  BY <1>2, <1>3 DEF Fits, RegsFit
<1> QED BY <1>2, <1>4 DEF GivingInv, Giving, FramesOwn, CallsOwn, CallsGivenBack, ShelvesOwn

LEMMA GivingStays ==
    ASSUME SpineInv, GivingInv, [Next]_vars
    PROVE  GivingInv'
<1>1. CASE UNCHANGED vars
  BY <1>1 DEF vars, objects, GivingInv
<1>2. CASE Next
  BY <1>2, GivingStep, GivingThrow, GivingCall, GivingTailCall, GivingReturn, GivingChunkEnds,
     GivingStarts, GivingYields, GivingResumes, GivingConverts, GivingCallsNative,
     GivingCallsBack, GivingNativeAnswers, GivingNativeThrows, GivingEvals, GivingEnds, SMTT(30) DEF Next
<1> QED BY <1>1, <1>2

LEMMA GivingIsOwn ==
    ASSUME GivingInv
    PROVE  RegistersAreOwn
<1>1. SUFFICES ASSUME ~vm.thrown, Executing
               PROVE  /\ vm.regs.var = own[Here.of].regs.var
                      /\ vm.regs.this = own[Here.of].regs.this
                      /\ vm.regs.target = own[Here.of].regs.target
                      /\ own[Here.of].kind \notin {"generator", "eval"} =>
                            vm.regs.realm = own[Here.of].regs.realm
  BY DEF RegistersAreOwn, VarEnvironmentIsOwn, ThisIsOwn, NewTargetIsOwn, RealmIsOwn
<1>2. Fits(vm.regs, vm.current.of, own, made)
  BY <1>1 DEF GivingInv, Giving, Executing, Here
<1> QED BY <1>2 DEF Fits, RegsFit, Here

(* Until something is thrown, code runs with the variable environment,      *)
(* `this`, `new.target` and realm its body was entered with, whatever it    *)
(* called, resumed or asked of Rust.  By induction over GivingInv, above     *)
(* SpineInv: the frames, the waiting Rust calls and the parked bodies hold  *)
(* such registers too, and each execution will end with what the call that  *)
(* waits for it does not put back itself.                                   *)
THEOREM RegistersStayOwn == Spec => []RegistersAreOwn
<1>1. Init => SpineInv /\ GivingInv
  BY SpineStarts, GivingBegins
<1>2. SpineInv /\ GivingInv /\ [Next]_vars => SpineInv' /\ GivingInv'
  BY SpineStays, GivingStays
<1>3. SpineInv /\ GivingInv => RegistersAreOwn
  BY GivingIsOwn
<1> QED BY <1>1, <1>2, <1>3, PTL DEF Spec
=============================================================================
