-------------------------- MODULE TargetResolution --------------------------
(***************************************************************************)
(* The size a video is encoded to: calc_target_resolution, as called for   *)
(* the list of profiles the user chooses from, and for an encode, where a  *)
(* profile that would enlarge the video is replaced by the next one.       *)
(*                                                                         *)
(* PROFILES fills the fields of EncodingProfile in the wrong order: what   *)
(* the code takes for fixed_dim is the larger number of each entry, and    *)
(* is_source is an empty list, which is false, for all of them.            *)
(***************************************************************************)
EXTENDS Integers, Sequences

CONSTANTS Sources,  \* sizes of videos, with their sample aspect ratio: [w, h, num, den]
          PROFILES  \* fixed_dim of each profile, from the first to the last

VARIABLES caller,
          source,
          chosen,   \* the profile asked for
          profile,  \* the one that is tried
          pc,
          target,   \* [w, h]
          tag       \* the recommendation of the prompt

vars == <<caller, source, chosen, profile, pc, target, tag>>

TypeOK ==
    /\ caller \in {"prompt", "encode"}
    /\ source \in Sources
    /\ chosen \in DOMAIN PROFILES /\ profile \in DOMAIN PROFILES
    /\ pc \in {"try", "found", "missing", "raised"}
    /\ target \in [w : Nat, h : Nat]
    /\ tag \in {"none", "Forced Upscaling", "Resolution Matches"}

\* The prompt knows nothing of sample aspect ratios, and shows only videos
\* with a size.
Init ==
    /\ caller \in {"prompt", "encode"}
    /\ source \in Sources
    /\ caller = "prompt" => source.w * source.h > 0 /\ source.num = source.den
    /\ chosen \in DOMAIN PROFILES
    /\ profile = chosen
    /\ pc = "try"
    /\ target = [w |-> 0, h |-> 0]
    /\ tag = "none"

\* The multiple of 16 nearest to a whole number, of two the one whose
\* quotient is even: Python's round.
To16(n) == LET q == n \div 16
           IN  16 * (IF n % 16 < 8 \/ (n % 16 = 8 /\ q % 2 = 0) THEN q ELSE q + 1)

\* The same of a quotient; on which side a tie falls depends on the floats.
Near16(n, d) == {16 * q : q \in {k \in {n \div (16 * d), n \div (16 * d) + 1} :
                                    2 * (16 * d * k - n) \in -16 * d .. 16 * d}}

Landscape(s) == s.w >= s.h

\* The longer side follows from the shorter, with the sample aspect ratio.
Targets(s, dim) ==
    CASE dim = 0 -> {[w |-> To16(s.w), h |-> To16(s.h)]}
      [] dim > 0 /\ Landscape(s) ->
             {[w |-> w, h |-> To16(dim)] : w \in Near16(s.num * dim * s.w, s.den * s.h)}
      [] dim > 0 /\ ~Landscape(s) ->
             {[w |-> To16(dim), h |-> h] : h \in Near16(s.num * dim * s.h, s.den * s.w)}

\* Mutant: only the height is looked at.
FitsHeight(s, t) == t.h <= s.h

Fits(s, t) == t.h <= s.h /\ t.w <= s.w

Tag(s, t) == CASE t.w > s.w -> "Forced Upscaling"
               [] t.w = s.w -> "Resolution Matches"
               [] t.w < s.w -> "none"

\* _generate_encode_command refuses a video without a size.
MissingSize ==
    /\ pc = "try" /\ caller = "encode"
    /\ source.w = 0 \/ source.h = 0
    /\ pc' = "missing"
    /\ UNCHANGED <<caller, source, chosen, profile, target, tag>>

\* After the last profile the list has no entry: IndexError.
TryProfile ==
    /\ pc = "try" /\ source.w > 0 /\ source.h > 0
    /\ \E t \in Targets(source, PROFILES[profile]) :
          IF caller = "prompt" \/ Fits(source, t)
          THEN /\ pc' = "found"
               /\ target' = t
               /\ tag' = IF caller = "prompt" THEN Tag(source, t) ELSE "none"
               /\ UNCHANGED profile
          ELSE /\ IF profile < Len(PROFILES)
                  THEN profile' = profile + 1 /\ UNCHANGED pc
                  ELSE pc' = "raised" /\ UNCHANGED profile
               /\ UNCHANGED <<target, tag>>
    /\ UNCHANGED <<caller, source, chosen>>

Next == MissingSize \/ TryProfile

Spec == Init /\ [][Next]_vars

-----------------------------------------------------------------------------

Abs(n) == IF n < 0 THEN -n ELSE n

\* An encode never enlarges a video in either direction, takes no later
\* profile than it must, raises only when even the last one enlarges it, and
\* keeps the shape up to the rounding to 16 - of square pixels, and of others
\* when the video is wider than high and the profile has a size of its own.
TargetFits ==
    LET t == target s == source IN
    /\ caller = "encode" /\ pc = "found" => t.w <= s.w /\ t.h <= s.h
    /\ caller = "encode" /\ pc \in {"found", "raised"} =>
          \A p \in chosen .. profile :
              p < profile \/ pc = "raised" =>
                  \E u \in Targets(s, PROFILES[p]) : u.w > s.w \/ u.h > s.h
    /\ pc = "found" /\ (s.num = s.den \/ (Landscape(s) /\ PROFILES[profile] > 0)) =>
          Abs(t.w * s.h * s.den - t.h * s.w * s.num) <= 8 * (s.h * s.den + s.w * s.num)
-----------------------------------------------------------------------------
(* For the proof of it.                                                    *)

SizeConstants ==
    /\ Sources \subseteq [w : Nat, h : Nat, num : Nat \ {0}, den : Nat \ {0}]
    /\ PROFILES \in Seq(Nat)

\* Every profile before the one that is tried enlarges the video.
Inv ==
    /\ TypeOK
    /\ chosen <= profile
    /\ pc \in {"found", "raised"} => source.w > 0 /\ source.h > 0
    /\ pc = "found" =>
          /\ target \in Targets(source, PROFILES[profile])
          /\ caller = "encode" => Fits(source, target)
    /\ caller = "encode" => \A p \in chosen .. profile :
          p < profile \/ pc = "raised" =>
              \E u \in Targets(source, PROFILES[p]) : ~ Fits(source, u)
=============================================================================
