---------------------------- MODULE MCStoryboard ----------------------------
(* Models of Storyboard for TLC: two or three stories, each with a speed   *)
(* of its own, with one effect each or some with two.                     *)
EXTENDS Storyboard

CONSTANTS s1, s2, s3

TwoStories == <<s1, s2>>
ThreeStories == <<s1, s2, s3>>
SingleEffects == s1 :> <<10>> @@ s2 :> <<20>> @@ s3 :> <<30>>
DoubleEffects == s1 :> <<10, 11>> @@ s2 :> <<20>> @@ s3 :> <<30, 31>>
=============================================================================
