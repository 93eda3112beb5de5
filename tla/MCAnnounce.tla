----------------------------- MODULE MCAnnounce -----------------------------
(* Announce for model checking: two locations, one of them on two servers, *)
(* one server with two transports; texts of one and of two lines, one that *)
(* extends another and one without the prefix that makes it appendable.    *)
EXTENDS Announce

Line(rule, word) == {[rule |-> rule, labels |-> {word}]}

MCMembers == {"m1", "m2", "m3", "m4"}
MCLocationOf == [m \in MCMembers |-> IF m = "m4" THEN "l2" ELSE "l1"]
MCServerOf == [m \in MCMembers |-> CASE m = "m3" -> "s2" [] m = "m4" -> "s3" [] OTHER -> "s1"]
\* Healthy, one server of l1 down, l1 down and l2 paused, l1 uncertain and l2
\* gone; after a restart or a project window all of them are pending.
MCViews ==
    LET V(a, b, c) == [m \in MCMembers |-> CASE m = "m3" -> b [] m = "m4" -> c [] OTHER -> a]
    IN {V("healthy", "healthy", "healthy"), V("healthy", "down", "healthy"),
        V("down", "down", "paused"), V("down", "ambiguous", "gone")}
MCOpTexts == {<<Line("plain", "a")>>, <<Line("text", "a")>>, <<Line("text", "a"), Line("text", "b")>>}
MCRuleSets == {Rules, {"all", "single", "maintenanceSingle"}}
=============================================================================
