----------------------- MODULE LocalizationDictionary -----------------------
(***************************************************************************)
(* The Russian dictionary of web/static/localization.js and translate.     *)
(*                                                                         *)
(* A text is [form, arg, shape]: its wording, what the page put into the   *)
(* wording (a number, a name; "" for fixed texts), and the white space it  *)
(* carries: "padded" around it, "wrapped" by a line break inside it.       *)
(* Russian wordings are transliterated.                                    *)
(*                                                                         *)
(* Of the 837 texts the literal ru translates, a section below names those *)
(* that translate or the observer can tell from an ordinary entry: entries *)
(* left as they are, entries whose translation is a key again, texts with  *)
(* two entries of which the later counts, keys a pattern accepts too (one  *)
(* per section for the thirteen that begin with Select), and texts that    *)
(* share a translation.  The others have a translation of their own in     *)
(* Cyrillic that no entry and no pattern accepts, and one or two of them   *)
(* stand for all of a section.                                             *)
(***************************************************************************)
EXTENDS Naturals, Sequences, FiniteSetsExt, TLC

Text(form, arg) == [form |-> form, arg |-> arg, shape |-> "plain"]
normalized(t) == [t EXCEPT !.shape = "plain"]
Nothing == Text("", "")

-----------------------------------------------------------------------------
(* The sections of the literal. *)

\* The public dashboard.
RuDashboard ==
    [w \in {"Online", "Offline", "Proxy failure", "Default", "Health", "Docs",
            "Check:", "Timeout:"} |-> w]
    @@ ("Total" :> "Vsego" @@ "All" :> "Vse" @@ "Copied!" :> "Skopirovano!")

\* Admin page, agents, probes and their verdicts.  Of the two entries for "No
\* signed observation" the later one is here.
RuAgents ==
    [w \in {"Idle", "Dashboard", "Nodes Overview", "Speed History", "Backup", "Subscription",
            "Cooldown", "Test URL", "Endpoint", "TLS handshake"} |-> w]
    @@ ("Low speed" :> "Nizkaya skorost" @@ "Timed out" :> "Taimaut"
        @@ "Concurrency" :> "Parallelnye sessii" @@ "Reserve Test URL" :> "Rezervnyy Test URL"
        @@ "No signed observation was recorded for this probe." :> "Ne zapisano podpisannoe nablyudenie"
        @@ "Last updated: n/a" :> "Poslednee obnovlenie: n/a"
        @@ "Select a diagnostic to run" :> "Vyberite vid diagnostiki")

\* Project maintenance, node controls, overview, incidents and speed history.
RuOperations ==
    [w \in {"Update Subscription", "Node Test URL", "Run Check", "Bot token", "Check", "Run",
            "Merge", "Scope", "Concurrency", "Mute", "Restore", "Speedtest"} |-> w]
    @@ ("Ascending" :> "Po vozrastaniyu" @@ "Descending" :> "Po ubyvaniyu"
        @@ "Muted" :> "Mute" @@ "Speed test" :> "Speedtest" @@ "Speed Test" :> "Speedtest"
        @@ "Project maintenance active" :> "Obsluzhivanie proekta vklyucheno"
        @@ "Project maintenance enabled" :> "Obsluzhivanie proekta vklyucheno"
        @@ "Low Mbps" :> "Low-speed threshold, Mbps"
        @@ "Cause" :> "Prichina" @@ "Reason" :> "Prichina" @@ "Error" :> "Oshibka"
        @@ "Last seen" :> "Poslednyaya aktivnost" @@ "Delete" :> "Udalit" @@ "Source" :> "Istochnik"
        @@ "Nodes" :> "Nody" @@ "Select exactly one node" :> "Vyberite rovno odnu nodu"
        @@ "Select all visible nodes" :> "Vybrat vse vidimye nody")

\* Remnawave announce.
RuAnnounce ==
    [w \in {"Environment gate", "Topology", "Policy", "Preview", "Members",
            "Managed status line", "Managed", "Unmanaged"} |-> w]
    @@ ("Disabled" :> "Otklyucheno" @@ "Off" :> "Vyklyucheno" @@ "Remove" :> "Udalit" @@ "Nodes" :> "Nody"
        @@ "Ready" :> "Gotovo" @@ "Select checker node" :> "Vyberite nodu checker"
        @@ "Remnawave Host for location" :> "Remnawave Host dlya lokatsii")

\* Node merge, results and notices.
RuMerge ==
    [w \in {"Retired source", "Active target"} |-> w]
    @@ ("Done" :> "Gotovo" @@ "Timeout" :> "Taimaut" @@ "Failed" :> "Oshibka"
        @@ "Reserve Test URL" :> "Rezervnyy Test URL" @@ "All subscriptions" :> "Vse podpiski"
        @@ "Select exactly one node" :> "Vyberite rovno odnu nodu")

\* Mutant: a translation left in Latin letters that is a key itself.
RuReachabilityChained ==
    ("Checker" :> "Checker" @@ "All" :> "Vsyo" @@ "Disabled" :> "Off"
     @@ "Low-speed threshold, Mbps" :> "Porog nizkoy skorosti, Mbps")

\* Reachability, subscription sources and the settings of a node.
RuReachability ==
    ("Checker" :> "Checker" @@ "All" :> "Vsyo" @@ "All subscriptions" :> "Vse podpiski"
     @@ "Source" :> "Istochnik" @@ "Delete" :> "Udalit" @@ "Disabled" :> "Vyklyuchen"
     @@ "Low-speed threshold, Mbps" :> "Porog nizkoy skorosti, Mbps"
     @@ "Last seen" :> "Poslednee nablyudenie")

\* Of two entries with one key the later one counts.
ru == RuReachability @@ RuMerge @@ RuAnnounce @@ RuOperations @@ RuAgents @@ RuDashboard

-----------------------------------------------------------------------------
(* The patterns: neighbours that accept no text in common are one element. *)

\* Counts and states with something put in.
CountPatterns ==
    "# nodes" :> "# nod" @@ "# nodes · geo" :> "# nod · geo" @@ "# online" :> "# onlayn"
    @@ "load" :> "nagruzka" @@ "Last updated:" :> "Poslednee obnovlenie:"
    @@ "Last updated: n/a" :> "Poslednee obnovlenie: n/a"
    @@ "Running #/#" :> "Vypolnyaetsya #/#" @@ "Low speed < # Mbps" :> "Nizkaya skorost < # Mbps"

\* Wordings followed by a name, and plain counts.
NamePatterns ==
    "Select" :> "Vybrat" @@ "Move" :> "Peremestit" @@ "Select · geo" :> "Vybrat · geo"
    @@ "Select exactly one node" :> "Vybrat exactly one node"
    @@ "Remnawave Host for location" :> "Remnawave Host dlya location"
    @@ "# results" :> "# rezultatov" @@ "Paused since" :> "Priostanovleno s" @@ "Probe ·" :> "Probe ·"

\* The next speed test: in a unit of time, and in whatever else.
NextTestPatterns == "next test in # min" :> "sleduyushchiy cherez # minut"
NextTestAnyPattern ==
    "next test in # min" :> "sleduyushchiy cherez # min" @@ "next test in" :> "sleduyushchiy cherez"

\* Summaries, durations and the remaining states.
SummaryPatterns ==
    "next test due now" :> "sleduyushchiy uzhe dolzhen" @@ "# maintenance" :> "# na obsluzhivanii"
    @@ "# min" :> "# minut" @@ "in" :> "cherez" @@ "Proxy failure ·" :> "Proxy failure ·"
    @@ "No subscription · geo" :> "Bez podpiski · geo"

\* A suffix after any text, be it the translation of an earlier pattern.
GeoSuffixPattern ==
    "geo" :> "po geo" @@ "# nodes · geo" :> "# nodes · po geo" @@ "# nod · geo" :> "# nod · po geo"
    @@ "Select · geo" :> "Select · po geo" @@ "Vybrat · geo" :> "Vybrat · po geo"
    @@ "Bez podpiski · geo" :> "Bez podpiski · po geo" @@ "Error: · geo" :> "Error: · po geo"

\* Failures, chart captions, merges and confirmations.
ClosingPatterns ==
    "Error:" :> "Oshibka:" @@ "Error: · geo" :> "Oshibka: · geo" @@ "Error: · po geo" :> "Oshibka: · po geo"
    @@ "Latest:" :> "Poslednee:" @@ "Restart required" :> "Trebuetsya restart"

patterns == <<CountPatterns, NamePatterns, NextTestPatterns, NextTestAnyPattern, SummaryPatterns,
              GeoSuffixPattern, ClosingPatterns>>

-----------------------------------------------------------------------------
(* translate, with the language set to Russian. *)

Accepting(t) == {i \in DOMAIN patterns : t.form \in DOMAIN patterns[i]}

\* The entry for the text as it is or for the text with its white space made
\* plain, else the first pattern that accepts either, else the text as it is.
\* No key and no pattern for texts of the page has white space to keep, so a
\* translation is always plain.
translate(t) ==
    IF t.form = "" THEN t
    ELSE IF t.arg = "" /\ t.form \in DOMAIN ru THEN Text(ru[t.form], "")
    ELSE IF Accepting(t) # {} THEN Text(patterns[Min(Accepting(t))][t.form], t.arg)
    ELSE t

\* What translateTextNode makes of the node's source: the white space around
\* the text is cut off before and put back after.
textNodeOutput(t) ==
    IF t.shape = "padded" THEN [translate(normalized(t)) EXCEPT !.shape = "padded"] ELSE translate(t)
=============================================================================
