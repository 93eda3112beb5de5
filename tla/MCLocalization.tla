--------------------------- MODULE MCLocalization ---------------------------
(* One page with the localizer's own dictionary: a heading of the static    *)
(* HTML, a chip filled through translate, a toggle whose title the page     *)
(* sets anew, and an identifier the localizer must not touch.               *)
EXTENDS Localization

D == INSTANCE LocalizationDictionary

MCTextNodes == {"heading", "chip", "identifier"}
MCAttributes == {"toggle"}
MCSkipped == {"identifier"}
MCAssigned == {"toggle"}
MCPretranslated == {"chip"}

\* A padded text whose Russian is a key again, a text that an entry and a
\* pattern accept and that is broken over two lines, a name that reads like a
\* pattern, and white space; texts the page translates itself; the labels of a
\* toggle, one with a name in it; a text that would have a translation.
MCTextsOf ==
    [heading |-> {[D!Text("Low Mbps", "") EXCEPT !.shape = "padded"],
                  [D!Text("Select exactly one node", "") EXCEPT !.shape = "wrapped"],
                  D!Text("load", "balancer"), D!Nothing},
     chip |-> {D!Text("Disabled", ""), D!Text("next test in # min", "5")},
     toggle |-> {D!Text("Ascending", ""), D!Text("Select", "node-1")},
     identifier |-> {D!Text("Total", "")}]

\* The texts of the page, and what up to two translations make of them.
Written == UNION {MCTextsOf[s] : s \in {"heading", "chip", "toggle", "identifier"}}
Once == Written \cup {D!translate(t) : t \in Written} \cup {D!textNodeOutput(t) : t \in Written}
Twice == Once \cup {D!translate(t) : t \in Once} \cup {D!textNodeOutput(t) : t \in Once}
MCTexts == Twice \cup {D!translate(t) : t \in Twice} \cup {D!textNodeOutput(t) : t \in Twice}
MCBlank == {D!Nothing}
MCTranslation == [t \in MCTexts |-> D!translate(t)]
MCNodeOutput == [t \in MCTexts |-> D!textNodeOutput(t)]
=============================================================================
