----------------------------- MODULE Preferences -----------------------------
(***************************************************************************)
(* The language of the pages: I18nProvider keeps it in its state and in    *)
(* local storage, which the tabs of the browser share.  A page is rendered *)
(* in the default language; the provider's first effect reads the stored   *)
(* one, its second writes the language whenever that changes, but not      *)
(* before the first effect has run.                                        *)
(***************************************************************************)
EXTENDS Naturals

CONSTANTS
    Locales,   \* en and zh-CN
    Default,   \* DEFAULT_LOCALE
    Unset,     \* nothing is stored, or something that is no locale
    MaxPicks   \* bound of the model: languages picked

ASSUME LocalesAssumption == Default \in Locales /\ Unset \notin Locales
ASSUME MaxPicksAssumption == MaxPicks \in Nat

VARIABLES
    stored,   \* localStorage "unillm-locale"
    locale,   \* the provider's state
    mounted,  \* the provider's state
    due,      \* the second effect has to run
    lang,     \* the lang attribute of the document
    wish,     \* history: what the user picked last, Unset if the tabs disagreed
    picks     \* how often a language was picked

language == <<stored, locale, mounted, due, lang, wish, picks>>

LanguageInit ==
    /\ stored \in Locales \cup {Unset}
    /\ locale = Default
    /\ mounted = FALSE
    /\ due = TRUE
    /\ lang = Default
    /\ wish = stored
    /\ picks = 0

readStoredLocale == IF stored \in Locales THEN stored ELSE Default

\* A page load renders the default language anew.
FreshLanguage ==
    /\ locale' = Default
    /\ mounted' = FALSE
    /\ due' = TRUE
    /\ lang' = Default
    /\ UNCHANGED <<stored, wish, picks>>

\* Mutant of Written: the second effect does not wait for the first.
WrittenAlways == locale

\* What the second effect leaves in local storage.
Written == IF mounted THEN locale ELSE stored

\* Both effects run after the first rendering, with the values of that rendering.
MountLanguage ==
    /\ ~mounted
    /\ locale' = readStoredLocale
    /\ mounted' = TRUE
    /\ stored' = Written
    /\ due' = TRUE
    /\ UNCHANGED <<lang, wish, picks>>

\* The second effect, after a rendering with another language.
Persist ==
    /\ mounted /\ due
    /\ stored' = Written
    /\ lang' = locale
    /\ due' = FALSE
    /\ UNCHANGED <<locale, mounted, wish, picks>>

\* LocaleSwitcher.  The effects of a click run before anything else does.  A click on
\* the language that is shown already changes no state and runs no effect, so it does
\* not take back what another tab has stored.
PickLocale(l) ==
    /\ mounted /\ ~due
    /\ picks < MaxPicks
    /\ picks' = picks + 1
    /\ locale' = l
    /\ stored' = IF l = locale THEN stored ELSE l
    /\ lang' = l
    /\ wish' = IF stored' = l THEN l ELSE Unset
    /\ UNCHANGED <<mounted, due>>

\* The user picks a language in another tab, which writes it; a write of this
\* tab that is still due would come after it.
OtherTabPicks(l) ==
    /\ picks < MaxPicks
    /\ picks' = picks + 1
    /\ l # stored
    /\ stored' = l
    /\ wish' = IF mounted /\ due THEN Unset ELSE l
    /\ UNCHANGED <<locale, mounted, due, lang>>
=============================================================================
