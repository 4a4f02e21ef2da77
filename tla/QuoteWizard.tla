----------------------------- MODULE QuoteWizard -----------------------------
(***************************************************************************)
(* The public quote page: QuoteWidgetClient and the map it measures with,  *)
(* one customer's way through its screens, back and forth, up to the       *)
(* estimate or the request it sends.                                       *)
(*                                                                         *)
(* An area is one of a few values, an outline on the map is the area it    *)
(* encloses, an answer is known or "not sure".  The gutters question goes  *)
(* with the roof's, the property's type with the stories: they block the   *)
(* same button and decide nothing.  The text of the address, the contact's *)
(* fields and the consent decide nothing else and are left out.            *)
(*                                                                         *)
(* confirmed is a history variable: the services whose outline was         *)
(* accepted on the map of the address that is quoted.                      *)
(***************************************************************************)
EXTENDS Integers, Sequences, FiniteSets, Functions

CONSTANTS
    Catalogs,       \* the lists of services a company may publish
    Kind,           \* [service -> how it is measured]
    Mode,           \* [service -> "instant" or "request"]
    Areas,          \* the sizes that are told apart
    RoofOf          \* [Areas -> Areas], what a footprint says of the roof

Unset == -1
Size  == Areas \cup {Unset}
Services == UNION {Range(c) : c \in Catalogs}

Researched == {"house_wash", "roof_soft_wash"}
OnTheMap   == {"pool_deck", "patio"}

ASSUME AreaAssumption    == Unset \notin Areas /\ RoofOf \in [Areas -> Areas]
ASSUME CatalogAssumption ==
    \A c \in Catalogs : c \in Seq(Services) /\ \A i, j \in DOMAIN c : i # j => c[i] # c[j]

\* A company that lists each researched kind once, which nothing makes it do.
OneOfEach == \A c \in Catalogs : \A i, j \in DOMAIN c :
    i # j /\ Kind[c[i]] \in Researched => Kind[c[i]] # Kind[c[j]]

VARIABLES
    catalog,        \* the services the page loaded
    step,           \* the screen
    selected,
    quantity,       \* [Services -> Size], what each service is priced on
    found,          \* what the lookup returned: located, and the area of each researched type
    area,           \* adjustedBuildingArea and adjustedRoofArea
    adjusting,      \* the researched types the customer types in
    answer,         \* [question -> "", "known" or "not_sure"]
    drivewaySize,
    drawn,          \* [Services -> Size], mapMeasurements
    outline,        \* the outline in the map while it is mounted
    index,          \* mapMeasureIndex, from 1
    aside,          \* adHocMapService: a service or none
    uncertain,      \* uncertaintyOverride
    looking,        \* isLookingUpProperty: a lookup is in flight
    sending,        \* isSubmitting: what is in flight
    submitted,      \* hasSubmitted
    confirmed

WizardVars == <<catalog, step, selected, quantity, found, area, adjusting, answer, drivewaySize,
                drawn, outline, index, aside, uncertain, looking, sending, submitted, confirmed>>

Questions == {"stories", "exterior", "roofType"}
Steps == {"property", "researching", "propertyConfirm", "service", "mapMeasure", "confirm",
          "contact", "review", "success"}
Nowhere == [located |-> FALSE, area |-> [k \in Researched |-> Unset]]

WizardInit ==
    /\ catalog \in Catalogs
    /\ step = "property"
    /\ selected = {}
    /\ quantity = [s \in Services |-> Unset]
    /\ found = Nowhere
    /\ area = [k \in Researched |-> Unset]
    /\ adjusting = {}
    /\ answer = [q \in Questions |-> ""]
    /\ drivewaySize = Unset
    /\ drawn = [s \in Services |-> Unset]
    /\ outline = Unset
    /\ index = 1
    /\ aside = {}
    /\ uncertain = FALSE
    /\ looking = FALSE /\ sending = "no" /\ submitted = FALSE
    /\ confirmed = {}

WizardTypeOK ==
    /\ catalog \in Catalogs /\ step \in Steps /\ selected \subseteq Range(catalog)
    /\ quantity \in [Services -> Size] /\ drawn \in [Services -> Size]
    /\ found.located \in BOOLEAN /\ found.area \in [Researched -> Size]
    /\ area \in [Researched -> Size] /\ adjusting \subseteq Researched
    /\ answer \in [Questions -> {"", "known", "not_sure"}]
    /\ drivewaySize \in Size /\ outline \in Size /\ index \in 1 .. Len(catalog) + 1
    /\ aside \subseteq selected /\ uncertain \in BOOLEAN
    /\ sending \in {"no", "instant", "request"} /\ looking \in BOOLEAN /\ submitted \in BOOLEAN
    /\ confirmed \subseteq Services

-----------------------------------------------------------------------------
(* What the page derives from its state. *)

Chosen(kind) == {s \in selected : Kind[s] = kind}
\* find: the first of them as the catalog lists them.
First(kind)  == {s \in Chosen(kind) : \E i \in DOMAIN catalog :
                    catalog[i] = s /\ \A j \in 1 .. i - 1 : catalog[j] \notin Chosen(kind)}
Researchable == \E k \in Researched : Chosen(k) # {}

\* The questions the chosen services ask.
Asked == {q \in Questions : \/ q = "stories" /\ Researchable
                            \/ q = "exterior" /\ Chosen("house_wash") # {}
                            \/ q = "roofType" /\ Chosen("roof_soft_wash") # {}}

\* No price is given for a service the owner reviews, nor after a "not sure".
RequestOnly == \/ \E s \in selected : Mode[s] = "request"
               \/ uncertain
               \/ \E q \in Asked : answer[q] = "not_sure"

CanContinueService ==
    /\ selected # {}
    /\ \A s \in selected : \/ Mode[s] = "request" \/ Kind[s] = "flat_rate"
                           \/ Kind[s] \in Researched \cup OnTheMap
                           \/ quantity[s] # Unset

\* mapMeasureQueue: where the chosen services to draw are listed, and their order.
Queue    == {i \in DOMAIN catalog : catalog[i] \in selected /\ Kind[catalog[i]] \in OnTheMap}
Place(i) == Cardinality({j \in Queue : j <= i})
Nth(n)   == {catalog[i] : i \in {j \in Queue : Place(j) = n}}

\* The service the map is open for.
Active == IF aside # {} THEN aside ELSE Nth(index)

pages    == <<catalog, found, looking, sending, submitted>>
answers  == <<answer, adjusting, drivewaySize>>
mapState == <<drawn, outline, index, aside, uncertain, confirmed>>

-----------------------------------------------------------------------------
(* The property. *)

ContinueProperty ==
    /\ step = "property" /\ ~ looking
    /\ step' = "researching" /\ looking' = TRUE
    /\ UNCHANGED <<catalog, found, sending, submitted, selected, quantity, area, answers, mapState>>

\* Its answer turns the page, whichever screen is shown.  A lookup fails, finds the place, or finds the building too; what it does not
\* find leaves the earlier value in place.
Lookup ==
    /\ looking /\ looking' = FALSE
    /\ step' = "propertyConfirm"
    /\ \E r \in {Nowhere, [Nowhere EXCEPT !.located = TRUE]} \cup
               {[located |-> TRUE,
                 area |-> [k \in Researched |-> IF k = "house_wash" THEN a ELSE RoofOf[a]]] : a \in Areas} :
          /\ found' = r
          /\ area' = [k \in Researched |-> IF r.area[k] # Unset THEN r.area[k] ELSE area[k]]
    /\ confirmed' = {}
    /\ UNCHANGED <<catalog, sending, submitted, selected, quantity, answers, drawn, outline, index,
                   aside, uncertain>>

\* The home's size may be typed over, and the questions are answered here once.
AboutProperty ==
    /\ step = "propertyConfirm"
    /\ \/ \E a \in Size : area' = [area EXCEPT !["house_wash"] = a] /\ UNCHANGED answer
       \/ \E q \in {"stories", "exterior"}, to \in {"known", "not_sure"} :
             answer' = [answer EXCEPT ![q] = to] /\ UNCHANGED area
    /\ UNCHANGED <<pages, step, selected, quantity, adjusting, drivewaySize, mapState>>

ConfirmProperty ==
    /\ step = "propertyConfirm"
    /\ \/ step' = "service" /\ answer["stories"] # "" /\ answer["exterior"] # ""
       \/ step' = "property"
    /\ UNCHANGED <<pages, selected, quantity, area, answers, mapState>>

-----------------------------------------------------------------------------
(* The services. *)

Toggle(s) ==
    /\ step = "service"
    /\ selected' = IF s \in selected THEN selected \ {s} ELSE selected \cup {s}
    /\ UNCHANGED <<pages, step, quantity, area, answers, mapState>>

TypeQuantity(s) ==
    /\ step = "service" /\ s \in selected /\ Mode[s] = "instant" /\ Kind[s] = "fence"
    /\ \E a \in Size : quantity' = [quantity EXCEPT ![s] = a]
    /\ UNCHANGED <<pages, step, selected, area, answers, mapState>>

\* The dialog, one for all driveways, keeps the size that is tapped; only "Done"
\* prices it, on the first of them.
PickDrivewaySize(s) ==
    /\ step = "service" /\ s \in selected /\ Mode[s] = "instant" /\ Kind[s] = "driveway_cleaning"
    /\ \/ \E a \in Areas : drivewaySize' = a /\ UNCHANGED quantity
       \/ /\ drivewaySize # Unset
          /\ quantity' = [t \in Services |-> IF t \in First("driveway_cleaning") THEN drivewaySize
                                             ELSE quantity[t]]
          /\ UNCHANGED drivewaySize
    /\ UNCHANGED <<pages, step, selected, area, answer, adjusting, mapState>>

\* The map opens on the customer's outline, or on the footprint of the home.
Mounted(s, isAside) ==
    IF drawn[s] # Unset THEN drawn[s]
    ELSE IF isAside /\ Kind[s] = "house_wash" THEN found.area["house_wash"] ELSE Unset

AfterMap_Contact == "contact"
AfterMap == IF Researchable THEN "confirm" ELSE "contact"

ToMeasure_Undrawn == {i \in Queue : drawn[catalog[i]] = Unset}
ToMeasure == Queue
ContinueService ==
    /\ step = "service" /\ CanContinueService
    /\ IF ToMeasure # {}
       THEN step' = "mapMeasure" /\ index' = 1 /\ \E s \in Nth(1) : outline' = Mounted(s, FALSE)
       ELSE step' = AfterMap /\ UNCHANGED <<index, outline>>
    /\ UNCHANGED <<pages, selected, quantity, area, answers, drawn, aside, uncertain, confirmed>>

-----------------------------------------------------------------------------
(* The map, for the services of the queue or for one of them aside. *)

Draw == /\ step = "mapMeasure" /\ found.located /\ Active # {}
        /\ outline' \in Size
        /\ UNCHANGED <<pages, step, selected, quantity, area, answers, drawn, index, aside,
                       uncertain, confirmed>>

\* The queue goes on with the map as it is mounted: the outline stays.
CompleteMap ==
    /\ step = "mapMeasure" /\ found.located /\ outline # Unset
    /\ \E s \in Active :
          /\ drawn' = [drawn EXCEPT ![s] = outline]
          /\ quantity' = [quantity EXCEPT ![s] = outline]
          /\ confirmed' = confirmed \cup {s}
          /\ IF aside # {}
             THEN /\ area' = [area EXCEPT ![Kind[s]] = outline]
                  /\ adjusting' = adjusting \cup {Kind[s]}
                  /\ step' = "confirm" /\ outline' = Unset /\ UNCHANGED index
             ELSE /\ UNCHANGED <<area, adjusting>>
                  /\ IF index < Cardinality(Queue) THEN index' = index + 1 /\ UNCHANGED <<step, outline>>
                     ELSE step' = AfterMap /\ outline' = Unset /\ UNCHANGED index
    /\ aside' = {}
    /\ UNCHANGED <<pages, selected, answer, drivewaySize, uncertain>>

\* "Not sure how to measure": nothing is invented, the quote becomes a request.
CancelMap ==
    /\ step = "mapMeasure" /\ Active # {}
    /\ IF aside # {} THEN step' = "confirm" /\ UNCHANGED uncertain
       ELSE step' = AfterMap /\ uncertain' = TRUE
    /\ aside' = {} /\ outline' = Unset
    /\ UNCHANGED <<pages, selected, quantity, area, answers, drawn, index, confirmed>>

-----------------------------------------------------------------------------
(* What was found, to confirm or adjust. *)

MeasureAside(s) ==
    /\ step = "confirm" /\ Kind[s] \in Researched \ adjusting /\ s \in First(Kind[s])
    /\ step' = "mapMeasure" /\ aside' = {s} /\ outline' = Mounted(s, TRUE)
    /\ UNCHANGED <<pages, selected, quantity, area, answers, drawn, index, uncertain, confirmed>>

TypeArea(k) ==
    /\ step = "confirm" /\ Chosen(k) # {}
    /\ \/ /\ k \in adjusting /\ \E a \in Size : area' = [area EXCEPT ![k] = a]
          /\ UNCHANGED adjusting
       \/ /\ k \notin adjusting /\ found.area[k] = Unset
          /\ adjusting' = adjusting \cup {k} /\ UNCHANGED area
    /\ UNCHANGED <<pages, step, selected, quantity, answer, drivewaySize, mapState>>

AboutRoof ==
    /\ step = "confirm" /\ "roofType" \in Asked
    /\ \E to \in {"known", "not_sure"} : answer' = [answer EXCEPT !["roofType"] = to]
    /\ UNCHANGED <<pages, step, selected, quantity, area, adjusting, drivewaySize, mapState>>

\* The areas go where every other quantity is, each to the first service of its kind.
Carried_WhereMissing ==
    [s \in Services |-> IF Kind[s] \in Researched /\ s \in First(Kind[s]) /\ quantity[s] = Unset
                        THEN area[Kind[s]] ELSE quantity[s]]
Carried == [s \in Services |-> IF Kind[s] \in Researched /\ s \in First(Kind[s]) THEN area[Kind[s]]
                               ELSE quantity[s]]
ContinueConfirm ==
    /\ step = "confirm"
    /\ \A s \in selected : Kind[s] \in Researched => area[Kind[s]] # Unset
    /\ "roofType" \in Asked => answer["roofType"] # ""
    /\ quantity' = Carried
    /\ step' = "contact"
    /\ UNCHANGED <<pages, selected, area, answers, mapState>>

-----------------------------------------------------------------------------
(* Contact, review and submission. *)

Order == IF Researchable
         THEN <<"property", "propertyConfirm", "service", "confirm", "contact", "review">>
         ELSE <<"property", "propertyConfirm", "service", "contact", "review">>

Move == /\ \E i \in 1 .. Len(Order) - 1 :
              \/ step = Order[i] /\ step = "contact" /\ step' = Order[i + 1]
              \/ /\ step = Order[i + 1] /\ step \in {"service", "confirm", "contact", "review"}
                 /\ step = "review" => sending = "no"
                 /\ step' = Order[i]
        /\ UNCHANGED <<pages, selected, quantity, area, answers, mapState>>

\* "Adjust" and "Edit Measurement" stay enabled while a submission is in flight.
Amend ==
    /\ step = "review" /\ ~ RequestOnly
    /\ \/ step' = "confirm" /\ Researchable /\ UNCHANGED <<index, outline>>
       \/ \E i \in Queue :
             /\ drawn[catalog[i]] # Unset
             /\ step' = "mapMeasure" /\ index' = Place(i) /\ outline' = Mounted(catalog[i], FALSE)
    /\ UNCHANGED <<pages, selected, quantity, area, answers, drawn, aside, uncertain, confirmed>>

Submit ==
    /\ step = "review" /\ sending = "no" /\ ~ submitted
    /\ sending' = IF RequestOnly THEN "request" ELSE "instant"
    /\ UNCHANGED <<catalog, found, looking, submitted, step, selected, quantity, area, answers, mapState>>

Answered ==
    /\ sending # "no" /\ sending' = "no"
    /\ \/ step' = "success" /\ submitted' = TRUE
       \/ UNCHANGED <<step, submitted>>
    /\ UNCHANGED <<catalog, found, looking, selected, quantity, area, answers, mapState>>

Finished == step = "success" /\ UNCHANGED WizardVars

-----------------------------------------------------------------------------
WizardNext ==
    \/ ContinueProperty \/ Lookup \/ AboutProperty \/ ConfirmProperty
    \/ \E s \in Range(catalog) : Toggle(s) \/ TypeQuantity(s) \/ PickDrivewaySize(s) \/ MeasureAside(s)
    \/ ContinueService \/ Draw \/ CompleteMap \/ CancelMap
    \/ (\E k \in Researched : TypeArea(k)) \/ AboutRoof \/ ContinueConfirm
    \/ Move \/ Amend \/ Submit \/ Answered \/ Finished

WizardSpec == WizardInit /\ [][WizardNext]_WizardVars

-----------------------------------------------------------------------------
(* Properties. *)

Priced == step = "review" /\ ~ RequestOnly /\ ~ submitted

\* Whatever way led to the review of an instant estimate, every service it prices
\* by a measure has one (the submit payload reads quantities[s.id], 501); a second
\* house wash or roof of the same catalog does not (MCQuoteWizard_twins.cfg).
QuantitiesKnown == Priced => \A s \in selected : Kind[s] # "flat_rate" => quantity[s] # Unset

\* The areas the review shows are those the services are priced on: they are kept
\* twice, and change on four screens.
ShownIsPriced ==
    Priced => \A s \in selected :
        /\ Kind[s] \in Researched => quantity[s] = area[Kind[s]]
        /\ Kind[s] \in OnTheMap => quantity[s] = drawn[s]

\* An outline that is priced was accepted on the map of the address that is quoted,
\* also after the customer went back and changed the address.
MeasuredHere == Priced => \A s \in selected : Kind[s] \in OnTheMap => s \in confirmed

\* What holds of outlines does not hold of the roof: the area that was found for an
\* earlier address is kept when the lookup of the next one finds none.
RoofFoundHere ==
    Priced /\ "roof_soft_wash" \notin adjusting =>
        \A s \in Chosen("roof_soft_wash") : quantity[s] = found.area["roof_soft_wash"]

\* The driveway's size the review shows is the one that is priced.
SizeShownIsPriced ==
    Priced => \A s \in Chosen("driveway_cleaning") : quantity[s] = drivewaySize
=============================================================================
