----------------------------- MODULE ModelRegistry -----------------------------
(***************************************************************************)
(* The ML inference service: the models and scalers it holds in memory,    *)
(* the registry and the disk they come from, and A/B tests.                *)
(* Every handler runs to its end on the one event loop.  A model or scaler *)
(* is named by the training that made it, a version by its number.         *)
(***************************************************************************)
EXTENDS Integers, Sequences

CONSTANTS
  Models,        \* the types of model
  Scaled,        \* those whose answers need a scaler
  Series,        \* the one that /forecast serves
  HasTensorFlow, \* the build can load and train Series
  Sensors,       \* the sensors that ask
  Seeds,         \* seeds of an A/B test
  FullWeight,    \* weight 1.0: weights and buckets are counted in parts of it
  Bucket,        \* _stable_bucket, a function of seed and sensor
  Rollouts,      \* what A/B tests are configured with
  NoPlan,        \* no A/B test
  MaxTrainings,  \* bound on the trainings
  MaxSamples     \* bound on the samples of an A/B test

ASSUME ModelAssumption ==
  /\ Scaled \subseteq Models /\ Series \in Scaled
  /\ HasTensorFlow \in BOOLEAN
  /\ FullWeight \in Nat \ {0}
  /\ Bucket \in [Seeds \X Sensors -> 0..FullWeight]
  /\ Rollouts \subseteq [baseline : Nat, candidate : Nat, weight : Int, seed : Seeds]
  /\ MaxTrainings \in Nat /\ MaxSamples \in Nat

VARIABLES
  manager,   \* mlflow_manager is set: without it the service answers mocks
  registry,  \* MLflow: which training made version 1, 2, ... of a model
  disk,      \* the training whose scaler is in the model path, 0 without
  trainings, \* trainings begun, which numbers them
  halfway,   \* history: those that raised after their version was registered
  models,    \* the training of the model in memory, 0 without
  scalers,   \* the training of the scaler in memory, 0 without
  tests,     \* ab_deployments
  answer     \* the answer given last

modelVars == <<manager, registry, disk, trainings, halfway, models, scalers, tests, answer>>

Unset == 0  \* no version, no training

NoTest == [plan |-> NoPlan, samples |-> 0, candidates |-> 0]

NoAnswer == [key |-> Series, version |-> Unset, model |-> Unset, scaler |-> Unset]

Latest(k) == Len(registry[k])

Loadable(k) == k # Series \/ HasTensorFlow

Rest == <<registry, disk, trainings, halfway>>

-----------------------------------------------------------------------------
(* load_model *)

\* _load_local_scaler: the newest file, nothing changes without it or when it
\* cannot be read.
ScalerAfter(k, loads) ==
  IF k \in Scaled /\ loads /\ disk[k] # Unset THEN disk[k] ELSE scalers[k]

\* load_model finds version v, "latest" when v is Unset.
Found(k, v) ==
  Loadable(k) /\ IF v = Unset THEN Latest(k) > 0 ELSE v \in 1..Latest(k)

TrainingOf(k, v) == registry[k][IF v = Unset THEN Latest(k) ELSE v]

\* load_registered_models: each of found is loaded, read are the scalers that
\* can be read.
LoadAll(found, read) ==
  /\ models' = [k \in Models |-> IF k \in found THEN TrainingOf(k, Unset) ELSE models[k]]
  /\ scalers' = [k \in Models |-> IF k \in found THEN ScalerAfter(k, k \in read) ELSE scalers[k]]

Reachable == {k \in Models : Found(k, Unset)}

\* startup_event: without MLflow the service stays with its mocks.
StartModels ==
  /\ ~manager
  /\ manager' = TRUE
  /\ \E found \in SUBSET Reachable : \E read \in SUBSET (found \cap Scaled) : LoadAll(found, read)
  /\ UNCHANGED <<Rest, tests, answer>>

\* POST /models/reload
ReloadModels ==
  /\ manager
  /\ \E found \in SUBSET Reachable : \E read \in SUBSET (found \cap Scaled) : LoadAll(found, read)
  /\ UNCHANGED <<manager, Rest, tests, answer>>

-----------------------------------------------------------------------------
(* POST /models/{model_type}/train *)

ScalerTrained(k, t) == IF k \in Scaled THEN [scalers EXCEPT ![k] = t] ELSE scalers

\* The scaler is dumped, then the model is registered, then memory changes;
\* load_model reads the same model and scaler again, or fails and changes
\* nothing.  MLflow may fail before the dump, after it, and when the version is
\* registered already but not ready.
Train(k) ==
  /\ manager
  /\ Loadable(k)
  /\ trainings < MaxTrainings
  /\ trainings' = trainings + 1
  /\ LET t == trainings + 1
         dumped == IF k \in Scaled THEN [disk EXCEPT ![k] = t] ELSE disk
     IN \/ UNCHANGED <<registry, disk, halfway, models, scalers>>
        \/ disk' = dumped /\ UNCHANGED <<registry, halfway, models, scalers>>
        \/ /\ disk' = dumped
           /\ registry' = [registry EXCEPT ![k] = Append(@, t)]
           /\ \/ halfway' = halfway \union {t} /\ UNCHANGED <<models, scalers>>
              \/ /\ models' = [models EXCEPT ![k] = t]
                 /\ scalers' = ScalerTrained(k, t)
                 /\ UNCHANGED halfway
  /\ UNCHANGED <<manager, tests, answer>>

-----------------------------------------------------------------------------
(* A/B tests *)

\* Versions are not looked up in the registry, and the counts start again.
ConfigureAbTest(k, rollout) ==
  /\ manager
  /\ k # Series
  /\ rollout.weight \in 0..FullWeight
  /\ tests' = [tests EXCEPT ![k] = [plan |-> rollout, samples |-> 0, candidates |-> 0]]
  /\ UNCHANGED <<manager, Rest, models, scalers, answer>>

Tested(k) == tests[k].plan # NoPlan

ToCandidate(k, s) == Bucket[<<tests[k].plan.seed, s>>] < tests[k].plan.weight

\* resolve_model_for_request: the version for a request without one.
Resolved(k, s) ==
  IF ~Tested(k) THEN Unset
  ELSE IF ToCandidate(k, s) THEN tests[k].plan.candidate ELSE tests[k].plan.baseline

Sampled(k, s) ==
  IF ~Tested(k) THEN tests
  ELSE [tests EXCEPT ![k].samples = @ + 1,
                     ![k].candidates = IF ToCandidate(k, s) THEN @ + 1 ELSE @]

-----------------------------------------------------------------------------
(* POST /infer, POST /forecast *)

\* Mutant: when the registry fails, the model in memory answers.
LoadFails_UseMemory(k, v) == models[k] # Unset

\* load_model returns Unset and the request ends with a 503.
LoadFails(k, v) == FALSE

\* predict_anomaly, predict_failure, predict_time_series with a version, Unset
\* for the model in memory: the model that answers is in memory afterwards.  It
\* may raise for what it is asked, and then there is no answer.
Predict(k, v, counts) ==
  /\ tests' = counts
  /\ \/ /\ v # Unset \/ models[k] = Unset
        /\ Found(k, v)
        /\ \E reads \in BOOLEAN :
             LET scaler == ScalerAfter(k, reads) IN
             /\ models' = [models EXCEPT ![k] = TrainingOf(k, v)]
             /\ scalers' = [scalers EXCEPT ![k] = scaler]
             /\ answer' \in {answer, [key |-> k, version |-> v, model |-> TrainingOf(k, v), scaler |-> scaler]}
     \/ /\ v = Unset \/ LoadFails(k, v)
        /\ models[k] # Unset
        /\ \E reads \in BOOLEAN :
             LET scaler == IF scalers[k] = Unset THEN ScalerAfter(k, reads) ELSE scalers[k] IN
             /\ scalers' = [scalers EXCEPT ![k] = scaler]
             /\ answer' \in {answer, [key |-> k, version |-> v, model |-> models[k], scaler |-> scaler]}
             /\ UNCHANGED models
     \/ /\ v # Unset \/ models[k] = Unset
        /\ UNCHANGED <<models, scalers, answer>>
  /\ UNCHANGED <<manager, Rest>>

\* asked is the version the request names, Unset when it leaves that open; a
\* version 0 is taken for none by "if version".
Infer(k, s, asked) ==
  /\ manager
  /\ k # Series
  /\ tests[k].samples < MaxSamples
  /\ IF asked = Unset THEN Predict(k, Resolved(k, s), Sampled(k, s)) ELSE Predict(k, asked, tests)

\* predict_time_series refuses to answer without a scaler, when the model is
\* loaded.
Forecast ==
  /\ manager
  /\ Loadable(Series)
  /\ Predict(Series, Unset, tests)
  /\ answer' # answer => answer'.scaler # Unset

\* What is not on the disk or in MLflow is gone.
RestartModels ==
  /\ manager
  /\ manager' = FALSE
  /\ models' = [k \in Models |-> Unset]
  /\ scalers' = [k \in Models |-> Unset]
  /\ tests' = [k \in Models |-> NoTest]
  /\ UNCHANGED <<Rest, answer>>

ModelInit ==
  /\ manager = FALSE
  /\ registry = [k \in Models |-> <<>>]
  /\ disk = [k \in Models |-> Unset]
  /\ trainings = 0
  /\ halfway = {}
  /\ models = [k \in Models |-> Unset]
  /\ scalers = [k \in Models |-> Unset]
  /\ tests = [k \in Models |-> NoTest]
  /\ answer = NoAnswer

Versions == 0..MaxTrainings

ModelNext ==
  \/ StartModels \/ ReloadModels \/ RestartModels \/ Forecast
  \/ \E k \in Models : Train(k)
  \/ \E k \in Models, rollout \in Rollouts : ConfigureAbTest(k, rollout)
  \/ \E k \in Models, s \in Sensors, v \in Versions : Infer(k, s, v)

ModelSpec == ModelInit /\ [][ModelNext]_modelVars

-----------------------------------------------------------------------------
(* Properties *)

\* The state of the service has its types.
ModelTypeOK ==
  /\ manager \in BOOLEAN
  /\ registry \in [Models -> Seq(1..MaxTrainings)]
  /\ trainings \in 0..MaxTrainings /\ halfway \subseteq 1..trainings
  /\ \A v \in {disk, models, scalers} : v \in [Models -> 0..MaxTrainings]
  /\ tests \in [Models -> [plan : Rollouts \union {NoPlan}, samples : 0..MaxSamples,
                           candidates : 0..MaxSamples]]
  /\ \A k \in Models : tests[k].candidates <= tests[k].samples
  /\ answer \in [key : Models, version : Nat, model : 0..MaxTrainings, scaler : 0..MaxTrainings]

\* The version in an answer is the one that computed it, whatever was loaded,
\* trained or pinned by others before, and the scaler it was computed with is
\* no older than the model: features are not scaled for a model that did not
\* exist yet (the scaler may be newer, the disk keeps one only).  The one
\* exception is a model whose training raised after it was registered: it may be
\* loaded beside a scaler that was in memory before.
AnsweredAsLabelled ==
  LET k == answer.key IN
  /\ answer.version # Unset =>
       answer.version \in DOMAIN registry[k] /\ answer.model = registry[k][answer.version]
  /\ answer.scaler # Unset => answer.scaler >= answer.model \/ answer.model \in halfway

=============================================================================
