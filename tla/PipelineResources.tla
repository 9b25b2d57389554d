-------------------------- MODULE PipelineResources --------------------------
(***************************************************************************)
(* What one DataPrepperPipeline should own in the cluster: the merge with  *)
(* DataPrepperDefaults and the desired content of every child object, as a *)
(* function of what a reconcile has read.                                  *)
(*                                                                         *)
(* A pipeline spec is a record                                             *)
(*   graphOK    ValidateGraph accepts the pipeline definitions             *)
(*   buildable  every definition has a source and well formed processors   *)
(*   body       the rest of the definitions, as one value                  *)
(*   sources    the kinds of source they use                               *)
(*   stateful   some processor is in statefulProcessors                    *)
(*   scaling    the scaling section or None                                *)
(*   image, config, brokers, monitor                                       *)
(*              fields MergeSpec fills in when they are None; image stands *)
(*              for image and resources, brokers for the bootstrap servers *)
(*              and OpenSearch hosts, monitor is None, "on" or "off"       *)
(*   kafkaRef   credentials Secret of the Kafka source or None             *)
(*   opensearch the pipeline has an OpenSearch sink                        *)
(*   sinkRef    credentials Secret of that sink or None                    *)
(*   otherRefs  credentials Secrets of S3 sources and S3 or Kafka sinks    *)
(* A DataPrepperDefaults spec has the fields image, config, brokers,       *)
(* monitor, kafkaRef and sinkRef.                                          *)
(***************************************************************************)
EXTENDS Scaling

OrDefault(value, default) == IF value = None THEN default ELSE value

MergeSpec(defaults, spec) ==
    IF defaults = None
    THEN spec
    ELSE [spec EXCEPT
            !.image    = OrDefault(@, defaults.image),
            !.config   = OrDefault(@, defaults.config),
            !.monitor  = OrDefault(@, defaults.monitor),
            !.brokers  = IF "kafka" \in spec.sources \/ spec.opensearch
                         THEN OrDefault(@, defaults.brokers) ELSE @,
            !.kafkaRef = IF "kafka" \in spec.sources
                         THEN OrDefault(@, defaults.kafkaRef) ELSE @,
            !.sinkRef  = IF spec.opensearch
                         THEN OrDefault(@, defaults.sinkRef) ELSE @]

referencedSecrets(spec) ==
    ({spec.kafkaRef, spec.sinkRef} \cup spec.otherRefs) \ {None}

-----------------------------------------------------------------------------
(***************************************************************************)
(* The inputs of a reconcile, once it has read them:                       *)
(*   spec       the pipeline's own spec                                    *)
(*   defaults   the DataPrepperDefaults "default", or None                 *)
(*   partitions the Kafka answer, None for an error or when not asked      *)
(*   secrets    secret |-> its data, None when absent or not referenced    *)
(***************************************************************************)
Merged(in) == MergeSpec(in.defaults, in.spec)

Scale(in) == calculateScaling(Merged(in).scaling, Merged(in).sources, in.partitions)

needsPeerForwarder(in) == Merged(in).stateful /\ Scale(in).replicas > 1

MonitorEnabled(in) == Merged(in).monitor = "on"

\* A source kind stands for its port.
SourcePorts(in) == Merged(in).sources \cap {"http", "otel"}

NeedsService(in) == MonitorEnabled(in) \/ SourcePorts(in) # {}

\* pipelines.yaml: credentials appear in it as environment placeholders.
GeneratePipelineConfig(in) ==
    [body      |-> Merged(in).body,
     brokers   |-> Merged(in).brokers,
     kafkaAuth |-> Merged(in).kafkaRef # None,
     sinkAuth  |-> Merged(in).sinkRef # None,
     workers   |-> Scale(in).workers]

\* data-prepper-config.yaml
GenerateDPConfig(in) ==
    [config |-> Merged(in).config, peerForwarder |-> needsPeerForwarder(in)]

\* The pod template annotation whose change rolls the pods.
configHash(in) ==
    [pipelines |-> GeneratePipelineConfig(in),
     config    |-> GenerateDPConfig(in),
     secrets   |-> in.secrets]

GenerateDeployment(in) ==
    [replicas      |-> Scale(in).replicas,
     image         |-> Merged(in).image,
     peerForwarder |-> needsPeerForwarder(in),
     env           |-> referencedSecrets(Merged(in)),
     hash          |-> configHash(in)]

GenerateService(in) == [ports |-> SourcePorts(in), metrics |-> TRUE]

GenerateHeadlessService == [ports |-> {"peer-forwarder"}]

GenerateServiceMonitor == [port |-> "metrics"]

-----------------------------------------------------------------------------
\* Mutant: the Deployment before its ConfigMaps.
PodsFirst == << "deployment", "pipelines", "config", "service", "headless",
                "hpa", "pdb", "monitor" >>

\* The children, in the order Reconcile writes them.
KindAt == << "pipelines", "config", "deployment", "service", "headless",
             "hpa", "pdb", "monitor" >>
Steps == 1 .. 8
Kinds == {KindAt[i] : i \in Steps}

When(needed, content) == IF needed THEN content ELSE None

\* Content of child k, None when the pipeline should not have it.
Desired(k, in) ==
    CASE k = "pipelines"  -> GeneratePipelineConfig(in)
      [] k = "config"     -> GenerateDPConfig(in)
      [] k = "deployment" -> GenerateDeployment(in)
      [] k = "service"    -> When(NeedsService(in), GenerateService(in))
      [] k = "headless"   -> When(needsPeerForwarder(in), GenerateHeadlessService)
      [] k = "hpa"        -> When(Scale(in).hpa,
                                  GenerateHPA(scalingBounds(Merged(in).scaling)))
      [] k = "pdb"        -> When(Scale(in).replicas > 1,
                                  GeneratePDB(Scale(in).replicas))
      [] OTHER            -> When(MonitorEnabled(in), GenerateServiceMonitor)
=============================================================================
