---------------------------------- MODULE Fit ----------------------------------
(***************************************************************************)
(* Which numbers of a model are finite (internal/model/features.go and     *)
(* model.go, and what TrainDistributed does around its epochs, the subject *)
(* of Cluster).  The values of a trip are those of Parser; of a number     *)
(* computed from them only whether it is finite is kept, and a standard    *)
(* deviation is 0, 1 for any other number, or NaN.  A NaN, or a division   *)
(* by zero, leaves nothing finite of what depends on it.                   *)
(***************************************************************************)
EXTENDS Integers, Sequences

CONSTANT NaN

ASSUME NaNAssumption == NaN \notin Int

(***************************************************************************)
(* The trips of Parser, as far as they are used here.                      *)
(***************************************************************************)
Number == Int \union {NaN}

TripType == [ duration : Int, distance : Number, lat : Number, lon : Number, rateCode : Int,
              passenger : Int, hour : 0 .. 23, day : 0 .. 6 ]

(***************************************************************************)
(* The order of sin(2 pi hour / 24) among the hours.                       *)
(***************************************************************************)
SinRank(hour) == IF hour <= 6 THEN hour ELSE IF hour <= 18 THEN 12 - hour ELSE hour - 24

Flag(b) == IF b THEN 1 ELSE 0

ExtractRaw(t) ==
  [ trip_distance |-> t.distance,
    sin_hour |-> SinRank(t.hour), cos_hour |-> SinRank((t.hour + 6) % 24),
    is_weekend |-> Flag(t.day \in {0, 6}),
    pickup_lat |-> t.lat, pickup_lon |-> t.lon,
    is_airport |-> Flag(t.rateCode \in {2, 3}),
    passenger_count |-> t.passenger ]

Features == { "trip_distance", "sin_hour", "cos_hour", "is_weekend", "pickup_lat",
              "pickup_lon", "is_airport", "passenger_count" }

(***************************************************************************)
(* FitScaler: per feature, whether its mean is finite, and its deviation.  *)
(* A feature that is the same in all trips is divided by 1.  Fault: by its *)
(* deviation, 0.                                                           *)
(***************************************************************************)
MeanIsFinite(trips, f) == \A i \in 1 .. Len(trips) : ExtractRaw(trips[i])[f] # NaN

Constant(trips, f) ==
  \A i \in 1 .. Len(trips) : ExtractRaw(trips[i])[f] = ExtractRaw(trips[1])[f]

Std_NoGuard(trips, f) ==
  IF ~MeanIsFinite(trips, f) THEN NaN ELSE IF Constant(trips, f) THEN 0 ELSE 1
Std(trips, f) == IF MeanIsFinite(trips, f) THEN 1 ELSE NaN

FitScaler(trips) ==
  [ means |-> {f \in Features : MeanIsFinite(trips, f)},
    stds  |-> [f \in Features |-> Std(trips, f)] ]

(***************************************************************************)
(* BuildFeatureVector: (raw - mean) / std is finite for every feature.     *)
(***************************************************************************)
VectorIsFinite(scaler, t) ==
  \A f \in Features : /\ ExtractRaw(t)[f] # NaN
                      /\ f \in scaler.means
                      /\ scaler.stds[f] \notin {0, NaN}

MatrixIsFinite(scaler, trips) == \A i \in 1 .. Len(trips) : VectorIsFinite(scaler, trips[i])

(***************************************************************************)
(* The first 80% are the training set.                                     *)
(***************************************************************************)
SplitAt(n) == (4 * n) \div 5

(***************************************************************************)
(* The MSE of an epoch, 0/0 for no trips, and the metrics of Evaluate,     *)
(* which are zeros for none.                                               *)
(***************************************************************************)
ComputeMSE(weights, scaler, trips) ==
  trips # <<>> /\ weights /\ MatrixIsFinite(scaler, trips)

Evaluate(weights, scaler, trips) ==
  trips = <<>> \/ (weights /\ MatrixIsFinite(scaler, trips))

(***************************************************************************)
(* TrainDistributed of at least one trip, for one or more epochs: a weight *)
(* is a sum over all the rows; diverges says whether the weights overflow, *)
(* for a learning rate that is too large.                                  *)
(***************************************************************************)
TrainDistributed(trips, diverges) ==
  LET train   == SubSeq(trips, 1, SplitAt(Len(trips)))
      test    == SubSeq(trips, SplitAt(Len(trips)) + 1, Len(trips))
      scaler  == FitScaler(train)
      weights == train = <<>> \/ (MatrixIsFinite(scaler, train) /\ ~diverges)
  IN  [ scaler       |-> scaler,
        weights      |-> weights,
        lossHistory  |-> ComputeMSE(weights, scaler, train),
        trainMetrics |-> Evaluate(weights, scaler, train),
        testMetrics  |-> Evaluate(weights, scaler, test) ]

(***************************************************************************)
(* json.Marshal refuses a number that is not finite; BSON does not.        *)
(***************************************************************************)
Marshals(m) ==
  /\ m.scaler.means = Features
  /\ \A f \in Features : m.scaler.stds[f] # NaN
  /\ m.weights /\ m.lossHistory /\ m.trainMetrics /\ m.testMetrics

--------------------------------------------------------------------------------
(***************************************************************************)
(* Trips that can be trained on: two or more, with all their features.     *)
(***************************************************************************)
Clean(trips) ==
  /\ Len(trips) >= 2
  /\ \A i \in 1 .. Len(trips) : NaN \notin {trips[i].distance, trips[i].lat, trips[i].lon}

================================================================================
