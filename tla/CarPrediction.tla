----------------------------- MODULE CarPrediction -----------------------------
(***************************************************************************)
(* The prediction of car sales                                             *)
(* (src/Algorithm/MachineLearning/TianChi/CarSellPredict/src). The program *)
(* reads a training file, trains the configured algorithms one after the   *)
(* other, predicts with the first of them, and writes the prediction. The  *)
(* mean algorithm also leaves a medium file, from which the linear         *)
(* regression learns. An error in writing is logged and nothing more, so   *)
(* that what lies in a file after a run may be of an earlier one. Dates    *)
(* are yyyymm.                                                             *)
(***************************************************************************)
EXTENDS Integers, Sequences, FiniteSets, FiniteSetsExt

CONSTANTS
    Trainings,   \* the training files: each a set of rows [id, date, class, sold]
    Forecasts,   \* the files to predict: each a sequence of rows [date, class]
    Methods,     \* the values of `methods': sequences of ids of algorithms
    Days         \* the days on which DailyFile.py is run, counted from 2018-01-15

\* yyyymm, the month from 1 to 12.
IsDate(date) == date \in Int /\ date % 100 \in 1 .. 12

\* A file is finite, and what its rows say are dates and numbers of cars. A row
\* of a training file is known by the number of its line.
ASSUME CarAssumption ==
    /\ Days \subseteq Int
    /\ \A rows \in Trainings :
          /\ IsFiniteSet(rows)
          /\ \A r \in rows : r.id \in Nat /\ IsDate(r.date) /\ r.sold \in Nat
          /\ \A r, q \in rows : r.id = q.id => r = q
    /\ \A lines \in Forecasts :
          /\ Len(lines) \in Nat /\ DOMAIN lines = 1 .. Len(lines)
          /\ \A i \in DOMAIN lines : IsDate(lines[i].date)

VARIABLES
    carStep,        \* "off", "training", "predicting", "ended", "aborted"
    training, forecast,
    utilAlgVector,  \* the algorithms still to be trained
    best,           \* the first of them, and what it learned
    meanRuns,       \* how often this run has trained the mean algorithm
    medium,         \* there is a medium file, from this run or an earlier one
    output,         \* the whole rows in the output file, from this run or an earlier one
    written,        \* what this run put there: "nothing", "part" or "whole" of its prediction
    uploads         \* the files that DailyFile.py set out to make: the line changed in each

carVars == <<carStep, training, forecast, utilAlgVector, best, meanRuns, medium, output,
             written, uploads>>

LINE_REGRESSON == 1
MEAN == 2

Untrained == [algorithm |-> 0, mean |-> {}]

CarInit ==
    /\ carStep = "off" /\ training = {} /\ forecast = <<>> /\ utilAlgVector = <<>>
    /\ best = Untrained /\ meanRuns = 0 /\ medium = FALSE /\ output = <<>>
    /\ written = "nothing" /\ uploads = {}

-----------------------------------------------------------------------------
(* utilfile: dates.                                                        *)

\* Mutant: the month is counted from 1 when it is stored.
WashesFromOne(date) == ((date \div 100) - 2012) * 12 + (date % 100)

\* Months since January 2012; one is subtracted before the date is split.
washmonth(date) ==
    LET yearmonthint == date - 1
        year == yearmonthint \div 100
    IN  (year - 2012) * 12 + (yearmonthint - year * 100)

recvermonth(month) ==
    LET year == month \div 12 IN year * 100 + 201200 + (month - year * 12 + 1)

-----------------------------------------------------------------------------
(* The algorithms.                                                         *)

SoldIn(rows, month, class) ==
    MapThenSumSet(LAMBDA r : r.sold, {r \in rows : r.class = class /\ washmonth(r.date) = month})

\* The rows that are not the first of their class and month.
Later(rows) ==
    {r \in rows : \E q \in rows :
        q.id < r.id /\ q.class = r.class /\ washmonth(q.date) = washmonth(r.date)}

\* What the n-th training finds: += adds the later rows of a month into the
\* first of them, in trainY itself, and each training before has done so.
SoldBy(n, rows, month, class) ==
    SoldIn(rows, month, class) + (n - 1) * SoldIn(Later(rows), month, class)

MonthlySales(rows, n) ==
    {[month |-> washmonth(r.date), class |-> r.class,
      sold |-> SoldBy(n, rows, washmonth(r.date), r.class)] : r \in rows}

\* round, to the even one of two that are equally near.
Rounded(n, d) ==
    LET q == n \div d
        twice == 2 * (n % d)
    IN  IF twice > d \/ (twice = d /\ q % 2 = 1) THEN q + 1 ELSE q

\* The mean of a class is that of its months with sales; that of class 0, which
\* trainW[0] overwrites, is that of the months of all classes.
MeanOf(sales, class) ==
    LET own == {s \in sales : class = 0 \/ s.class = class}
    IN  Rounded(MapThenSumSet(LAMBDA s : s.sold, own), Cardinality(own))

\* The log of what was read indexes the first row.
CarStart(methods, rows, lines) ==
    /\ carStep \in {"off", "ended", "aborted"}
    /\ carStep' = IF rows = {} THEN "aborted" ELSE "training"
    /\ training' = rows /\ forecast' = lines /\ utilAlgVector' = methods
    /\ best' = Untrained /\ meanRuns' = 0 /\ written' = "nothing"
    /\ UNCHANGED <<medium, output, uploads>>

\* A file is missing: the handler of the error closes what was never opened.
FileMissing ==
    /\ carStep \in {"training", "predicting"}
    /\ carStep' = "aborted"
    /\ UNCHANGED <<training, forecast, utilAlgVector, best, meanRuns, medium, output, written, uploads>>

\* The results are in a dictionary by the name of the class, in the order in
\* which the names came: training an algorithm again replaces what it learned.
Trained(algorithm, mean) ==
    /\ utilAlgVector' = Tail(utilAlgVector)
    /\ best' = IF best = Untrained \/ best.algorithm = algorithm
               THEN [algorithm |-> algorithm, mean |-> mean] ELSE best

\* utilAlg_Mean.trainData; whether the medium file could be written is only logged.
TrainMean ==
    /\ carStep = "training" /\ utilAlgVector # <<>> /\ Head(utilAlgVector) = MEAN
    /\ meanRuns' = meanRuns + 1
    /\ Trained(MEAN, MonthlySales(training, meanRuns + 1))
    /\ medium' \in {medium, TRUE}
    /\ UNCHANGED <<carStep, training, forecast, output, written, uploads>>

\* utilAlg_Lineregression.trainData learns nothing without a medium file, and
\* raises for one that has no rows, or a class without a row to verify with.
\* What it learns is left out, since its prediction raises. Its own file of the
\* best k is never written: 1 == genfile & 2 == method compares 1 with genfile & 2.
TrainLine ==
    /\ carStep = "training" /\ utilAlgVector # <<>> /\ Head(utilAlgVector) = LINE_REGRESSON
    /\ \/ Trained(LINE_REGRESSON, {}) /\ UNCHANGED carStep
       \/ medium /\ carStep' = "aborted" /\ UNCHANGED <<utilAlgVector, best>>
    /\ UNCHANGED <<training, forecast, meanRuns, medium, output, written, uploads>>

\* Any other id gives the base class, which learns nothing.
TrainBase ==
    /\ carStep = "training" /\ utilAlgVector # <<>>
    /\ Head(utilAlgVector) \notin {LINE_REGRESSON, MEAN}
    /\ Trained(Head(utilAlgVector), {})
    /\ UNCHANGED <<carStep, training, forecast, meanRuns, medium, output, written, uploads>>

\* The first algorithm is the best; without any the result cannot be unpacked.
selectbestAlgorithm ==
    /\ carStep = "training" /\ utilAlgVector = <<>>
    /\ carStep' = IF best = Untrained THEN "aborted" ELSE "predicting"
    /\ UNCHANGED <<training, forecast, utilAlgVector, best, meanRuns, medium, output, written, uploads>>

\* trainW[0] is always there.
Knows(class) == class = 0 \/ \E s \in best.mean : s.class = class

Prediction(i) ==
    [date |-> recvermonth(washmonth(forecast[i].date)), class |-> forecast[i].class,
     sold |-> MeanOf(best.mean, forecast[i].class)]

\* utilAlg_Mean.predictData: a class that was not trained is looked up in a
\* dictionary that is out of scope; the log of a file without rows raises too.
PredictionRaises == forecast = <<>> \/ \E i \in DOMAIN forecast : ~Knows(forecast[i].class)

MeanAborts ==
    /\ carStep = "predicting" /\ best.algorithm = MEAN /\ PredictionRaises
    /\ carStep' = "aborted"
    /\ UNCHANGED <<training, forecast, utilAlgVector, best, meanRuns, medium, output, written, uploads>>

\* utilfile.writePredictData swallows the IOError, of the open as of a row: the
\* program ends alike with the whole file, with its first rows, and with the
\* file of an earlier run.
PredictMean ==
    /\ carStep = "predicting" /\ best.algorithm = MEAN /\ ~PredictionRaises
    /\ carStep' = "ended"
    /\ \/ written' = "nothing" /\ UNCHANGED output
       \/ \E n \in 0 .. Len(forecast) :
             /\ output' = [i \in 1 .. n |-> Prediction(i)]
             /\ written' = IF n = Len(forecast) THEN "whole" ELSE "part"
    /\ UNCHANGED <<training, forecast, utilAlgVector, best, meanRuns, medium, uploads>>

\* utilAlg_Lineregression.predictData prints the car before there is one; what
\* the base class returns has no columns to write.
PredictOther ==
    /\ carStep = "predicting" /\ best.algorithm # MEAN
    /\ carStep' = "aborted"
    /\ UNCHANGED <<training, forecast, utilAlgVector, best, meanRuns, medium, output, written, uploads>>

-----------------------------------------------------------------------------
(* DailyFile.py: eight files a day, each with one line changed. A file     *)
(* that it cannot write is only printed.                                   *)

getFileInfo(day) == {i + day * 8 : i \in 1 .. 8}

genOutputFile(day) ==
    /\ uploads' = uploads \cup getFileInfo(day)
    /\ UNCHANGED <<carStep, training, forecast, utilAlgVector, best, meanRuns, medium, output, written>>

CarNext ==
    \/ \E methods \in Methods, rows \in Trainings, lines \in Forecasts : CarStart(methods, rows, lines)
    \/ FileMissing \/ TrainMean \/ TrainLine \/ TrainBase \/ selectbestAlgorithm
    \/ MeanAborts \/ PredictMean \/ PredictOther
    \/ \E day \in Days : genOutputFile(day)

CarSpec == CarInit /\ [][CarNext]_carVars

CarTypeOK ==
    /\ carStep \in {"off", "training", "predicting", "ended", "aborted"}
    /\ meanRuns \in Nat /\ medium \in BOOLEAN /\ written \in {"nothing", "part", "whole"}
    /\ uploads \subseteq UNION {getFileInfo(day) : day \in Days}
    /\ carStep = "predicting" => best # Untrained
    /\ written # "nothing" => carStep = "ended"

-----------------------------------------------------------------------------
(* Properties.                                                             *)

\* The rows that a prediction for the class is made of, and what the training
\* file has for the class and the date of one of them.
RowsFor(class) == {r \in training : class = 0 \/ r.class = class}
SalesWith(r) == MapThenSumSet(LAMBDA q : q.sold, {q \in training : q.class = r.class /\ q.date = r.date})

\* What a run has written, of all its prediction or of its first rows, are the
\* rows of the file to predict, with their dates, which are counted in months
\* in between. Each number is no less than the lowest sales that the class had
\* in a month of the training file, and no more than the highest: for class 0,
\* of any class, and if the mean algorithm was listed several times, so often
\* the highest (utilfile.py:109-143, utilAlg_Mean.py:22-52, srvpredict.py:55-66).
ForecastIsOfItsRow ==
    carStep = "ended" =>
        /\ written = "whole" => DOMAIN output = DOMAIN forecast
        /\ written # "nothing" =>
              \A i \in DOMAIN output :
                  /\ i \in DOMAIN forecast
                  /\ output[i].date = forecast[i].date /\ output[i].class = forecast[i].class
                  /\ \E r \in RowsFor(output[i].class) : SalesWith(r) <= output[i].sold
                  /\ \E r \in RowsFor(output[i].class) : output[i].sold <= meanRuns * SalesWith(r)
=============================================================================
